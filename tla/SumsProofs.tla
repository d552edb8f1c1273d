----------------------------- MODULE SumsProofs ------------------------------
(***************************************************************************)
(* Sums over finite sets, wherever the models add something up: amounts of *)
(* entries (SumSigned), calls admitted at each age, transfers settled.     *)
(*                                                                         *)
(* SumOver(w, E), the sum of w[x] for x in E, is what all of them are.  It *)
(* is 0 on the empty set, and one more element adds its weight, in         *)
(* whatever order the recursion happens to take the elements.              *)
(*                                                                         *)
(* The proofs are by induction on the number of elements.  The library's   *)
(* induction rules quantify over operators; NatInductionOnSets states the  *)
(* rule for a set of numbers instead, and is applied to {n \in Nat : P(n)}.*)
(***************************************************************************)
EXTENDS LedgerEntries, FiniteSetTheorems, NaturalsInduction,
        WellFoundedInduction, TLAPS

\* A set of numbers that holds 0 and the successor of each of its members is
\* Nat: a least number outside it would have its predecessor inside.
LEMMA NatInductionOnSets ==
    ASSUME NEW S \in SUBSET Nat, 0 \in S, \A n \in S : n + 1 \in S
    PROVE  S = Nat
<1> DEFINE Missing == Nat \ S
<1> SUFFICES ASSUME Missing # {} PROVE FALSE
    OBVIOUS
<1>1. PICK m \in Missing : \A k \in Missing : <<k, m>> \notin OpToRel(<, Nat)
    BY NatLessThanWellFounded, WFMin
<1>2. m # 0
    OBVIOUS
<1>3. m - 1 \in Nat /\ <<m - 1, m>> \in OpToRel(<, Nat)
    BY <1>2 DEF OpToRel
<1>4. m - 1 \in S
    BY <1>1, <1>3
<1> QED
    BY <1>4

-----------------------------------------------------------------------------

\* One unfolding of the recursion in a sum.
SumStep(w, T, f) ==
    IF T = {} THEN 0
    ELSE LET e == CHOOSE e \in T : TRUE
         IN  w[e] + f[T \ {e}]

IsSum(w, E, f) == f = [T \in SUBSET E |-> SumStep(w, T, f)]

SumOver(w, E) == (CHOOSE f : IsSum(w, E, f))[E]

\* Every weight is an integer.
Weighs(w, E) == \A e \in E : w[e] \in Int

\* A function that satisfies the recursion exists: one for the subsets of at
\* most n entries extends to those of at most n + 1.
LEMMA SumFunctionExists ==
    ASSUME NEW w, NEW E, IsFiniteSet(E)
    PROVE  \E f : IsSum(w, E, f)
<1> DEFINE Small(n) == {T \in SUBSET E : Cardinality(T) <= n}
           Partial(n, f) == f = [T \in Small(n) |-> SumStep(w, T, f)]
           S == {n \in Nat : \E f : Partial(n, f)}
<1>1. \A T \in SUBSET E : IsFiniteSet(T) /\ Cardinality(T) \in Nat
    BY FS_Subset, FS_CardinalityType
<1>2. 0 \in S
  <2> DEFINE z == [T \in Small(0) |-> 0]
  <2>1. \A T \in Small(0) : T = {}
    BY <1>1, FS_EmptySet
  <2>2. \A T \in Small(0) : SumStep(w, T, z) = 0
    BY <2>1 DEF SumStep
  <2>3. Partial(0, z)
    BY <2>2
  <2> QED
    BY <2>3
<1>3. ASSUME NEW n \in S PROVE n + 1 \in S
  <2>1. PICK f : Partial(n, f)
    OBVIOUS
  <2> DEFINE g == [T \in Small(n + 1) |-> SumStep(w, T, f)]
  <2>2. ASSUME NEW T \in Small(n + 1) PROVE SumStep(w, T, g) = SumStep(w, T, f)
    <3>1. CASE T = {}
      BY <3>1 DEF SumStep
    <3>2. CASE T # {}
      <4> DEFINE e == CHOOSE e \in T : TRUE
                 R == T \ {e}
      <4>1. e \in T
        BY <3>2
      <4>2. Cardinality(R) = Cardinality(T) - 1
        BY <4>1, <1>1, FS_RemoveElement
      <4>3. R \in Small(n) /\ R \in Small(n + 1)
        BY <4>2, <1>1
      <4>4. g[R] = SumStep(w, R, f)
        BY <4>3
      <4>5. f[R] = SumStep(w, R, f)
        BY <4>3, <2>1
      <4>6. g[R] = f[R]
        BY <4>4, <4>5
      <4> HIDE DEF g
      <4> QED
        BY <3>2, <4>6 DEF SumStep
    <3> QED
      BY <3>1, <3>2
  <2>3. Partial(n + 1, g)
    BY <2>2
  <2>4. \E h : Partial(n + 1, h)
    BY <2>3
  <2>5. n + 1 \in Nat
    OBVIOUS
  <2> QED
    BY <2>4, <2>5
<1>4. S = Nat
    BY <1>2, <1>3, NatInductionOnSets
<1>5. Cardinality(E) \in S
    BY <1>1, <1>4
<1>6. Small(Cardinality(E)) = SUBSET E
    BY <1>1, FS_Subset
<1> QED
    BY <1>5, <1>6 DEF IsSum

\* A sum is the value of a function that satisfies the recursion.
LEMMA SumOverUnfold ==
    ASSUME NEW w, NEW E, IsFiniteSet(E)
    PROVE  \E f : IsSum(w, E, f) /\ SumOver(w, E) = f[E]
BY SumFunctionExists DEF SumOver

\* The recursion's value does not depend on the set it was defined over, is
\* an integer, and adds the weight of any member, not only of the one
\* the recursion chooses.
LEMMA SumFunctionFacts ==
    ASSUME NEW w, NEW E, IsFiniteSet(E), Weighs(w, E), NEW f, IsSum(w, E, f)
    PROVE  /\ \A T \in SUBSET E : f[T] \in Int
           /\ \A T \in SUBSET E : \A x \in T :
                f[T] = w[x] + f[T \ {x}]
           /\ \A D \in SUBSET E : \A g : IsSum(w, D, g) => \A T \in SUBSET D : f[T] = g[T]
<1>0. \A T \in SUBSET E : IsFiniteSet(T) /\ Cardinality(T) \in Nat
    BY FS_Subset, FS_CardinalityType
<1> DEFINE Adds(T) == \A x \in T : f[T] = w[x] + f[T \ {x}]
           Same(T) == \A D \in SUBSET E : \A g :
                        IsSum(w, D, g) /\ T \in SUBSET D => f[T] = g[T]
           Good(n) == \A T \in SUBSET E :
                        Cardinality(T) <= n => f[T] \in Int /\ Adds(T) /\ Same(T)
           S == {n \in Nat : Good(n)}
<1>1. f[{}] = 0 /\ \A D, g : IsSum(w, D, g) => g[{}] = 0
    BY DEF IsSum, SumStep
<1>2. 0 \in S
  <2>1. \A T \in SUBSET E : Cardinality(T) <= 0 => T = {}
    BY <1>0, FS_EmptySet
  <2>2. f[{}] \in Int /\ Adds({}) /\ Same({})
    BY <1>1
  <2> HIDE DEF Adds, Same
  <2> QED
    BY <2>1, <2>2
<1>3. ASSUME NEW n \in S PROVE n + 1 \in S
  <2>0. n \in Nat /\ Good(n)
    OBVIOUS
  <2> SUFFICES ASSUME NEW T \in SUBSET E, Cardinality(T) = n + 1
               PROVE  f[T] \in Int /\ Adds(T) /\ Same(T)
    <3> HIDE DEF Adds, Same
    <3>1. ASSUME NEW T \in SUBSET E, Cardinality(T) <= n + 1
          PROVE  Cardinality(T) <= n \/ Cardinality(T) = n + 1
      BY <2>0, <1>0, <3>1
    <3> QED
      BY <2>0, <3>1
  <2>10. n \in Nat
    BY <2>0
  <2>1. T # {}
    <3> HIDE DEF S
    <3> QED
      BY <2>10, FS_EmptySet
  <2> DEFINE c == CHOOSE e \in T : TRUE
             R == T \ {c}
  <2>2. c \in T /\ R \in SUBSET E /\ w[c] \in Int
    BY <2>1 DEF Weighs
  <2>3. Cardinality(R) = n /\ \A x \in T : Cardinality(T \ {x}) = n
    <3>1. \A x \in T : Cardinality(T \ {x}) = Cardinality(T) - 1
      BY <1>0, FS_RemoveElement
    <3>2. Cardinality(T) - 1 = n
      <4> HIDE DEF S
      <4> QED
        BY <2>10
    <3>3. \A x \in T : Cardinality(T \ {x}) = n
      BY <3>1, <3>2
    <3> QED
      BY <3>3, <2>2
  <2>4. f[T] = w[c] + f[R]
    BY <2>1 DEF IsSum, SumStep
  <2>5. f[R] \in Int /\ Adds(R) /\ Same(R)
    <3> HIDE DEF Adds, Same, R
    <3> QED
      BY <2>0, <2>2, <2>3
  <2>6. f[T] \in Int
    BY <2>2, <2>4, <2>5
  <2>7. ASSUME NEW x \in T PROVE f[T] = w[x] + f[T \ {x}]
    <3>1. CASE x = c
      BY <3>1, <2>4
    <3>2. CASE x # c
      <4> DEFINE Q == R \ {x}
      <4>1. x \in R /\ c \in T \ {x} /\ (T \ {x}) \ {c} = Q
        BY <3>2, <2>2
      <4>2. f[R] = w[x] + f[Q]
        BY <4>1, <2>5
      <4>3. f[T \ {x}] = w[c] + f[Q]
        BY <4>1, <2>0, <2>3
      <4>4. f[Q] \in Int /\ w[x] \in Int
        <5>1. Cardinality(Q) = n - 1
          BY <4>1, <2>2, <2>3, <1>0, FS_RemoveElement
        <5> QED
          BY <5>1, <2>0, <2>2 DEF Weighs
      <4> QED
        BY <2>2, <2>4, <4>2, <4>3, <4>4
    <3> QED
      BY <3>1, <3>2
  <2>8. ASSUME NEW D \in SUBSET E, NEW g, IsSum(w, D, g), T \in SUBSET D
        PROVE  f[T] = g[T]
    <3>1. g[T] = w[c] + g[R]
      BY <2>1, <2>8 DEF IsSum, SumStep
    <3>2. f[R] = g[R]
      BY <2>5, <2>8
    <3> QED
      BY <3>1, <3>2, <2>4
  <2> QED
    BY <2>6, <2>7, <2>8
<1>4. S = Nat
    BY <1>2, <1>3, NatInductionOnSets
<1>5. \A T \in SUBSET E : f[T] \in Int /\ Adds(T) /\ Same(T)
    BY <1>0, <1>4
<1> QED
    BY <1>5

-----------------------------------------------------------------------------

\* Nothing adds up to nothing.
THEOREM SumOverEmpty ==
    ASSUME NEW w
    PROVE  SumOver(w, {}) = 0
<1>1. PICK f : IsSum(w, {}, f) /\ SumOver(w, {}) = f[{}]
    BY FS_EmptySet, SumOverUnfold
<1>2. f[{}] = SumStep(w, {}, f)
    BY <1>1 DEF IsSum
<1> QED
    BY <1>1, <1>2 DEF SumStep

\* A sum of integers is one.
THEOREM SumOverType ==
    ASSUME NEW w, NEW E, IsFiniteSet(E), Weighs(w, E)
    PROVE  SumOver(w, E) \in Int
BY SumOverUnfold, SumFunctionFacts

\* One more element adds its weight; the others' weights matter in the set only,
\* so that another function with the same weights there has the same sum.
THEOREM SumOverAdd ==
    ASSUME NEW w, NEW E, IsFiniteSet(E), Weighs(w, E),
           NEW x, x \notin E, w[x] \in Int
    PROVE  SumOver(w, E \cup {x}) = SumOver(w, E) + w[x]
<1> DEFINE F == E \cup {x}
<1>1. IsFiniteSet(F) /\ Weighs(w, F) /\ F \ {x} = E
    BY FS_AddElement DEF Weighs
<1>2. PICK f : IsSum(w, F, f) /\ SumOver(w, F) = f[F]
    BY <1>1, SumOverUnfold
<1>3. PICK g : IsSum(w, E, g) /\ SumOver(w, E) = g[E]
    BY SumOverUnfold
<1>4. f[F] = w[x] + f[E] /\ f[E] = g[E] /\ f[E] \in Int
  <2> HIDE DEF F
  <2>1. x \in F /\ F \in SUBSET F /\ E \in SUBSET F
    BY DEF F
  <2>2. /\ \A T \in SUBSET F : f[T] \in Int
        /\ \A T \in SUBSET F : \A y \in T : f[T] = w[y] + f[T \ {y}]
        /\ \A D \in SUBSET F : \A h : IsSum(w, D, h) => \A T \in SUBSET D : f[T] = h[T]
    BY <1>1, <1>2, SumFunctionFacts
  <2>3. f[E] = g[E]
    BY <2>1, <2>2, <1>3
  <2> QED
    BY <1>1, <2>1, <2>2, <2>3
<1> QED
    BY <1>2, <1>3, <1>4

\* Two functions with the same weights in a set have the same sum over it.
THEOREM SumOverSame ==
    ASSUME NEW w, NEW v, NEW E, IsFiniteSet(E), Weighs(w, E), \A e \in E : w[e] = v[e]
    PROVE  SumOver(w, E) = SumOver(v, E)
<1>1. PICK f : IsSum(w, E, f) /\ SumOver(w, E) = f[E]
    BY SumOverUnfold
<1>2. PICK g : IsSum(v, E, g) /\ SumOver(v, E) = g[E]
    BY SumOverUnfold
<1>3. ASSUME NEW T \in SUBSET E PROVE SumStep(v, T, g) = SumStep(w, T, g)
    BY DEF SumStep
<1>4. IsSum(w, E, g)
    BY <1>2, <1>3 DEF IsSum
<1>5. \A D \in SUBSET E : \A h : IsSum(w, D, h) => \A T \in SUBSET D : f[T] = h[T]
    BY <1>1, SumFunctionFacts
<1>6. f[E] = g[E]
    BY <1>4, <1>5
<1> QED
    BY <1>1, <1>2, <1>6

\* Over two sets that have no element in common, it is the sum of the two sums.
THEOREM SumOverDisjoint ==
    ASSUME NEW w, NEW E, IsFiniteSet(E), Weighs(w, E),
           NEW N, IsFiniteSet(N), Weighs(w, N), E \cap N = {}
    PROVE  SumOver(w, E \cup N) = SumOver(w, E) + SumOver(w, N)
<1> DEFINE Adds(M) == SumOver(w, E \cup M) = SumOver(w, E) + SumOver(w, M)
           S == {n \in Nat : \A M \in SUBSET N : Cardinality(M) = n => Adds(M)}
<1>0. \A M \in SUBSET N : IsFiniteSet(M) /\ Cardinality(M) \in Nat
    BY FS_Subset, FS_CardinalityType
<1>1. SumOver(w, E) \in Int
    BY SumOverType
<1>2. 0 \in S
  <2>1. \A M \in SUBSET N : Cardinality(M) = 0 => M = {}
    BY <1>0, FS_EmptySet
  <2>2. Adds({})
    BY <1>1, SumOverEmpty
  <2> QED
    BY <2>1, <2>2
<1>3. ASSUME NEW n \in S PROVE n + 1 \in S
  <2> SUFFICES ASSUME NEW M \in SUBSET N, Cardinality(M) = n + 1
               PROVE  Adds(M)
    OBVIOUS
  <2>1. PICK x \in M : TRUE
    BY FS_EmptySet
  <2> DEFINE K == M \ {x}
             F == E \cup K
  <2>2. Cardinality(K) = n /\ K \in SUBSET N /\ IsFiniteSet(K) /\ Weighs(w, K)
    <3>0. n \in Nat /\ IsFiniteSet(M)
      BY <1>0
    <3>1. Cardinality(K) = n /\ IsFiniteSet(K)
      <4>1. IsFiniteSet(M \ {x}) /\ Cardinality(M \ {x}) = Cardinality(M) - 1
        BY <3>0, FS_RemoveElement
      <4> HIDE DEF S
      <4> QED
        BY <3>0, <4>1
    <3>2. \A e \in K : e \in N
      OBVIOUS
    <3>3. Weighs(w, K)
      BY <3>2, Zenon DEF Weighs
    <3> QED
      BY <3>1, <3>3
  <2>3. SumOver(w, F) = SumOver(w, E) + SumOver(w, K)
    BY <2>2
  <2>4. IsFiniteSet(F) /\ Weighs(w, F) /\ SumOver(w, K) \in Int
    BY <2>2, FS_Union, SumOverType DEF Weighs
  <2>5. w[x] \in Int /\ x \notin F /\ x \notin K
    BY DEF Weighs
  <2>6. E \cup M = F \cup {x} /\ M = K \cup {x}
    OBVIOUS
  <2>7. SumOver(w, F \cup {x}) = SumOver(w, F) + w[x]
    BY <2>4, <2>5, SumOverAdd
  <2>8. SumOver(w, K \cup {x}) = SumOver(w, K) + w[x]
    BY <2>2, <2>5, SumOverAdd
  <2> HIDE DEF F, K, S
  <2>9. SumOver(w, F \cup {x}) = SumOver(w, E) + SumOver(w, K \cup {x})
    BY <1>1, <2>3, <2>4, <2>5, <2>7, <2>8
  <2> QED
    BY <2>6, <2>9
<1>4. S = Nat
    BY <1>2, <1>3, NatInductionOnSets
<1> QED
    BY <1>0, <1>4

\* If each element of S is sent to one of K that weighs at least as much, and no
\* two to the same, then what K has in all outweighs S.
THEOREM SumOverInto ==
    ASSUME NEW w, NEW S, IsFiniteSet(S), Weighs(w, S),
           NEW v, NEW K, IsFiniteSet(K), \A k \in K : v[k] \in Int /\ v[k] >= 0,
           NEW f, \A s \in S : f[s] \in K /\ w[s] <= v[f[s]],
           \A s, t \in S : f[s] = f[t] => s = t
    PROVE  SumOver(w, S) <= SumOver(v, K)
<1> DEFINE Into(M, I) == SumOver(w, M) <= SumOver(v, I)
           N == {n \in Nat : \A M \in SUBSET S, I \in SUBSET K :
                    Cardinality(I) = n /\ (\A s \in M : f[s] \in I) => Into(M, I)}
<1>0. /\ \A M \in SUBSET S : IsFiniteSet(M) /\ Weighs(w, M) /\ SumOver(w, M) \in Int
      /\ \A I \in SUBSET K : IsFiniteSet(I) /\ Cardinality(I) \in Nat
      /\ \A I \in SUBSET K : Weighs(v, I) /\ SumOver(v, I) \in Int
  <2>1. \A M \in SUBSET S : IsFiniteSet(M) /\ Weighs(w, M)
    BY FS_Subset DEF Weighs
  <2>2. \A I \in SUBSET K : IsFiniteSet(I) /\ Weighs(v, I)
    BY FS_Subset DEF Weighs
  <2> QED
    BY <2>1, <2>2, SumOverType, FS_CardinalityType
<1>1. 0 \in N
  <2> SUFFICES ASSUME NEW M \in SUBSET S, NEW I \in SUBSET K,
                      Cardinality(I) = 0, \A s \in M : f[s] \in I
               PROVE  Into(M, I)
    OBVIOUS
  <2>1. I = {} /\ M = {}
    BY <1>0, FS_EmptySet
  <2> QED
    BY <2>1, SumOverEmpty
<1>2. ASSUME NEW n \in N PROVE n + 1 \in N
  <2>0. n \in Nat
    OBVIOUS
  <2> SUFFICES ASSUME NEW M \in SUBSET S, NEW I \in SUBSET K,
                      Cardinality(I) = n + 1, \A s \in M : f[s] \in I
               PROVE  Into(M, I)
    <3> HIDE DEF Into
    <3> QED
      BY <2>0
  <2>1. I # {}
    <3>1. n + 1 # 0
      BY <2>0
    <3>2. Cardinality(I) # 0
      BY <3>1
    <3> QED
      BY <3>2, FS_EmptySet
  <2> PICK k \in I : TRUE
    BY <2>1
  <2> DEFINE J == I \ {k}
  <2>2. /\ J \in SUBSET K /\ Cardinality(J) = n /\ k \notin J /\ I = J \cup {k}
        /\ SumOver(v, I) = SumOver(v, J) + v[k] /\ v[k] \in Int /\ v[k] >= 0
    <3>1. Cardinality(J) = Cardinality(I) - 1
      BY <1>0, FS_RemoveElement
    <3>2. Cardinality(J) = n
      <4> HIDE DEF N, J
      <4> QED
        BY <2>0, <3>1
    <3>3. J \in SUBSET K /\ k \notin J /\ I = J \cup {k} /\ v[k] \in Int /\ v[k] >= 0
      OBVIOUS
    <3>4. SumOver(v, J \cup {k}) = SumOver(v, J) + v[k]
      <4> HIDE DEF J
      <4> QED
        BY <1>0, <3>3, SumOverAdd
    <3> QED
      BY <3>2, <3>3, <3>4
  <2>3. CASE \A s \in M : f[s] # k
    <3>1. \A s \in M : f[s] \in J
      BY <2>3
    <3>2. Into(M, J)
      <4> HIDE DEF J, Into
      <4> QED
        BY <2>2, <3>1
    <3> HIDE DEF J, N
    <3> QED
      BY <1>0, <2>2, <3>2
  <2>4. ASSUME NEW s \in M, f[s] = k
        PROVE  Into(M, I)
    <3> DEFINE L == M \ {s}
    <3>1. L \in SUBSET S /\ (\A t \in L : f[t] \in J) /\ s \notin L /\ M = L \cup {s}
      BY <2>4
    <3>2. Into(L, J)
      <4> HIDE DEF L, J, Into
      <4> QED
        BY <2>2, <3>1
    <3>3. w[s] \in Int /\ w[s] <= v[k]
      BY <2>4 DEF Weighs
    <3>4. SumOver(w, L \cup {s}) = SumOver(w, L) + w[s]
      <4> HIDE DEF L
      <4> QED
        BY <1>0, <3>1, <3>3, SumOverAdd
    <3> HIDE DEF J, L, N
    <3> QED
      BY <1>0, <2>2, <3>1, <3>2, <3>3, <3>4
  <2> QED
    BY <2>3, <2>4
<1>3. N = Nat
    BY <1>1, <1>2, NatInductionOnSets
<1> QED
    BY <1>0, <1>3

\* Less weight in a smaller set is less in all.
COROLLARY SumOverLess ==
    ASSUME NEW w, NEW v, NEW K, IsFiniteSet(K), NEW S \in SUBSET K, Weighs(w, S),
           \A k \in K : v[k] \in Int /\ v[k] >= 0, \A s \in S : w[s] <= v[s]
    PROVE  SumOver(w, S) <= SumOver(v, K)
<1> DEFINE f == [s \in S |-> s]
<1>1. IsFiniteSet(S)
    BY FS_Subset
<1>2. (\A s \in S : f[s] \in K /\ w[s] <= v[f[s]]) /\ \A s, t \in S : f[s] = f[t] => s = t
    OBVIOUS
<1> HIDE DEF f
<1> QED
    BY <1>1, <1>2, SumOverInto

\* What weighs nothing or more is nothing or more in all.
COROLLARY SumOverNatural ==
    ASSUME NEW v, NEW K, IsFiniteSet(K), \A k \in K : v[k] \in Int /\ v[k] >= 0
    PROVE  SumOver(v, K) \in Nat
<1>1. SumOver(v, {}) <= SumOver(v, K)
    BY SumOverLess DEF Weighs
<1>2. SumOver(v, K) \in Int
    BY SumOverType DEF Weighs
<1> QED
    BY <1>1, <1>2, SumOverEmpty

\* Elements without weight have none together.
COROLLARY SumOverZeros ==
    ASSUME NEW w, NEW E, IsFiniteSet(E), \A e \in E : w[e] = 0
    PROVE  SumOver(w, E) = 0
<1> DEFINE z == [T \in SUBSET E |-> 0]
<1>1. Weighs(w, E)
    BY DEF Weighs
<1>2. ASSUME NEW T \in SUBSET E PROVE SumStep(w, T, z) = 0
    BY DEF SumStep
<1>3. IsSum(w, E, z)
    BY <1>2 DEF IsSum
<1>4. PICK f : IsSum(w, E, f) /\ SumOver(w, E) = f[E]
    BY SumOverUnfold
<1>5. f[E] = z[E]
  <2> HIDE DEF z
  <2> QED
    BY <1>1, <1>3, <1>4, SumFunctionFacts
<1> QED
    BY <1>4, <1>5

\* So many weights, each within a bound, are within so many times the bound.
THEOREM SumOverBound ==
    ASSUME NEW w, NEW E, IsFiniteSet(E), NEW B \in Int,
           \A e \in E : w[e] \in Int /\ w[e] <= B
    PROVE  SumOver(w, E) <= Cardinality(E) * B
<1> DEFINE S == {n \in Nat : \A M \in SUBSET E : Cardinality(M) = n => SumOver(w, M) <= n * B}
<1>0. \A M \in SUBSET E : /\ IsFiniteSet(M) /\ Cardinality(M) \in Nat
                          /\ Weighs(w, M) /\ SumOver(w, M) \in Int
  <2>1. \A M \in SUBSET E : IsFiniteSet(M) /\ Weighs(w, M)
    BY FS_Subset DEF Weighs
  <2> QED
    BY <2>1, FS_CardinalityType, SumOverType
<1>1. 0 \in S
  <2>1. \A M \in SUBSET E : Cardinality(M) = 0 => M = {}
    BY <1>0, FS_EmptySet
  <2>2. \A M \in SUBSET E : Cardinality(M) = 0 => SumOver(w, M) = 0
    BY <2>1, SumOverEmpty
  <2>3. 0 * B = 0
    OBVIOUS
  <2> QED
    BY <2>2, <2>3
<1>2. ASSUME NEW n \in S PROVE n + 1 \in S
  <2>0. n \in Nat /\ (n + 1) * B = n * B + B /\ n * B \in Int
    OBVIOUS
  <2>1. ASSUME NEW M \in SUBSET E, Cardinality(M) = n + 1
        PROVE  SumOver(w, M) <= (n + 1) * B
    <3>1. M # {}
      <4>1. n + 1 # 0
        BY <2>0
      <4> QED
        BY <2>1, <4>1, FS_EmptySet
    <3>2. PICK x \in M : TRUE
      BY <3>1
    <3> DEFINE L == M \ {x}
    <3>3. L \in SUBSET E /\ x \notin L /\ M = L \cup {x} /\ w[x] \in Int /\ w[x] <= B
      BY <3>2
    <3>4. Cardinality(L) = n
      <4>1. Cardinality(L) = Cardinality(M) - 1
        BY <1>0, <3>2, FS_RemoveElement
      <4> HIDE DEF L, S
      <4> QED
        BY <2>0, <2>1, <4>1
    <3>5. SumOver(w, L) <= n * B
      BY <3>3, <3>4
    <3> HIDE DEF L
    <3>6. SumOver(w, M) = SumOver(w, L) + w[x] /\ SumOver(w, L) \in Int
      BY <1>0, <3>3, SumOverAdd
    <3> HIDE DEF S
    <3> QED
      BY <2>0, <3>3, <3>5, <3>6
  <2> QED
    BY <2>0, <2>1
<1>3. S = Nat
  <2> HIDE DEF S
  <2>1. S \in SUBSET Nat
    BY DEF S
  <2> QED
    BY <1>1, <1>2, <2>1, NatInductionOnSets
<1> QED
  <2>1. Cardinality(E) \in S
    BY <1>0, <1>3
  <2> QED
    BY <2>1

-----------------------------------------------------------------------------
(* The sum of entries. *)

\* Every amount in E is an integer.
Signed(E) == \A e \in E : e.signed_amount_minor \in Int

AmountsOf(E) == [e \in E |-> e.signed_amount_minor]

\* SumSigned is a sum of the amounts of its entries.
LEMMA SumSignedIsSum ==
    ASSUME NEW E, IsFiniteSet(E), Signed(E), NEW F, E \subseteq F
    PROVE  SumSigned(E) = SumOver(AmountsOf(F), E) /\ Weighs(AmountsOf(F), E)
<1> DEFINE w == AmountsOf(F)
           Step(T, f) == IF T = {} THEN 0
                         ELSE LET e == CHOOSE e \in T : TRUE
                              IN  e.signed_amount_minor + f[T \ {e}]
           Is(f) == f = [T \in SUBSET E |-> Step(T, f)]
<1>1. Weighs(w, E)
    BY DEF Weighs, Signed, AmountsOf
<1>2. ASSUME NEW f PROVE Is(f) <=> IsSum(w, E, f)
  <2>1. ASSUME NEW T \in SUBSET E PROVE Step(T, f) = SumStep(w, T, f)
    BY DEF SumStep, AmountsOf
  <2> HIDE DEF Step, w
  <2> QED
    BY <2>1 DEF IsSum
<1>3. PICK g : IsSum(w, E, g) /\ SumOver(w, E) = g[E]
    BY SumOverUnfold
<1>4. SumSigned(E) = (CHOOSE f : Is(f))[E]
    BY DEF SumSigned
<1>5. IsSum(w, E, CHOOSE f : Is(f))
  <2> HIDE DEF Is
  <2>1. \E f : Is(f)
    BY <1>2, <1>3
  <2> QED
    BY <1>2, <2>1
<1>6. g[E] = (CHOOSE f : Is(f))[E]
  <2> HIDE DEF Is, w
  <2> QED
    BY <1>1, <1>3, <1>5, SumFunctionFacts
<1> QED
    BY <1>1, <1>3, <1>4, <1>6

\* No entries, no balance: ZERO_BALANCE.
THEOREM SumSignedEmpty == SumSigned({}) = 0
BY FS_EmptySet, SumSignedIsSum, SumOverEmpty DEF Signed

\* A balance is an integer.
THEOREM SumSignedType ==
    ASSUME NEW E, IsFiniteSet(E), Signed(E)
    PROVE  SumSigned(E) \in Int
BY SumSignedIsSum, SumOverType

\* The sum over two groups without an entry in common is the sum of their sums.
THEOREM SumSignedDisjoint ==
    ASSUME NEW E, IsFiniteSet(E), Signed(E),
           NEW N, IsFiniteSet(N), Signed(N), E \cap N = {}
    PROVE  SumSigned(E \cup N) = SumSigned(E) + SumSigned(N)
<1> DEFINE F == E \cup N
<1>1. IsFiniteSet(F) /\ Signed(F)
    BY FS_Union DEF Signed
<1>2. SumSigned(F) = SumOver(AmountsOf(F), F)
    BY <1>1, SumSignedIsSum
<1>3. SumSigned(E) = SumOver(AmountsOf(F), E) /\ Weighs(AmountsOf(F), E)
    BY SumSignedIsSum
<1>4. SumSigned(N) = SumOver(AmountsOf(F), N) /\ Weighs(AmountsOf(F), N)
    BY SumSignedIsSum
<1> QED
    BY <1>2, <1>3, <1>4, SumOverDisjoint

\* Inserting an entry changes the sum by exactly its signed amount.
THEOREM SumSignedAdd ==
    ASSUME NEW E, IsFiniteSet(E), Signed(E),
           NEW x, x \notin E, x.signed_amount_minor \in Int
    PROVE  SumSigned(E \cup {x}) = SumSigned(E) + x.signed_amount_minor
<1> DEFINE F == E \cup {x}
<1>1. IsFiniteSet(F) /\ Signed(F)
    BY FS_AddElement DEF Signed
<1>2. SumSigned(F) = SumOver(AmountsOf(F), F)
    BY <1>1, SumSignedIsSum
<1>3. SumSigned(E) = SumOver(AmountsOf(F), E) /\ Weighs(AmountsOf(F), E)
    BY SumSignedIsSum
<1>4. AmountsOf(F)[x] = x.signed_amount_minor
    BY DEF AmountsOf
<1> QED
    BY <1>2, <1>3, <1>4, SumOverAdd

\* Entries that credit can only raise a sum.
THEOREM SumSignedGrows ==
    ASSUME NEW E, IsFiniteSet(E), Signed(E),
           NEW N, IsFiniteSet(N),
           \A e \in N : e.signed_amount_minor \in Int /\ e.signed_amount_minor >= 0
    PROVE  SumSigned(E \cup N) >= SumSigned(E)
<1> DEFINE M == N \ E
<1>1. IsFiniteSet(M) /\ Signed(M) /\ E \cap M = {} /\ E \cup N = E \cup M
    BY FS_Difference DEF Signed
<1>2. SumSigned(E \cup M) = SumSigned(E) + SumSigned(M)
    BY <1>1, SumSignedDisjoint
<1>3. SumSigned(M) >= 0
  <2>1. \A e \in M : AmountsOf(M)[e] \in Int /\ AmountsOf(M)[e] >= 0
    BY DEF AmountsOf
  <2>2. SumOver(AmountsOf(M), M) \in Nat
    BY <1>1, <2>1, SumOverNatural
  <2> QED
    BY <1>1, <2>2, SumSignedIsSum
<1>4. SumSigned(E) \in Int /\ SumSigned(M) \in Int
    BY <1>1, SumSignedType
<1>5. SumSigned(E \cup N) = SumSigned(E) + SumSigned(M)
    BY <1>1, <1>2
<1> HIDE DEF M
<1> QED
    BY <1>3, <1>4, <1>5

\* The two entries of a transaction are different, and add up to nothing.
LEMMA PairOfEntries ==
    ASSUME NEW t, t.amount_minor \in Int
    PROVE  /\ DebitEntry(t) # CreditEntry(t)
           /\ Cardinality(EntriesOf(t)) = 2 /\ SumSigned(EntriesOf(t)) = 0
<1> DEFINE d == DebitEntry(t)
           c == CreditEntry(t)
<1>1. /\ d.signed_amount_minor = -t.amount_minor /\ c.signed_amount_minor = t.amount_minor
      /\ t.amount_minor \in Int /\ d.direction # c.direction
    BY DEF DebitEntry, CreditEntry, Entry, SignedAmountFor
<1>2. d # c /\ EntriesOf(t) = {d} \cup {c} /\ {d} = {} \cup {d}
    BY <1>1 DEF EntriesOf
<1> HIDE DEF d, c
<1>3. IsFiniteSet({}) /\ IsFiniteSet({d}) /\ Cardinality({d}) = 1
    BY FS_EmptySet, FS_Singleton
<1>4. Cardinality({d} \cup {c}) = 2
  <2>1. c \notin {d}
    BY <1>2
  <2>2. Cardinality({d} \cup {c}) = Cardinality({d}) + 1
    BY <1>3, <2>1, FS_AddElement
  <2> QED
    BY <1>3, <2>2
<1>5. SumSigned({} \cup {d}) = SumSigned({}) + d.signed_amount_minor
    BY <1>1, <1>3, SumSignedAdd DEF Signed
<1>6. SumSigned({d} \cup {c}) = SumSigned({d}) + c.signed_amount_minor
    BY <1>1, <1>2, <1>3, SumSignedAdd DEF Signed
<1>7. SumSigned({d}) = d.signed_amount_minor
  <2>1. SumSigned({d}) = SumSigned({} \cup {d})
    BY <1>2
  <2> QED
    BY <1>1, <1>5, <2>1, SumSignedEmpty
<1>8. SumSigned({d} \cup {c}) = 0
  <2>1. SumSigned({d} \cup {c}) = (-t.amount_minor) + t.amount_minor
    BY <1>1, <1>6, <1>7, Zenon
  <2>2. \A n \in Int : (-n) + n = 0
    OBVIOUS
  <2>3. (-t.amount_minor) + t.amount_minor = 0
    BY <1>1, <2>2, Zenon
  <2> QED
    BY <2>1, <2>3, Zenon
<1>9. EntriesOf(t) = {d} \cup {c} /\ d # c
    BY <1>2
<1>10. DebitEntry(t) # CreditEntry(t)
    BY <1>9 DEF d, c
<1> QED
    BY <1>4, <1>8, <1>9, <1>10, Zenon

=============================================================================
