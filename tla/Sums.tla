-------------------------------- MODULE Sums --------------------------------
(***************************************************************************)
(* Induction over data, and sums over finite sets. The library's induction *)
(* theorems take an operator; these take the set of the values for which   *)
(* a claim holds. The sum is the fold of Functions, SumFunctionOnSet, with *)
(* which the contracts' purses are stated.                                 *)
(***************************************************************************)
EXTENDS Integers, FiniteSets, Functions, FiniteSetTheorems, TLAPS

(* A set of natural numbers has a least one.                                *)
LEMMA LeastNumber ==
  ASSUME NEW T \in SUBSET Nat, T # {}
  PROVE  \E n \in T : \A m \in T : n <= m
<1>1. IsWellFoundedOn(OpToRel(<, Nat), Nat)
  BY NatLessThanWellFounded
<1>2. PICK n \in T : \A m \in T : ~(<<m, n>> \in OpToRel(<, Nat))
  BY <1>1, WFMin
<1>3. \A m \in T : ~(m < n)
  BY <1>2 DEF OpToRel
<1> QED
  BY <1>3

(* A set with 0 that is closed under adding one has every natural number:   *)
(* otherwise its complement has a least element.                            *)
LEMMA NatSetInduction ==
  ASSUME NEW F, 0 \in F, \A n \in Nat : n \in F => n + 1 \in F
  PROVE  Nat \subseteq F
<1> DEFINE T == Nat \ F
<1> SUFFICES ASSUME T # {} PROVE FALSE
  OBVIOUS
<1>1. PICK n \in T : \A m \in T : n <= m
  BY LeastNumber
<1>2. n \in Nat /\ n # 0
  OBVIOUS
<1>3. n - 1 \in Nat /\ n = (n - 1) + 1 /\ ~(n <= n - 1)
  BY <1>2
<1>4. n - 1 \in F
  BY <1>1, <1>3
<1> QED
  BY <1>3, <1>4

(* A collection with the empty set that is closed under adding an element   *)
(* of S to a subset of S has S itself.                                      *)
LEMMA FiniteSetSetInduction ==
  ASSUME NEW S, IsFiniteSet(S), NEW F, {} \in F,
         \A T \in SUBSET S : \A x \in S \ T : T \in F => T \cup {x} \in F
  PROVE  S \in F
<1> DEFINE B == (SUBSET S) \ F
<1> SUFFICES ASSUME B # {} PROVE FALSE
  OBVIOUS
<1>0. FiniteSubsetsOf(S) = SUBSET S
  BY FS_FiniteSubsetsOfFinite
<1>1. IsWellFoundedOn(StrictSubsetOrdering(S), SUBSET S)
  BY <1>0, FS_StrictSubsetOrderingWellFounded
<1>2. PICK U \in B : \A V \in B : ~(<<V, U>> \in StrictSubsetOrdering(S))
  <2>1. B \subseteq SUBSET S
    BY DEF B
  <2> HIDE DEF B
  <2> QED
    BY <1>1, <2>1, WFMin
<1>3. PICK x \in U : TRUE
  BY <1>2
<1>4. <<U \ {x}, U>> \in StrictSubsetOrdering(S)
  BY <1>2, <1>3 DEF StrictSubsetOrdering
<1>5. U \ {x} \in F /\ U \ {x} \in SUBSET S
  BY <1>2, <1>4
<1>6. (U \ {x}) \cup {x} = U /\ x \in S \ (U \ {x})
  BY <1>2, <1>3
<1> QED
  BY <1>2, <1>5, <1>6

(* The element a fold takes next, and the equation its recursive function   *)
(* satisfies.                                                               *)
Pick(s) == CHOOSE x \in s : TRUE

SumEquation(fun, g, S) ==
  g = [s \in SUBSET S |-> IF s = {} THEN 0 ELSE fun[Pick(s)] + g[s \ {Pick(s)}]]

(* The sum, as the community module defines it.                             *)
LEMMA SumUnfold ==
  ASSUME NEW fun, NEW S
  PROVE  SumFunctionOnSet(fun, S) = (CHOOSE g : SumEquation(fun, g, S))[S]
BY DEF SumFunctionOnSet, FoldFunctionOnSet, MapThenFoldSet, SumEquation, Pick

(* The equation has a solution, built one cardinality at a time.            *)
LEMMA SumExists ==
  ASSUME NEW S, IsFiniteSet(S), NEW fun, \A x \in S : fun[x] \in Int
  PROVE  \E g : SumEquation(fun, g, S) /\ g \in [SUBSET S -> Int]
<1> DEFINE Sub(n) == {s \in SUBSET S : Cardinality(s) <= n}
           Eq(g, D) == \A s \in D : g[s] = IF s = {} THEN 0 ELSE fun[Pick(s)] + g[s \ {Pick(s)}]
           F == {n \in Nat : \E g \in [Sub(n) -> Int] : Eq(g, Sub(n))}
<1>0. \A s \in SUBSET S : IsFiniteSet(s) /\ Cardinality(s) \in Nat /\ (Cardinality(s) = 0 <=> s = {})
  BY FS_Subset, FS_CardinalityType, FS_EmptySet
<1>1. \A s \in SUBSET S : s # {} => /\ Pick(s) \in s
                                   /\ s \ {Pick(s)} \in SUBSET S
                                   /\ Cardinality(s \ {Pick(s)}) = Cardinality(s) - 1
  <2> SUFFICES ASSUME NEW s \in SUBSET S, s # {}
               PROVE  Pick(s) \in s /\ Cardinality(s \ {Pick(s)}) = Cardinality(s) - 1
    OBVIOUS
  <2>1. Pick(s) \in s
    BY DEF Pick
  <2> HIDE DEF Pick
  <2> QED
    BY <1>0, <2>1, FS_RemoveElement
<1>2. 0 \in F
  <2> DEFINE g == [s \in Sub(0) |-> 0]
  <2>1. g \in [Sub(0) -> Int]
    OBVIOUS
  <2>2. \A s \in Sub(0) : s = {}
    BY <1>0
  <2>3. Eq(g, Sub(0))
    BY <2>2
  <2> QED
    BY <2>1, <2>3
<1>3. ASSUME NEW n \in Nat, n \in F
      PROVE  n + 1 \in F
  <2>1. PICK g \in [Sub(n) -> Int] : Eq(g, Sub(n))
    BY <1>3
  <2> DEFINE h == [s \in Sub(n + 1) |-> IF s = {} THEN 0 ELSE fun[Pick(s)] + g[s \ {Pick(s)}]]
  <2>2. \A s \in Sub(n + 1) : s # {} => s \ {Pick(s)} \in Sub(n) /\ Pick(s) \in S
    BY <1>0, <1>1
  <2>3. h \in [Sub(n + 1) -> Int]
    BY <2>2
  <2>4. \A s \in Sub(n) : s \in Sub(n + 1) /\ h[s] = g[s]
    BY <2>1, <1>0
  <2>5. Eq(h, Sub(n + 1))
    BY <2>2, <2>4
  <2> HIDE DEF h, Eq, Sub
  <2>6. \E k \in [Sub(n + 1) -> Int] : Eq(k, Sub(n + 1))
    BY <2>3, <2>5
  <2> QED
    BY <2>6
<1>4. Nat \subseteq F
  <2> HIDE DEF F
  <2> QED
    BY <1>2, <1>3, NatSetInduction
<1>5. Cardinality(S) \in Nat
  BY FS_CardinalityType
<1>6. Sub(Cardinality(S)) = SUBSET S
  BY FS_Subset, <1>0
<1>7. PICK g \in [SUBSET S -> Int] : Eq(g, SUBSET S)
  BY <1>4, <1>5, <1>6
<1>8. g = [s \in SUBSET S |-> g[s]]
  BY <1>7
<1>9. [s \in SUBSET S |-> g[s]] = [s \in SUBSET S |-> IF s = {} THEN 0 ELSE fun[Pick(s)] + g[s \ {Pick(s)}]]
  BY <1>7
<1> QED
  BY <1>7, <1>8, <1>9 DEF SumEquation

(* Two solutions agree wherever both are defined.                           *)
LEMMA SumUnique ==
  ASSUME NEW S, IsFiniteSet(S), NEW fun, NEW g, SumEquation(fun, g, S),
         NEW T \in SUBSET S, NEW h, SumEquation(fun, h, T)
  PROVE  \A s \in SUBSET T : g[s] = h[s]
<1> DEFINE F == {n \in Nat : \A s \in SUBSET T : Cardinality(s) = n => g[s] = h[s]}
<1>0. \A s \in SUBSET T : IsFiniteSet(s) /\ Cardinality(s) \in Nat /\ (Cardinality(s) = 0 <=> s = {})
  BY FS_Subset, FS_CardinalityType, FS_EmptySet
<1>1. \A s \in SUBSET T : s # {} => /\ Pick(s) \in s
                                   /\ s \ {Pick(s)} \in SUBSET T
                                   /\ Cardinality(s \ {Pick(s)}) = Cardinality(s) - 1
  <2> SUFFICES ASSUME NEW s \in SUBSET T, s # {}
               PROVE  Pick(s) \in s /\ Cardinality(s \ {Pick(s)}) = Cardinality(s) - 1
    OBVIOUS
  <2>1. Pick(s) \in s
    BY DEF Pick
  <2> HIDE DEF Pick
  <2> QED
    BY <1>0, <2>1, FS_RemoveElement
<1>2. \A s \in SUBSET S : g[s] = IF s = {} THEN 0 ELSE fun[Pick(s)] + g[s \ {Pick(s)}]
  BY DEF SumEquation
<1>3. \A s \in SUBSET T : h[s] = IF s = {} THEN 0 ELSE fun[Pick(s)] + h[s \ {Pick(s)}]
  BY DEF SumEquation
<1>4. 0 \in F
  BY <1>0, <1>2, <1>3
<1>5. ASSUME NEW n \in Nat, n \in F
      PROVE  n + 1 \in F
  <2> SUFFICES ASSUME NEW s \in SUBSET T, Cardinality(s) = n + 1
               PROVE  g[s] = h[s]
    OBVIOUS
  <2>1. s # {}
    BY <1>0
  <2>2. s \ {Pick(s)} \in SUBSET T /\ Cardinality(s \ {Pick(s)}) = n
    BY <1>0, <1>1, <2>1
  <2>3. g[s \ {Pick(s)}] = h[s \ {Pick(s)}]
    BY <1>5, <2>2
  <2> QED
    BY <1>2, <1>3, <2>1, <2>3
<1>6. Nat \subseteq F
  <2> HIDE DEF F
  <2> QED
    BY <1>4, <1>5, NatSetInduction
<1> QED
  BY <1>0, <1>6

(* A sum is an integer, and takes the picked element from the rest.         *)
LEMMA SumRecurrence ==
  ASSUME NEW S, IsFiniteSet(S), NEW fun, \A x \in S : fun[x] \in Int
  PROVE  /\ SumFunctionOnSet(fun, S) \in Int
         /\ SumFunctionOnSet(fun, S) =
              IF S = {} THEN 0 ELSE fun[Pick(S)] + SumFunctionOnSet(fun, S \ {Pick(S)})
<1>1. PICK g : SumEquation(fun, g, S) /\ g \in [SUBSET S -> Int]
  BY SumExists
<1>2. \A T \in SUBSET S : SumFunctionOnSet(fun, T) = g[T]
  <2> SUFFICES ASSUME NEW T \in SUBSET S
               PROVE  SumFunctionOnSet(fun, T) = g[T]
    OBVIOUS
  <2>1. IsFiniteSet(T)
    BY FS_Subset
  <2>2. \E h : SumEquation(fun, h, T)
    BY SumExists, <2>1
  <2>3. PICK h : h = CHOOSE f : SumEquation(fun, f, T)
    OBVIOUS
  <2>4. SumEquation(fun, h, T)
    BY <2>2, <2>3
  <2>5. g[T] = h[T]
    BY <1>1, <2>4, SumUnique
  <2> QED
    BY <2>3, <2>5, SumUnfold
<1>3. S # {} => S \ {Pick(S)} \in SUBSET S
  OBVIOUS
<1>4. g[S] = IF S = {} THEN 0 ELSE fun[Pick(S)] + g[S \ {Pick(S)}]
  BY <1>1 DEF SumEquation
<1> QED
  BY <1>1, <1>2, <1>3, <1>4

(* Nothing sums up to zero.                                                 *)
LEMMA SumEmpty ==
  ASSUME NEW fun
  PROVE  SumFunctionOnSet(fun, {}) = 0
<1>1. IsFiniteSet({}) /\ \A x \in {} : fun[x] \in Int
  BY FS_EmptySet
<1> QED
  BY <1>1, SumRecurrence

(* Any element may be taken first.                                          *)
LEMMA SumSplit ==
  ASSUME NEW S, IsFiniteSet(S), NEW fun, \A x \in S : fun[x] \in Int, NEW x \in S
  PROVE  /\ SumFunctionOnSet(fun, S \ {x}) \in Int
         /\ SumFunctionOnSet(fun, S) = fun[x] + SumFunctionOnSet(fun, S \ {x})
<1>0. \A T \in SUBSET S : IsFiniteSet(T) /\ Cardinality(T) \in Nat /\ (Cardinality(T) = 0 <=> T = {})
  BY FS_Subset, FS_CardinalityType, FS_EmptySet
<1>1. \A T \in SUBSET S : \A y \in T : T \ {y} \in SUBSET S /\ Cardinality(T \ {y}) = Cardinality(T) - 1
  BY <1>0, FS_RemoveElement
<1>2. PICK sum : sum = [T \in SUBSET S |-> SumFunctionOnSet(fun, T)]
  OBVIOUS
<1>3. ASSUME NEW T \in SUBSET S
      PROVE  sum[T] \in Int
  BY <1>0, <1>2, SumRecurrence
<1>4. ASSUME NEW T \in SUBSET S, T # {}
      PROVE  \E c \in T : sum[T] = fun[c] + sum[T \ {c}]
  <2>1. Pick(T) \in T
    BY <1>4 DEF Pick
  <2>2. SumFunctionOnSet(fun, T) = fun[Pick(T)] + SumFunctionOnSet(fun, T \ {Pick(T)})
    BY <1>0, <1>4, SumRecurrence
  <2>3. sum[T] = SumFunctionOnSet(fun, T) /\ sum[T \ {Pick(T)}] = SumFunctionOnSet(fun, T \ {Pick(T)})
    BY <1>2
  <2> QED
    BY <2>1, <2>2, <2>3
<1> DEFINE F == {n \in Nat : \A T \in SUBSET S : Cardinality(T) = n =>
                                \A y \in T : sum[T] = fun[y] + sum[T \ {y}]}
<1>5. 0 \in F
  BY <1>0
<1>6. ASSUME NEW n \in Nat, n \in F
      PROVE  n + 1 \in F
  <2> SUFFICES ASSUME NEW T \in SUBSET S, Cardinality(T) = n + 1, NEW y \in T
               PROVE  sum[T] = fun[y] + sum[T \ {y}]
    OBVIOUS
  <2>1. PICK c \in T : sum[T] = fun[c] + sum[T \ {c}]
    <3>1. T # {}
      OBVIOUS
    <3> QED
      BY <1>4, <3>1
  <2>2. CASE c = y
    BY <2>1, <2>2
  <2>3. CASE c # y
    <3>1. T \ {c} \in SUBSET S /\ Cardinality(T \ {c}) = n /\ y \in T \ {c}
      BY <1>1, <2>1, <2>3
    <3>2. T \ {y} \in SUBSET S /\ Cardinality(T \ {y}) = n /\ c \in T \ {y}
      BY <1>1, <2>1, <2>3
    <3>3. sum[T \ {c}] = fun[y] + sum[(T \ {c}) \ {y}]
      BY <1>6, <3>1
    <3>4. sum[T \ {y}] = fun[c] + sum[(T \ {y}) \ {c}]
      BY <1>6, <3>2
    <3>5. PICK U \in SUBSET S : U = (T \ {c}) \ {y} /\ U = (T \ {y}) \ {c}
      OBVIOUS
    <3>6. sum[U] \in Int
      BY <1>3
    <3>7. c \in S /\ y \in S
      OBVIOUS
    <3>8. fun[c] \in Int /\ fun[y] \in Int
      BY <3>7
    <3>9. sum[T \ {c}] = fun[y] + sum[U] /\ sum[T \ {y}] = fun[c] + sum[U]
      BY <3>3, <3>4, <3>5
    <3> QED
      BY <2>1, <3>6, <3>8, <3>9
  <2> QED
    BY <2>2, <2>3
<1>7. Nat \subseteq F
  <2> HIDE DEF F
  <2> QED
    BY <1>5, <1>6, NatSetInduction
<1>8. S \in SUBSET S /\ S \ {x} \in SUBSET S
  OBVIOUS
<1>9. sum[S \ {x}] \in Int
  BY <1>3, <1>8
<1>10. Cardinality(S) \in F
  BY <1>0, <1>7, <1>8
<1>11. sum[S] = fun[x] + sum[S \ {x}]
  BY <1>8, <1>10
<1> QED
  BY <1>2, <1>8, <1>9, <1>11

(* A sum over one more element.                                             *)
LEMMA SumAdd ==
  ASSUME NEW T, IsFiniteSet(T), NEW x, x \notin T, NEW fun,
         \A y \in T \cup {x} : fun[y] \in Int
  PROVE  /\ SumFunctionOnSet(fun, T) \in Int
         /\ SumFunctionOnSet(fun, T \cup {x}) = fun[x] + SumFunctionOnSet(fun, T)
<1>1. IsFiniteSet(T \cup {x}) /\ (T \cup {x}) \ {x} = T /\ x \in T \cup {x}
  BY FS_AddElement
<1>2. PICK S : S = T \cup {x}
  OBVIOUS
<1>3. /\ SumFunctionOnSet(fun, S \ {x}) \in Int
      /\ SumFunctionOnSet(fun, S) = fun[x] + SumFunctionOnSet(fun, S \ {x})
  BY <1>1, <1>2, SumSplit
<1> QED
  BY <1>1, <1>2, <1>3

(* Natural numbers sum up to a natural number.                              *)
LEMMA SumNat ==
  ASSUME NEW S, IsFiniteSet(S), NEW fun, \A x \in S : fun[x] \in Nat
  PROVE  SumFunctionOnSet(fun, S) \in Nat
<1> DEFINE F == {T \in SUBSET S : SumFunctionOnSet(fun, T) \in Nat}
<1>1. {} \in F
  BY SumEmpty
<1>2. ASSUME NEW T \in SUBSET S, NEW x \in S \ T, T \in F
      PROVE  T \cup {x} \in F
  <2>1. SumFunctionOnSet(fun, T \cup {x}) = fun[x] + SumFunctionOnSet(fun, T)
    BY FS_Subset, SumAdd
  <2>2. fun[x] \in Nat /\ SumFunctionOnSet(fun, T) \in Nat
    BY <1>2
  <2>3. SumFunctionOnSet(fun, T \cup {x}) \in Nat
    BY <2>1, <2>2
  <2> QED
    BY <2>3
<1>3. S \in F
  <2> HIDE DEF F
  <2> QED
    BY <1>1, <1>2, FiniteSetSetInduction
<1> QED
  BY <1>3

(* Functions that agree on the set have the same sum.                       *)
LEMMA SumAgrees ==
  ASSUME NEW S, IsFiniteSet(S), NEW f, NEW g,
         \A x \in S : f[x] \in Int /\ f[x] = g[x]
  PROVE  SumFunctionOnSet(f, S) = SumFunctionOnSet(g, S)
<1> DEFINE F == {T \in SUBSET S : SumFunctionOnSet(f, T) = SumFunctionOnSet(g, T)}
<1>1. {} \in F
  BY SumEmpty
<1>2. ASSUME NEW T \in SUBSET S, NEW x \in S \ T, T \in F
      PROVE  T \cup {x} \in F
  <2>1. SumFunctionOnSet(f, T \cup {x}) = f[x] + SumFunctionOnSet(f, T)
    BY FS_Subset, SumAdd
  <2>2. SumFunctionOnSet(g, T \cup {x}) = g[x] + SumFunctionOnSet(g, T)
    BY FS_Subset, SumAdd
  <2>3. SumFunctionOnSet(f, T \cup {x}) = SumFunctionOnSet(g, T \cup {x})
    BY <1>2, <2>1, <2>2
  <2> QED
    BY <2>3
<1>3. S \in F
  <2> HIDE DEF F
  <2> QED
    BY <1>1, <1>2, FiniteSetSetInduction
<1> QED
  BY <1>3

(* Zeroes sum up to zero.                                                   *)
LEMMA SumZero ==
  ASSUME NEW S, IsFiniteSet(S), NEW fun, \A x \in S : fun[x] = 0
  PROVE  SumFunctionOnSet(fun, S) = 0
<1> DEFINE F == {T \in SUBSET S : SumFunctionOnSet(fun, T) = 0}
<1>1. {} \in F
  BY SumEmpty
<1>2. ASSUME NEW T \in SUBSET S, NEW x \in S \ T, T \in F
      PROVE  T \cup {x} \in F
  <2>1. \A y \in T \cup {x} : fun[y] \in Int
    OBVIOUS
  <2>2. SumFunctionOnSet(fun, T \cup {x}) = fun[x] + SumFunctionOnSet(fun, T)
    BY <2>1, FS_Subset, SumAdd
  <2>3. SumFunctionOnSet(fun, T \cup {x}) = 0
    BY <1>2, <2>2
  <2> QED
    BY <2>3
<1>3. S \in F
  <2> HIDE DEF F
  <2> QED
    BY <1>1, <1>2, FiniteSetSetInduction
<1> QED
  BY <1>3

(* Changing one value changes the sum by the difference.                    *)
LEMMA SumOneChanged ==
  ASSUME NEW S, IsFiniteSet(S), NEW x \in S,
         NEW f \in [S -> Int], NEW g \in [S -> Int],
         \A y \in S \ {x} : f[y] = g[y]
  PROVE  /\ SumFunctionOnSet(f, S) \in Int
         /\ SumFunctionOnSet(g, S) = SumFunctionOnSet(f, S) + (g[x] - f[x])
<1>1. IsFiniteSet(S \ {x})
  BY FS_RemoveElement
<1>2. SumFunctionOnSet(f, S \ {x}) = SumFunctionOnSet(g, S \ {x})
  BY <1>1, SumAgrees
<1>3. /\ SumFunctionOnSet(f, S) = f[x] + SumFunctionOnSet(f, S \ {x})
      /\ SumFunctionOnSet(f, S \ {x}) \in Int
  BY SumSplit
<1>4. SumFunctionOnSet(g, S) = g[x] + SumFunctionOnSet(g, S \ {x})
  BY SumSplit
<1> QED
  BY <1>2, <1>3, <1>4

(* Sums over sets without a common element add up.                           *)
LEMMA SumUnion ==
  ASSUME NEW A, IsFiniteSet(A), NEW B, IsFiniteSet(B), A \cap B = {},
         NEW f, \A x \in A \cup B : f[x] \in Int
  PROVE  /\ SumFunctionOnSet(f, A) \in Int /\ SumFunctionOnSet(f, B) \in Int
         /\ SumFunctionOnSet(f, A \cup B) = SumFunctionOnSet(f, A) + SumFunctionOnSet(f, B)
<1> DEFINE F == {T \in SUBSET B :
                   /\ SumFunctionOnSet(f, T) \in Int
                   /\ SumFunctionOnSet(f, A \cup T)
                        = SumFunctionOnSet(f, A) + SumFunctionOnSet(f, T)}
<1>0. SumFunctionOnSet(f, A) \in Int
  BY SumRecurrence
<1>1. {} \in F
  <2>1. A \cup {} = A
    OBVIOUS
  <2>2. SumFunctionOnSet(f, A \cup {}) = SumFunctionOnSet(f, A)
    BY <2>1
  <2> QED BY <1>0, <2>2, SumEmpty
<1>2. ASSUME NEW T \in SUBSET B, NEW x \in B \ T, T \in F
      PROVE  T \cup {x} \in F
  <2>1. IsFiniteSet(T) /\ IsFiniteSet(A \cup T)
    BY FS_Subset, FS_Union
  <2>2. x \notin T /\ x \notin A \cup T /\ \A y \in (A \cup T) \cup {x} : f[y] \in Int
    OBVIOUS
  <2>3. SumFunctionOnSet(f, T \cup {x}) = f[x] + SumFunctionOnSet(f, T)
    BY <2>1, <2>2, SumAdd
  <2>4. SumFunctionOnSet(f, (A \cup T) \cup {x}) = f[x] + SumFunctionOnSet(f, A \cup T)
    BY <2>1, <2>2, SumAdd
  <2>5. (A \cup T) \cup {x} = A \cup (T \cup {x})
    OBVIOUS
  <2>6. SumFunctionOnSet(f, A \cup (T \cup {x})) = f[x] + SumFunctionOnSet(f, A \cup T)
    BY <2>4, <2>5
  <2>7. f[x] \in Int
    OBVIOUS
  <2>8. /\ SumFunctionOnSet(f, T) \in Int
        /\ SumFunctionOnSet(f, A \cup T) = SumFunctionOnSet(f, A) + SumFunctionOnSet(f, T)
    BY <1>2
  <2>9. /\ SumFunctionOnSet(f, T \cup {x}) \in Int
        /\ SumFunctionOnSet(f, A \cup (T \cup {x}))
             = SumFunctionOnSet(f, A) + SumFunctionOnSet(f, T \cup {x})
    BY <1>0, <2>3, <2>6, <2>7, <2>8
  <2> QED BY <2>9
<1>3. B \in F
  <2> HIDE DEF F
  <2> QED BY <1>1, <1>2, FiniteSetSetInduction
<1> QED BY <1>0, <1>3

(* A sum over disjoint parts, part by part.                                  *)
LEMMA SumOfParts ==
  ASSUME NEW I, IsFiniteSet(I), NEW D, IsFiniteSet(D),
         NEW f, \A x \in D : f[x] \in Int,
         NEW part, \A i \in I : part[i] \in SUBSET D,
         \A i, j \in I : i # j => part[i] \cap part[j] = {},
         NEW g, \A i \in I : g[i] = SumFunctionOnSet(f, part[i])
  PROVE  SumFunctionOnSet(g, I) = SumFunctionOnSet(f, UNION {part[i] : i \in I})
<1> DEFINE all(J) == UNION {part[i] : i \in J}
           F == {J \in SUBSET I : SumFunctionOnSet(g, J) = SumFunctionOnSet(f, all(J))}
<1>1. {} \in F
  <2>1. all({}) = {}
    OBVIOUS
  <2>2. SumFunctionOnSet(f, all({})) = SumFunctionOnSet(f, {})
    BY <2>1
  <2> QED BY <2>2, SumEmpty
<1>2. \A i \in I : IsFiniteSet(part[i]) /\ g[i] \in Int
  <2> SUFFICES ASSUME NEW i \in I  PROVE IsFiniteSet(part[i]) /\ g[i] \in Int
    OBVIOUS
  <2>1. IsFiniteSet(part[i]) /\ \A x \in part[i] : f[x] \in Int
    BY FS_Subset
  <2>2. SumFunctionOnSet(f, part[i]) \in Int
    BY <2>1, SumRecurrence
  <2> QED BY <2>1, <2>2
<1>3. ASSUME NEW J \in SUBSET I, NEW x \in I \ J, J \in F
      PROVE  J \cup {x} \in F
  <2>1. IsFiniteSet(J) /\ \A y \in J \cup {x} : g[y] \in Int
    BY <1>2, FS_Subset
  <2>2. SumFunctionOnSet(g, J \cup {x}) = g[x] + SumFunctionOnSet(g, J)
        /\ SumFunctionOnSet(g, J) \in Int
    BY <2>1, SumAdd
  <2>3. all(J \cup {x}) = all(J) \cup part[x]
    OBVIOUS
  <2>4. all(J) \cap part[x] = {} /\ all(J) \in SUBSET D
    OBVIOUS
  <2>5. IsFiniteSet(all(J)) /\ IsFiniteSet(part[x])
        /\ \A y \in all(J) \cup part[x] : f[y] \in Int
    BY <1>2, <2>4, FS_Subset
  <2> HIDE DEF all
  <2>6. SumFunctionOnSet(f, all(J) \cup part[x])
          = SumFunctionOnSet(f, all(J)) + SumFunctionOnSet(f, part[x])
    BY <2>4, <2>5, SumUnion
  <2>7. SumFunctionOnSet(g, J) = SumFunctionOnSet(f, all(J))
    BY <1>3
  <2>8. g[x] = SumFunctionOnSet(f, part[x]) /\ g[x] \in Int
    BY <1>2
  <2>9. SumFunctionOnSet(g, J \cup {x}) = SumFunctionOnSet(f, all(J) \cup part[x])
    BY <2>2, <2>6, <2>7, <2>8
  <2>10. SumFunctionOnSet(g, J \cup {x}) = SumFunctionOnSet(f, all(J \cup {x}))
    BY <2>3, <2>9
  <2> QED BY <2>10
<1>4. I \in F
  <2> HIDE DEF F
  <2> QED BY <1>1, <1>3, FiniteSetSetInduction
<1> QED BY <1>4

-----------------------------------------------------------------------------
(* Functions defined by recursion over 0 .. N.                              *)

(* Induction up to a bound.                                                 *)
LEMMA RangeInduction ==
  ASSUME NEW N \in Nat, NEW F, 0 \in F, \A n \in 1 .. N : n - 1 \in F => n \in F
  PROVE  0 .. N \subseteq F
<1> DEFINE G == {n \in Nat : n <= N => n \in F}
<1>1. 0 \in G
  OBVIOUS
<1>2. ASSUME NEW n \in Nat, n \in G
      PROVE  n + 1 \in G
  <2> SUFFICES ASSUME n + 1 <= N PROVE n + 1 \in F
    OBVIOUS
  <2>1. n \in F
    BY <1>2
  <2>2. n + 1 \in 1 .. N /\ (n + 1) - 1 = n
    OBVIOUS
  <2> QED BY <2>1, <2>2
<1>3. Nat \subseteq G
  <2> HIDE DEF G
  <2> QED BY <1>1, <1>2, NatSetInduction
<1> QED BY <1>3

(* A step function has an orbit: a definition by recursion has a solution.  *)
IsOrbit(f, N, T, a, step) ==
  f \in [0 .. N -> T] /\ f[0] = a /\ \A n \in 1 .. N : f[n] = step[n][f[n - 1]]
LEMMA RecursionExists ==
  ASSUME NEW N \in Nat, NEW T, NEW a \in T, NEW step \in [1 .. N -> [T -> T]]
  PROVE  \E f : IsOrbit(f, N, T, a, step)
<1> DEFINE Orbit(f, k) == f[0] = a /\ \A n \in 1 .. k : f[n] = step[n][f[n - 1]]
           F == {k \in 0 .. N : \E f \in [0 .. k -> T] : Orbit(f, k)}
<1>1. 0 \in F
  <2> DEFINE f == [n \in 0 .. 0 |-> a]
  <2>1. f \in [0 .. 0 -> T] /\ f[0] = a
    OBVIOUS
  <2>2. 1 .. 0 = {}
    OBVIOUS
  <2> HIDE DEF f
  <2>3. Orbit(f, 0)
    BY <2>1, <2>2
  <2> QED BY <2>1, <2>3
<1>2. ASSUME NEW n \in 1 .. N, n - 1 \in F
      PROVE  n \in F
  <2>1. PICK f \in [0 .. n - 1 -> T] : Orbit(f, n - 1)
    BY <1>2
  <2>2. n - 1 \in 0 .. n - 1 /\ f[n - 1] \in T
    OBVIOUS
  <2> DEFINE new == step[n][f[n - 1]]
             h == [k \in 0 .. n |-> IF k = n THEN new ELSE f[k]]
  <2>3. new \in T
    BY <2>2
  <2> HIDE DEF new
  <2>4. h \in [0 .. n -> T] /\ h[0] = a /\ h[n] = new /\ \A k \in 0 .. n - 1 : h[k] = f[k]
    BY <2>1, <2>3
  <2> HIDE DEF h
  <2>5. ASSUME NEW k \in 1 .. n  PROVE h[k] = step[k][h[k - 1]]
    <3>1. k - 1 \in 0 .. n - 1 /\ h[k - 1] = f[k - 1]
      BY <2>4
    <3>2. CASE k = n
      BY <2>4, <3>1, <3>2 DEF new
    <3>3. CASE k # n
      <4>1. k \in 1 .. n - 1 /\ k \in 0 .. n - 1
        BY <3>3
      <4>2. h[k] = f[k] /\ f[k] = step[k][f[k - 1]]
        BY <2>1, <2>4, <4>1
      <4> QED BY <3>1, <4>2
    <3> QED BY <3>2, <3>3
  <2>6. Orbit(h, n)
    BY <2>4, <2>5
  <2> QED BY <2>4, <2>6
<1>3. 0 .. N \subseteq F
  <2> HIDE DEF F
  <2> QED BY <1>1, <1>2, RangeInduction
<1>4. PICK f \in [0 .. N -> T] : Orbit(f, N)
  BY <1>3
<1>5. IsOrbit(f, N, T, a, step)
  BY <1>4 DEF IsOrbit
<1> QED BY <1>5

(* A running total.                                                         *)
IsTotal(f, N, term) ==
  f \in [0 .. N -> Int] /\ f[0] = 0 /\ \A n \in 1 .. N : f[n] = f[n - 1] + term[n]
LEMMA RunningTotal ==
  ASSUME NEW N \in Nat, NEW term, \A n \in 1 .. N : term[n] \in Int
  PROVE  \E f : IsTotal(f, N, term)
<1> DEFINE step == [n \in 1 .. N |-> [x \in Int |-> x + term[n]]]
<1>1. step \in [1 .. N -> [Int -> Int]]
  OBVIOUS
<1>2. \A n \in 1 .. N, x \in Int : step[n][x] = x + term[n]
  OBVIOUS
<1> HIDE DEF step
<1>3. 0 \in Int
  OBVIOUS
<1>4. PICK f : IsOrbit(f, N, Int, 0, step)
  BY <1>1, <1>3, RecursionExists
<1>5. /\ f \in [0 .. N -> Int] /\ f[0] = 0
      /\ \A n \in 1 .. N : f[n] = step[n][f[n - 1]]
  BY <1>4 DEF IsOrbit
<1>6. \A n \in 1 .. N : f[n - 1] \in Int
  BY <1>5
<1>7. \A n \in 1 .. N : f[n] = f[n - 1] + term[n]
  BY <1>2, <1>5, <1>6
<1> QED BY <1>5, <1>7 DEF IsTotal

(* Two functions with one start and one step agree.                         *)
LEMMA RecursionAgrees ==
  ASSUME NEW N \in Nat, NEW f, NEW h, f[0] = h[0],
         \A n \in 1 .. N : f[n - 1] = h[n - 1] => f[n] = h[n]
  PROVE  f[N] = h[N]
<1> DEFINE F == {n \in 0 .. N : f[n] = h[n]}
<1>1. 0 \in F /\ \A n \in 1 .. N : n - 1 \in F => n \in F
  OBVIOUS
<1>2. 0 .. N \subseteq F
  <2> HIDE DEF F
  <2> QED BY <1>1, RangeInduction
<1> QED BY <1>2

(* One more term, and the sign of a total.                                  *)
LEMMA TotalExtended ==
  ASSUME NEW N \in Nat, NEW M, M = N + 1, NEW f, NEW h, NEW t, NEW u,
         IsTotal(f, N, t), IsTotal(h, M, u), \A n \in 1 .. N : t[n] = u[n]
  PROVE  f[N] \in Int /\ h[M] = f[N] + u[M]
<1>1. f[0] = h[0] /\ f[N] \in Int
  BY DEF IsTotal
<1>2. ASSUME NEW n \in 1 .. N, f[n - 1] = h[n - 1]
      PROVE  f[n] = h[n]
  <2>1. n \in 1 .. M
    OBVIOUS
  <2>2. f[n] = f[n - 1] + t[n] /\ h[n] = h[n - 1] + u[n]
    BY <2>1 DEF IsTotal
  <2> QED BY <1>2, <2>2
<1>3. f[N] = h[N]
  BY <1>1, <1>2, RecursionAgrees
<1>4. M \in 1 .. M /\ M - 1 = N
  OBVIOUS
<1> QED BY <1>1, <1>3, <1>4 DEF IsTotal

LEMMA TotalNat ==
  ASSUME NEW N \in Nat, NEW f, NEW t, IsTotal(f, N, t), \A n \in 1 .. N : t[n] \in Nat
  PROVE  f[N] \in Nat
<1> DEFINE F == {n \in 0 .. N : f[n] \in Nat}
<1>1. 0 \in F
  BY DEF IsTotal
<1>2. ASSUME NEW n \in 1 .. N, n - 1 \in F
      PROVE  n \in F
  <2>1. f[n] = f[n - 1] + t[n] /\ f[n - 1] \in Nat /\ t[n] \in Nat
    BY <1>2 DEF IsTotal
  <2> QED BY <2>1
<1>3. 0 .. N \subseteq F
  <2> HIDE DEF F
  <2> QED BY <1>1, <1>2, RangeInduction
<1> QED BY <1>3
=============================================================================
