--------------------------- MODULE FiniteInduction ---------------------------
(***************************************************************************)
(* Facts about finite sets that need induction, for the proofs: what       *)
(* SumFunctionOnSet of the community modules returns, preserves and bounds *)
(* (it is defined by recursion), and that a finite set that is ordered has *)
(* a last member and one of every rank.  Each proof takes a smallest       *)
(* counterexample, which exists because the strict subsets of a finite set *)
(* are well-founded, and contradicts it.                                   *)
(***************************************************************************)
EXTENDS Integers, Sequences, Folds, Functions, FiniteSetTheorems, TLAPS

-----------------------------------------------------------------------------
(* Induction principles.                                                   *)

(* A non-empty set of natural numbers has a least member. *)
LEMMA LeastNatural ==
  ASSUME NEW T \in SUBSET Nat, T # {}
  PROVE  \E m \in T : \A n \in T : m <= n
<1> DEFINE R == OpToRel(<, Nat)
<1>1. IsWellFoundedOn(R, Nat)
  BY NatLessThanWellFounded
<1>2. \A x, y \in Nat : x < y => <<x, y>> \in R
  BY DEF OpToRel
<1> HIDE DEF R
<1>3. PICK x \in T : \A y \in T : ~(<<y, x>> \in R)
  BY <1>1, WFMin
<1>4. ASSUME NEW n \in T PROVE x <= n
  <2>1. ~ (n < x)
    BY <1>2, <1>3, Zenon
  <2> QED BY <2>1
<1> QED BY <1>4


(* A non-empty family of subsets of a finite set has a member of which no   *)
(* strict subset is a member.                                              *)
LEMMA SmallestSubset ==
  ASSUME NEW S, IsFiniteSet(S), NEW F \in SUBSET (SUBSET S), F # {}
  PROVE  \E T \in F : \A U \in SUBSET T : U # T => U \notin F
<1> DEFINE R == StrictSubsetOrdering(S)
<1>1. IsWellFoundedOn(R, SUBSET S)
  BY FS_StrictSubsetOrderingWellFounded, FS_FiniteSubsetsOfFinite
<1>2. \A U, T \in SUBSET S : U \subseteq T /\ U # T => <<U, T>> \in R
  BY DEF StrictSubsetOrdering
<1> HIDE DEF R
<1>3. PICK T \in F : \A U \in F : ~(<<U, T>> \in R)
  BY <1>1, WFMin
<1>4. ASSUME NEW U \in SUBSET T, U # T PROVE U \notin F
  BY <1>2, <1>3, <1>4
<1> QED BY <1>4

-----------------------------------------------------------------------------
(* The recursive function that defines a sum exists and is unique.         *)

Chosen(s) == CHOOSE x \in s : TRUE

SumStep(f, g, s) == IF s = {} THEN 0 ELSE f[Chosen(s)] + g[s \ {Chosen(s)}]

(* g gives the sum of f over every subset of T. *)
IsGraph(f, T, g) == g = [s \in SUBSET T |-> SumStep(f, g, s)]

SumGraph(f, T) == CHOOSE g : IsGraph(f, T, g)

LEMMA ChosenIn == ASSUME NEW s, s # {} PROVE Chosen(s) \in s
BY DEF Chosen

LEMMA SumIsGraph ==
  ASSUME NEW f, NEW T
  PROVE  SumFunctionOnSet(f, T) = SumGraph(f, T)[T]
BY Zenon DEF SumFunctionOnSet, FoldFunctionOnSet, MapThenFoldSet, SumGraph,
             IsGraph, SumStep, Chosen

(* Two such functions agree where both are defined. *)
LEMMA GraphsAgree ==
  ASSUME NEW f, NEW T, IsFiniteSet(T), NEW U \in SUBSET T,
         NEW g, NEW h, IsGraph(f, T, g), IsGraph(f, U, h)
  PROVE  \A s \in SUBSET U : g[s] = h[s]
<1> SUFFICES ASSUME {s \in SUBSET U : g[s] # h[s]} # {} PROVE FALSE
  OBVIOUS
<1> DEFINE D == {s \in SUBSET U : g[s] # h[s]}
<1>0. IsFiniteSet(U)
  BY FS_Subset
<1>1. PICK s \in D : \A V \in SUBSET s : V # s => V \notin D
  <2> HIDE DEF D
  <2>1. D \in SUBSET (SUBSET U) BY DEF D
  <2>2. D # {} BY DEF D
  <2> QED BY <1>0, <2>1, <2>2, SmallestSubset
<1>2. s \in SUBSET U /\ s \in SUBSET T /\ g[s] # h[s]
  OBVIOUS
<1>3. g[s] = SumStep(f, g, s) /\ h[s] = SumStep(f, h, s)
  <2>1. \A x \in SUBSET T : g[x] = SumStep(f, g, x)
    BY DEF IsGraph
  <2>2. \A x \in SUBSET U : h[x] = SumStep(f, h, x)
    BY DEF IsGraph
  <2> QED BY <1>2, <2>1, <2>2
<1>4. CASE s = {}
  BY <1>2, <1>3, <1>4 DEF SumStep
<1>5. CASE s # {}
  <2>1. Chosen(s) \in s
    BY <1>5, ChosenIn
  <2>2. s \ {Chosen(s)} \in SUBSET s /\ s \ {Chosen(s)} # s
    BY <2>1
  <2>3. g[s \ {Chosen(s)}] = h[s \ {Chosen(s)}]
    BY <1>1, <1>2, <2>2
  <2> QED BY <1>2, <1>3, <1>5, <2>3 DEF SumStep
<1> QED BY <1>4, <1>5

(* Below a smallest set without one, the functions of the smaller sets can *)
(* be put together.                                                        *)
LEMMA GraphExists ==
  ASSUME NEW f, NEW T, IsFiniteSet(T)
  PROVE  \E g : IsGraph(f, T, g)
<1> DEFINE D == {U \in SUBSET T : ~ \E g : IsGraph(f, U, g)}
<1> SUFFICES ASSUME D # {} PROVE FALSE
  OBVIOUS
<1>1. PICK U \in D : \A V \in SUBSET U : V # U => V \notin D
  <2> HIDE DEF D
  <2>1. D \in SUBSET (SUBSET T) BY DEF D
  <2> QED BY <2>1, SmallestSubset
<1>0. IsFiniteSet(U)
  BY FS_Subset
<1> DEFINE H(V) == CHOOSE g : IsGraph(f, V, g)
<1>2. ASSUME NEW V \in SUBSET U, V # U PROVE IsGraph(f, V, H(V))
  <2>1. V \notin D BY <1>1, <1>2
  <2>2. V \in SUBSET T BY <1>1
  <2> QED BY <2>1, <2>2
<1> HIDE DEF H
<1> DEFINE rest(s) == s \ {Chosen(s)}
<1>3. ASSUME NEW s \in SUBSET U, s # {}
      PROVE  rest(s) \in SUBSET s /\ rest(s) # s
  BY <1>3, ChosenIn
<1> DEFINE h == [s \in SUBSET U |->
                    IF s = {} THEN 0
                    ELSE f[Chosen(s)] + H(rest(s))[rest(s)]]
<1>4. ASSUME NEW s \in SUBSET U, s # U PROVE h[s] = H(s)[s]
  <2>1. IsGraph(f, s, H(s)) BY <1>2, <1>4
  <2>2. H(s)[s] = SumStep(f, H(s), s)
    <3>1. \A x \in SUBSET s : H(s)[x] = SumStep(f, H(s), x)
      BY <2>1 DEF IsGraph
    <3> QED BY <3>1
  <2>3. CASE s = {}
    BY <2>2, <2>3 DEF SumStep
  <2>4. CASE s # {}
    <3>1. rest(s) \in SUBSET s /\ rest(s) # s
      BY <1>3, <2>4
    <3>2. IsGraph(f, rest(s), H(rest(s)))
      <4>1. rest(s) \in SUBSET U /\ rest(s) # U
        BY <3>1
      <4> QED BY <1>2, <4>1
    <3>3. IsFiniteSet(s) BY <1>0, FS_Subset
    <3>4. H(s)[rest(s)] = H(rest(s))[rest(s)]
      BY <2>1, <3>1, <3>2, <3>3, GraphsAgree
    <3> QED BY <2>2, <2>4, <3>4 DEF SumStep
  <2> QED BY <2>3, <2>4
<1>5. IsGraph(f, U, h)
  <2>1. ASSUME NEW s \in SUBSET U PROVE h[s] = SumStep(f, h, s)
    <3>1. CASE s = {}
      BY <3>1 DEF SumStep
    <3>2. CASE s # {}
      <4>1. rest(s) \in SUBSET U /\ rest(s) # U
        BY <1>3, <3>2
      <4>2. h[rest(s)] = H(rest(s))[rest(s)]
        BY <1>4, <4>1
      <4> QED BY <3>2, <4>2 DEF SumStep
    <3> QED BY <3>1, <3>2
  <2> QED BY <2>1 DEF IsGraph
<1> QED BY <1>1, <1>5

-----------------------------------------------------------------------------
(* Sums.                                                                   *)

LEMMA SumValue ==
  ASSUME NEW f, NEW T, IsFiniteSet(T), NEW U \in SUBSET T, NEW g, IsGraph(f, T, g)
  PROVE  SumFunctionOnSet(f, U) = g[U]
<1>0. IsFiniteSet(U)
  BY FS_Subset
<1>1. IsGraph(f, U, SumGraph(f, U))
  <2>1. \E h : IsGraph(f, U, h)
    BY <1>0, GraphExists
  <2> QED BY <2>1, Zenon DEF SumGraph
<1>2. \A h : IsGraph(f, U, h) => g[U] = h[U]
  <2> SUFFICES ASSUME NEW h, IsGraph(f, U, h) PROVE g[U] = h[U]
    OBVIOUS
  <2>1. U \in SUBSET U
    OBVIOUS
  <2> QED BY <2>1, GraphsAgree
<1>3. g[U] = SumGraph(f, U)[U]
  BY <1>1, <1>2
<1> QED BY <1>3, SumIsGraph

(* The definition, as an equation. *)
LEMMA SumUnfold ==
  ASSUME NEW f, NEW T, IsFiniteSet(T), T # {}
  PROVE  /\ Chosen(T) \in T
         /\ SumFunctionOnSet(f, T) = f[Chosen(T)] + SumFunctionOnSet(f, T \ {Chosen(T)})
<1>1. PICK g : IsGraph(f, T, g)
  BY GraphExists
<1>2. g[T] = SumStep(f, g, T)
  BY <1>1 DEF IsGraph
<1>3. SumFunctionOnSet(f, T) = g[T] /\ SumFunctionOnSet(f, T \ {Chosen(T)}) = g[T \ {Chosen(T)}]
  BY <1>1, SumValue
<1> QED BY <1>2, <1>3, ChosenIn DEF SumStep

(* Nothing adds up to zero. *)
LEMMA SumEmpty == ASSUME NEW f PROVE SumFunctionOnSet(f, {}) = 0
<1>1. PICK g : IsGraph(f, {}, g)
  BY GraphExists, FS_EmptySet
<1>2. g[{}] = SumStep(f, g, {})
  BY <1>1 DEF IsGraph
<1>3. SumFunctionOnSet(f, {}) = g[{}]
  BY <1>1, SumValue, FS_EmptySet
<1> QED BY <1>2, <1>3 DEF SumStep

(* Integers add up to an integer. *)
LEMMA SumType ==
  ASSUME NEW f, NEW T, IsFiniteSet(T), \A x \in T : f[x] \in Int
  PROVE  SumFunctionOnSet(f, T) \in Int
<1> DEFINE D == {U \in SUBSET T : SumFunctionOnSet(f, U) \notin Int}
<1> SUFFICES ASSUME D # {} PROVE FALSE
  OBVIOUS
<1>1. PICK U \in D : \A V \in SUBSET U : V # U => V \notin D
  <2> HIDE DEF D
  <2>1. D \in SUBSET (SUBSET T) BY DEF D
  <2> QED BY <2>1, SmallestSubset
<1>2. U # {}
  BY SumEmpty
<1>3. IsFiniteSet(U)
  BY FS_Subset
<1>4. /\ Chosen(U) \in U
      /\ SumFunctionOnSet(f, U) = f[Chosen(U)] + SumFunctionOnSet(f, U \ {Chosen(U)})
  BY <1>2, <1>3, SumUnfold
<1>5. U \ {Chosen(U)} \notin D /\ U \ {Chosen(U)} \in SUBSET T
  BY <1>1, <1>4
<1>6. SumFunctionOnSet(f, U \ {Chosen(U)}) \in Int
  BY <1>5
<1>7. f[Chosen(U)] \in Int
  BY <1>4
<1> QED BY <1>1, <1>4, <1>6, <1>7

(* The order of summation is immaterial: any index can be summed last. *)
LEMMA SumRemove ==
  ASSUME NEW f, NEW T, IsFiniteSet(T), \A x \in T : f[x] \in Int, NEW x \in T
  PROVE  SumFunctionOnSet(f, T) = f[x] + SumFunctionOnSet(f, T \ {x})
<1> DEFINE S(U) == SumFunctionOnSet(f, U)
           D == {U \in SUBSET T : \E y \in U : S(U) # f[y] + S(U \ {y})}
<1> HIDE DEF S
<1> SUFFICES ASSUME D # {} PROVE FALSE
  BY DEF S
<1>1. PICK U \in D : \A V \in SUBSET U : V # U => V \notin D
  <2> HIDE DEF D
  <2>1. D \in SUBSET (SUBSET T) BY DEF D
  <2> QED BY <2>1, SmallestSubset
<1>2. PICK y \in U : S(U) # f[y] + S(U \ {y})
  OBVIOUS
<1>3. IsFiniteSet(U)
  BY FS_Subset
<1> DEFINE c == Chosen(U)
<1>4. c \in U /\ S(U) = f[c] + S(U \ {c})
  BY <1>2, <1>3, SumUnfold DEF S
<1>5. c # y
  BY <1>2, <1>4
<1>6. S(U \ {c}) = f[y] + S((U \ {c}) \ {y})
  <2>1. U \ {c} \notin D /\ U \ {c} \in SUBSET T
    BY <1>1, <1>4
  <2> QED BY <1>5, <2>1
<1>7. S(U \ {y}) = f[c] + S((U \ {y}) \ {c})
  <2>1. U \ {y} \notin D /\ U \ {y} \in SUBSET T
    BY <1>1, <1>4
  <2> QED BY <1>4, <1>5, <2>1
<1>8. (U \ {c}) \ {y} = (U \ {y}) \ {c}
  OBVIOUS
<1>9. f[c] \in Int /\ f[y] \in Int
  BY <1>2, <1>4
<1>10. S((U \ {c}) \ {y}) \in Int
  <2>1. (U \ {c}) \ {y} \in SUBSET T
    OBVIOUS
  <2>2. IsFiniteSet((U \ {c}) \ {y})
    BY <2>1, FS_Subset
  <2> QED BY <2>1, <2>2, SumType DEF S
<1> QED
  <2> DEFINE a == f[c]  b == f[y]  r == S((U \ {c}) \ {y})
  <2>1. S(U) = a + (b + r) BY <1>4, <1>6
  <2>2. S(U \ {y}) = a + r BY <1>7, <1>8
  <2>3. a \in Int /\ b \in Int /\ r \in Int BY <1>9, <1>10
  <2>4. S(U) # b + (a + r) BY <1>2, <2>2
  <2> HIDE DEF a, b, r
  <2> QED BY <2>1, <2>3, <2>4

(* Only the values at the indices matter. *)
LEMMA SumCongruence ==
  ASSUME NEW T, IsFiniteSet(T), NEW f, NEW g, \A x \in T : f[x] = g[x]
  PROVE  SumFunctionOnSet(f, T) = SumFunctionOnSet(g, T)
<1> DEFINE D == {U \in SUBSET T : SumFunctionOnSet(f, U) # SumFunctionOnSet(g, U)}
<1> SUFFICES ASSUME D # {} PROVE FALSE
  OBVIOUS
<1>1. PICK U \in D : \A V \in SUBSET U : V # U => V \notin D
  <2> HIDE DEF D
  <2>1. D \in SUBSET (SUBSET T) BY DEF D
  <2> QED BY <2>1, SmallestSubset
<1>2. U # {}
  BY SumEmpty
<1>3. IsFiniteSet(U)
  BY FS_Subset
<1>4. /\ Chosen(U) \in U
      /\ SumFunctionOnSet(f, U) = f[Chosen(U)] + SumFunctionOnSet(f, U \ {Chosen(U)})
      /\ SumFunctionOnSet(g, U) = g[Chosen(U)] + SumFunctionOnSet(g, U \ {Chosen(U)})
  BY <1>2, <1>3, SumUnfold
<1>5. U \ {Chosen(U)} \notin D /\ U \ {Chosen(U)} \in SUBSET T
  BY <1>1, <1>4
<1>6. f[Chosen(U)] = g[Chosen(U)]
  BY <1>4
<1> QED BY <1>1, <1>4, <1>5, <1>6

(* The indices may be moved down by one. *)
LEMMA SumShift ==
  ASSUME NEW T \in SUBSET Nat, IsFiniteSet(T), NEW f, NEW g,
         \A i \in T : f[i] \in Int /\ g[i - 1] = f[i]
  PROVE  SumFunctionOnSet(f, T) = SumFunctionOnSet(g, {i - 1 : i \in T})
<1> DEFINE Down(U) == {i - 1 : i \in U}
           D == {U \in SUBSET T : SumFunctionOnSet(f, U) # SumFunctionOnSet(g, Down(U))}
<1> SUFFICES ASSUME D # {} PROVE FALSE
  OBVIOUS
<1>1. PICK U \in D : \A V \in SUBSET U : V # U => V \notin D
  <2> HIDE DEF D
  <2>1. D \in SUBSET (SUBSET T) BY DEF D
  <2> QED BY <2>1, SmallestSubset
<1>2. U # {}
  <2>1. Down({}) = {} OBVIOUS
  <2> QED BY <2>1, SumEmpty
<1>3. IsFiniteSet(U)
  BY FS_Subset
<1> DEFINE c == Chosen(U)
<1>4. c \in U /\ SumFunctionOnSet(f, U) = f[c] + SumFunctionOnSet(f, U \ {c})
  BY <1>2, <1>3, SumUnfold
<1>5. SumFunctionOnSet(f, U \ {c}) = SumFunctionOnSet(g, Down(U \ {c}))
  <2>1. U \ {c} \notin D /\ U \ {c} \in SUBSET T
    BY <1>1, <1>4
  <2> QED BY <2>1
<1>6. Down(U \ {c}) = Down(U) \ {c - 1} /\ c - 1 \in Down(U)
  <2>1. U \in SUBSET Nat /\ c \in U
    BY <1>4
  <2> HIDE DEF c
  <2> QED BY <2>1
<1>7. IsFiniteSet(Down(U)) /\ \A j \in Down(U) : g[j] \in Int
  <2>1. IsFiniteSet(Down(U))
    <3>1. [i \in U |-> i - 1] \in Surjection(U, Down(U))
      BY DEF Surjection
    <3> QED BY <1>3, <3>1, FS_Surjection
  <2> QED BY <2>1
<1>8. SumFunctionOnSet(g, Down(U)) = g[c - 1] + SumFunctionOnSet(g, Down(U) \ {c - 1})
  <2> HIDE DEF Down, c
  <2> QED BY <1>6, <1>7, SumRemove
<1>9. g[c - 1] = f[c]
  BY <1>4
<1> QED BY <1>1, <1>4, <1>5, <1>6, <1>8, <1>9

(* One more index. *)
LEMMA SumAdd ==
  ASSUME NEW f, NEW T, IsFiniteSet(T), NEW x, x \notin T,
         \A y \in T \cup {x} : f[y] \in Int
  PROVE  SumFunctionOnSet(f, T \cup {x}) = f[x] + SumFunctionOnSet(f, T)
<1>1. IsFiniteSet(T \cup {x})
  BY FS_AddElement
<1>2. (T \cup {x}) \ {x} = T
  OBVIOUS
<1>3. SumFunctionOnSet(f, T \cup {x})
        = f[x] + SumFunctionOnSet(f, (T \cup {x}) \ {x})
  BY <1>1, SumRemove
<1> QED  BY <1>2, <1>3

(* A sequence of n numbers and one more. *)
LEMMA SumAppend ==
  ASSUME NEW n \in Nat, NEW f, NEW g,
         \A i \in 1 .. n : f[i] \in Int /\ g[i] = f[i],
         g[n + 1] \in Int
  PROVE  SumFunctionOnSet(g, 1 .. n + 1)
           = g[n + 1] + SumFunctionOnSet(f, 1 .. n)
<1>1. IsFiniteSet(1 .. n)
  BY FS_Interval
<1>2. /\ 1 .. n + 1 = (1 .. n) \cup {n + 1}
      /\ n + 1 \notin 1 .. n
  OBVIOUS
<1>3. SumFunctionOnSet(g, (1 .. n) \cup {n + 1})
        = g[n + 1] + SumFunctionOnSet(g, 1 .. n)
  BY <1>1, <1>2, SumAdd
<1>4. SumFunctionOnSet(f, 1 .. n) = SumFunctionOnSet(g, 1 .. n)
  BY <1>1, SumCongruence
<1> QED  BY <1>2, <1>3, <1>4

(* Indices at which the function is zero add nothing. *)
LEMMA SumZero ==
  ASSUME NEW f, NEW T, IsFiniteSet(T), \A x \in T : f[x] = 0
  PROVE  SumFunctionOnSet(f, T) = 0
<1> DEFINE D == {U \in SUBSET T : SumFunctionOnSet(f, U) # 0}
<1> SUFFICES ASSUME D # {} PROVE FALSE
  OBVIOUS
<1>1. PICK U \in D : \A V \in SUBSET U : V # U => V \notin D
  <2> HIDE DEF D
  <2>1. D \in SUBSET (SUBSET T) BY DEF D
  <2> QED BY <2>1, SmallestSubset
<1>2. U # {}
  BY SumEmpty
<1>3. /\ Chosen(U) \in U
      /\ SumFunctionOnSet(f, U)
           = f[Chosen(U)] + SumFunctionOnSet(f, U \ {Chosen(U)})
  BY <1>2, FS_Subset, SumUnfold
<1>4. U \ {Chosen(U)} \notin D /\ U \ {Chosen(U)} \in SUBSET T
  BY <1>1, <1>3
<1>5. f[Chosen(U)] = 0
  BY <1>3
<1> QED BY <1>1, <1>3, <1>4, <1>5

(* Values that are not negative have a sum that is not negative. *)
LEMMA SumNat ==
  ASSUME NEW f, NEW T, IsFiniteSet(T), \A x \in T : f[x] \in Nat
  PROVE  SumFunctionOnSet(f, T) \in Nat
<1> DEFINE D == {U \in SUBSET T : SumFunctionOnSet(f, U) \notin Nat}
<1> SUFFICES ASSUME D # {} PROVE FALSE
  OBVIOUS
<1>1. PICK U \in D : \A V \in SUBSET U : V # U => V \notin D
  <2> HIDE DEF D
  <2>1. D \in SUBSET (SUBSET T) BY DEF D
  <2> QED BY <2>1, SmallestSubset
<1>2. U # {}
  BY SumEmpty
<1>3. /\ Chosen(U) \in U
      /\ SumFunctionOnSet(f, U)
           = f[Chosen(U)] + SumFunctionOnSet(f, U \ {Chosen(U)})
  BY <1>2, FS_Subset, SumUnfold
<1>4. U \ {Chosen(U)} \notin D /\ U \ {Chosen(U)} \in SUBSET T
  BY <1>1, <1>3
<1>5. /\ f[Chosen(U)] \in Nat
      /\ SumFunctionOnSet(f, U \ {Chosen(U)}) \in Nat
  BY <1>3, <1>4
<1> QED BY <1>1, <1>3, <1>5

-----------------------------------------------------------------------------
(* Finite sets in order.                                                   *)

(* R orders S strictly, as a set of pairs <<smaller, greater>>. *)
OrdersStrictly(R, S) ==
  /\ \A x, y \in S : x # y => <<x, y>> \in R \/ <<y, x>> \in R
  /\ \A x, y, z \in S : <<x, y>> \in R /\ <<y, z>> \in R => <<x, z>> \in R
  /\ \A x \in S : <<x, x>> \notin R

IsLastIn(m, R, S) == m \in S /\ \A x \in S : x # m => <<x, m>> \in R

LEMMA LastExists ==
  ASSUME NEW S, IsFiniteSet(S), S # {}, NEW R, OrdersStrictly(R, S)
  PROVE  \E m \in S : IsLastIn(m, R, S)
<1> DEFINE D == {U \in SUBSET S : U # {} /\ ~ \E m \in U : IsLastIn(m, R, U)}
<1> SUFFICES ASSUME D # {} PROVE FALSE
  OBVIOUS
<1>1. PICK U \in D : \A V \in SUBSET U : V # U => V \notin D
  <2> HIDE DEF D
  <2>1. D \in SUBSET (SUBSET S) BY DEF D
  <2> QED BY <2>1, SmallestSubset
<1>2. PICK x \in U : TRUE
  OBVIOUS
<1>3. CASE U = {x}
  BY <1>3 DEF IsLastIn
<1>4. CASE U # {x}
  <2>1. PICK m \in U \ {x} : IsLastIn(m, R, U \ {x})
    <3>1. U \ {x} \in SUBSET U /\ U \ {x} # U /\ U \ {x} # {}
      BY <1>2, <1>4
    <3>2. U \ {x} \notin D
      BY <1>1, <3>1
    <3> QED BY <3>1, <3>2
  <2>2. m \in S /\ x \in S /\ m # x
    BY <2>1
  <2>3. CASE <<x, m>> \in R
    <3>1. IsLastIn(m, R, U)
      BY <2>1, <2>3 DEF IsLastIn
    <3> QED BY <2>1, <3>1
  <2>4. CASE <<m, x>> \in R
    <3>1. ASSUME NEW y \in U, y # x PROVE <<y, x>> \in R
      <4>1. y = m \/ <<y, m>> \in R
        BY <2>1, <3>1 DEF IsLastIn
      <4>2. y \in S
        OBVIOUS
      <4> QED BY <2>2, <2>4, <4>1, <4>2 DEF OrdersStrictly
    <3>2. IsLastIn(x, R, U)
      BY <3>1 DEF IsLastIn
    <3> QED BY <3>2
  <2> QED BY <2>2, <2>3, <2>4 DEF OrdersStrictly
<1> QED BY <1>3, <1>4

(* A finite set of integers that is not empty has bounds in it. *)
LEMMA BoundsExist ==
  ASSUME NEW S \in SUBSET Int, IsFiniteSet(S), S # {}
  PROVE  /\ \E m \in S : \A x \in S : x <= m
         /\ \E m \in S : \A x \in S : x >= m
<1> DEFINE R == {p \in S \X S : p[1] < p[2]}
           Q == {p \in S \X S : p[1] > p[2]}
<1>1. OrdersStrictly(R, S)
  BY DEF OrdersStrictly
<1>2. OrdersStrictly(Q, S)
  BY DEF OrdersStrictly
<1>3. \A x, y \in S : (<<x, y>> \in R => x < y) /\ (<<x, y>> \in Q => x > y)
  OBVIOUS
<1> HIDE DEF R, Q
<1>4. PICK m \in S : IsLastIn(m, R, S)
  BY <1>1, LastExists
<1>5. PICK n \in S : IsLastIn(n, Q, S)
  BY <1>2, LastExists
<1>6. ASSUME NEW x \in S PROVE x <= m
  <2>1. x \in Int /\ m \in Int
    OBVIOUS
  <2>2. x = m \/ x < m
    BY <1>3, <1>4 DEF IsLastIn
  <2> QED BY <2>1, <2>2
<1>7. ASSUME NEW x \in S PROVE x >= n
  <2>1. x \in Int /\ n \in Int
    OBVIOUS
  <2>2. x = n \/ x > n
    BY <1>3, <1>5 DEF IsLastIn
  <2> QED BY <2>1, <2>2
<1> QED BY <1>6, <1>7

BelowIn(x, R, S) == {y \in S : <<y, x>> \in R}

(* Every rank below the size is some member's. *)
LEMMA RanksAreTaken ==
  ASSUME NEW S, IsFiniteSet(S), NEW R, OrdersStrictly(R, S),
         NEW k \in Nat, k < Cardinality(S)
  PROVE  \E x \in S : Cardinality(BelowIn(x, R, S)) = k
<1> DEFINE Taken(U) == \A n \in Nat : n < Cardinality(U) =>
                          \E x \in U : Cardinality(BelowIn(x, R, U)) = n
           D == {U \in SUBSET S : ~ Taken(U)}
<1> SUFFICES ASSUME D # {} PROVE FALSE
  <2>1. D = {} => Taken(S)
    OBVIOUS
  <2> QED BY <2>1
<1>1. PICK U \in D : \A V \in SUBSET U : V # U => V \notin D
  <2> HIDE DEF D
  <2>1. D \in SUBSET (SUBSET S) BY DEF D
  <2> QED BY <2>1, SmallestSubset
<1>2. PICK n \in Nat : n < Cardinality(U) /\ ~ \E x \in U : Cardinality(BelowIn(x, R, U)) = n
  OBVIOUS
<1>3. IsFiniteSet(U) /\ Cardinality(U) \in Nat /\ U # {}
  <2>1. IsFiniteSet(U)
    BY FS_Subset
  <2> QED BY <1>2, <2>1, FS_CardinalityType, FS_EmptySet
<1>4. OrdersStrictly(R, U)
  BY DEF OrdersStrictly
<1>5. PICK m \in U : IsLastIn(m, R, U)
  BY <1>3, <1>4, LastExists
<1> DEFINE V == U \ {m}
<1>6. V \in SUBSET U /\ V # U /\ IsFiniteSet(V) /\ Cardinality(V) = Cardinality(U) - 1
  BY <1>3, FS_RemoveElement
<1>7. Taken(V)
  <2>1. V \notin D /\ V \in SUBSET S
    BY <1>1, <1>6
  <2> QED BY <2>1
<1>8. BelowIn(m, R, U) = V
  BY <1>4, <1>5 DEF BelowIn, IsLastIn, OrdersStrictly
<1>9. ASSUME NEW x \in V PROVE BelowIn(x, R, U) = BelowIn(x, R, V)
  <2>1. <<m, x>> \notin R
    BY <1>4, <1>5 DEF IsLastIn, OrdersStrictly
  <2> QED BY <2>1 DEF BelowIn
<1>10. CASE n = Cardinality(U) - 1
  BY <1>2, <1>6, <1>8, <1>10
<1>11. CASE n # Cardinality(U) - 1
  <2>1. n < Cardinality(V)
    BY <1>2, <1>3, <1>6, <1>11
  <2>2. PICK x \in V : Cardinality(BelowIn(x, R, V)) = n
    BY <1>7, <2>1
  <2> QED BY <1>2, <1>9, <2>2
<1> QED BY <1>10, <1>11

-----------------------------------------------------------------------------
(* Folds from left to right: FoldLeft of the community modules takes the   *)
(* places of a sequence from the last to the first.                        *)

Top(U) == CHOOSE x \in U : \A y \in U : x >= y

(* g gives the fold over every set of places up to n.                      *)
IsFold(n, base, step, g) ==
  \A U \in SUBSET (1 .. n) :
    g[U] = IF U = {} THEN base ELSE step[<<g[U \ {Top(U)}], Top(U)>>]

LEMMA TopIs ==
  ASSUME NEW U \in SUBSET Int, NEW t \in U, \A y \in U : t >= y
  PROVE  Top(U) = t
<1>1. \E x \in U : \A y \in U : x >= y
  OBVIOUS
<1>2. Top(U) \in U /\ \A y \in U : Top(U) >= y
  BY <1>1 DEF Top
<1>3. Top(U) \in Int /\ t \in Int /\ t >= Top(U) /\ Top(U) >= t
  BY <1>2
<1> QED BY <1>3

LEMMA TopOfPrefix ==
  ASSUME NEW n \in Nat
  PROVE  1 .. n + 1 # {} /\ Top(1 .. n + 1) = n + 1 /\ (1 .. n + 1) \ {n + 1} = 1 .. n
<1>1. n + 1 \in 1 .. n + 1 /\ (\A y \in 1 .. n + 1 : n + 1 >= y) /\ 1 .. n + 1 \in SUBSET Int
  OBVIOUS
<1>2. Top(1 .. n + 1) = n + 1
  BY <1>1, TopIs
<1>3. (1 .. n + 1) \ {n + 1} = 1 .. n
  OBVIOUS
<1> QED BY <1>1, <1>2, <1>3

LEMMA FoldExists ==
  ASSUME NEW N \in Nat, NEW A, NEW base \in A, NEW step \in [A \X (1 .. N) -> A]
  PROVE  \E g \in [SUBSET (1 .. N) -> A] : IsFold(N, base, step, g)
<1> DEFINE Missing == {n \in 0 .. N : ~ \E g \in [SUBSET (1 .. n) -> A] : IsFold(n, base, step, g)}
<1>1. SUFFICES ASSUME Missing # {} PROVE FALSE
  <2>1. N \in 0 .. N
    OBVIOUS
  <2>2. N \notin Missing => \E g \in [SUBSET (1 .. N) -> A] : IsFold(N, base, step, g)
    BY <2>1
  <2> HIDE DEF Missing
  <2> QED BY <1>1, <2>2
<1>2. PICK m \in Missing : \A n \in Missing : m <= n
  <2>1. Missing \in SUBSET Nat
    OBVIOUS
  <2> HIDE DEF Missing
  <2> QED BY <1>1, <2>1, LeastNatural
<1>3. m # 0
  <2> SUFFICES ASSUME m = 0 PROVE FALSE
    OBVIOUS
  <2> DEFINE g == [U \in SUBSET (1 .. 0) |-> base]
  <2>1. g \in [SUBSET (1 .. 0) -> A]
    OBVIOUS
  <2>2. IsFold(0, base, step, g)
    BY DEF IsFold
  <2> QED BY <2>1, <2>2
<1>4. PICK n \in Nat : m = n + 1 /\ n + 1 \in 0 .. N /\ n \in 0 .. N
  <2>1. m - 1 \in Nat /\ m = (m - 1) + 1 /\ (m - 1) + 1 \in 0 .. N /\ m - 1 \in 0 .. N
    BY <1>3
  <2> QED BY <2>1
<1>5. n \notin Missing
  <2> HIDE DEF Missing
  <2> QED BY <1>2, <1>4
<1>6. PICK h \in [SUBSET (1 .. n) -> A] : IsFold(n, base, step, h)
  BY <1>4, <1>5
<1> DEFINE Rest(U) == U \ {n + 1}
           g == [U \in SUBSET (1 .. n + 1) |->
                   IF n + 1 \in U THEN step[<<h[Rest(U)], n + 1>>] ELSE h[U]]
<1>7. ASSUME NEW U \in SUBSET (1 .. n + 1)
      PROVE  /\ Rest(U) \in SUBSET (1 .. n)
             /\ n + 1 \notin U => U \in SUBSET (1 .. n)
             /\ n + 1 \in U => Top(U) = n + 1
  <2>1. \A i \in 1 .. n + 1 : i # n + 1 => i \in 1 .. n
    OBVIOUS
  <2>2. ASSUME n + 1 \in U PROVE Top(U) = n + 1
    <3>1. U \in SUBSET Int /\ \A y \in U : n + 1 >= y
      OBVIOUS
    <3> QED BY <2>2, <3>1, TopIs
  <2> QED BY <2>1, <2>2
<1>8. g \in [SUBSET (1 .. n + 1) -> A]
  <2> SUFFICES ASSUME NEW U \in SUBSET (1 .. n + 1)
               PROVE  (IF n + 1 \in U THEN step[<<h[Rest(U)], n + 1>>] ELSE h[U]) \in A
    OBVIOUS
  <2>1. CASE n + 1 \in U
    <3>1. h[Rest(U)] \in A /\ n + 1 \in 1 .. N
      BY <1>4, <1>6, <1>7
    <3>2. <<h[Rest(U)], n + 1>> \in A \X (1 .. N)
      BY <3>1
    <3> QED BY <2>1, <3>2
  <2>2. CASE n + 1 \notin U
    BY <1>6, <1>7, <2>2
  <2> QED BY <2>1, <2>2
<1>9. ASSUME NEW V \in SUBSET (1 .. n) PROVE V \in SUBSET (1 .. n + 1) /\ g[V] = h[V]
  <2>1. \A i \in 1 .. n : i \in 1 .. n + 1 /\ i # n + 1
    OBVIOUS
  <2>2. V \in SUBSET (1 .. n + 1) /\ n + 1 \notin V
    BY <2>1
  <2> QED BY <2>2
<1>10. ASSUME NEW U \in SUBSET (1 .. n + 1)
       PROVE  g[U] = IF U = {} THEN base ELSE step[<<g[U \ {Top(U)}], Top(U)>>]
  <2>1. CASE n + 1 \in U
    <3>1. g[U] = step[<<h[Rest(U)], n + 1>>]
      BY <2>1
    <3>2. g[Rest(U)] = h[Rest(U)] /\ Top(U) = n + 1 /\ U # {}
      BY <1>7, <1>9, <2>1
    <3> HIDE DEF g
    <3> QED BY <3>1, <3>2
  <2>2. CASE n + 1 \notin U
    <3>1. U \in SUBSET (1 .. n) /\ g[U] = h[U]
      BY <1>7, <2>2
    <3>2. h[U] = IF U = {} THEN base ELSE step[<<h[U \ {Top(U)}], Top(U)>>]
      BY <1>6, <3>1 DEF IsFold
    <3>3. g[U \ {Top(U)}] = h[U \ {Top(U)}]
      <4>1. U \ {Top(U)} \in SUBSET (1 .. n)
        BY <3>1
      <4> HIDE DEF g
      <4> QED BY <1>9, <4>1
    <3> HIDE DEF g
    <3> QED BY <3>1, <3>2, <3>3
  <2> QED BY <2>1, <2>2
<1>11. IsFold(n + 1, base, step, g)
  <2> HIDE DEF g
  <2> QED BY <1>10 DEF IsFold
<1> HIDE DEF g
<1>12. n + 1 \notin Missing
  BY <1>8, <1>11
<1> QED BY <1>2, <1>4, <1>12

LEMMA TopIn ==
  ASSUME NEW n \in Nat, NEW U \in SUBSET (1 .. n), U # {}
  PROVE  Top(U) \in U
<1>1. IsFiniteSet(U) /\ U \in SUBSET Int
  <2>1. IsFiniteSet(1 .. n)
    BY FS_Interval
  <2>2. IsFiniteSet(U)
    BY <2>1, FS_Subset
  <2>3. U \in SUBSET Int
    OBVIOUS
  <2> QED BY <2>2, <2>3
<1>2. \E t \in U : \A y \in U : y <= t
  BY <1>1, BoundsExist
<1>3. PICK t \in U : \A y \in U : t >= y
  BY <1>1, <1>2
<1>4. Top(U) = t
  BY <1>1, <1>3, TopIs
<1> QED BY <1>4

(* What is lost and what is gained make the sum.                           *)
LEMMA SumOfLosses ==
  ASSUME NEW f, NEW T, IsFiniteSet(T), \A x \in T : f[x] \in Int /\ f[x] < 0
  PROVE  IF T = {} THEN SumFunctionOnSet(f, T) = 0 ELSE SumFunctionOnSet(f, T) < 0
<1> DEFINE Right(U) == IF U = {} THEN SumFunctionOnSet(f, U) = 0 ELSE SumFunctionOnSet(f, U) < 0
           D == {U \in SUBSET T : ~ Right(U)}
<1>1. SUFFICES ASSUME D # {} PROVE FALSE
  OBVIOUS
<1>2. PICK U \in D : \A V \in SUBSET U : V # U => V \notin D
  <2> HIDE DEF D
  <2>1. D \in SUBSET (SUBSET T) BY DEF D
  <2> QED BY <1>1, <2>1, SmallestSubset
<1>3. U \in SUBSET T /\ ~ Right(U) /\ IsFiniteSet(U)
  BY FS_Subset
<1>4. U # {}
  BY <1>3, SumEmpty
<1>5. PICK x \in U : TRUE
  BY <1>4
<1> DEFINE V == U \ {x}
<1>6. Right(V)
  <2>1. V \in SUBSET U /\ V # U /\ V \in SUBSET T
    BY <1>3, <1>5
  <2> QED BY <1>2, <2>1
<1>7. SumFunctionOnSet(f, U) = f[x] + SumFunctionOnSet(f, V)
  BY <1>3, <1>5, SumRemove
<1>8. f[x] \in Int /\ f[x] < 0
  BY <1>3, <1>5
<1>9. SumFunctionOnSet(f, V) \in Int /\ SumFunctionOnSet(f, V) <= 0
  <2>1. IsFiniteSet(V) /\ \A y \in V : f[y] \in Int
    BY <1>3, FS_Subset
  <2>2. SumFunctionOnSet(f, V) \in Int
    BY <2>1, SumType
  <2> QED BY <1>6, <2>2
<1>10. SumFunctionOnSet(f, U) < 0
  BY <1>7, <1>8, <1>9
<1> QED BY <1>3, <1>4, <1>10

LEMMA SumOfGains ==
  ASSUME NEW f, NEW T, IsFiniteSet(T), \A x \in T : f[x] \in Int /\ f[x] > 0
  PROVE  IF T = {} THEN SumFunctionOnSet(f, T) = 0 ELSE SumFunctionOnSet(f, T) > 0
<1>1. CASE T = {}
  BY <1>1, SumEmpty
<1>2. CASE T # {}
  <2>1. PICK x \in T : TRUE
    BY <1>2
  <2>2. SumFunctionOnSet(f, T) = f[x] + SumFunctionOnSet(f, T \ {x})
    BY <2>1, SumRemove
  <2>3. SumFunctionOnSet(f, T \ {x}) \in Nat
    <3>1. IsFiniteSet(T \ {x}) /\ \A y \in T \ {x} : f[y] \in Nat
      BY FS_Subset
    <3> QED BY <3>1, SumNat
  <2>4. f[x] \in Int /\ f[x] > 0
    BY <2>1
  <2> QED BY <1>2, <2>2, <2>3, <2>4
<1> QED BY <1>1, <1>2

LEMMA SumBySign ==
  ASSUME NEW f, NEW T, IsFiniteSet(T), \A x \in T : f[x] \in Int
  PROVE  SumFunctionOnSet(f, T) = SumFunctionOnSet(f, {x \in T : f[x] > 0})
                                    + SumFunctionOnSet(f, {x \in T : f[x] < 0})
<1> DEFINE S(U) == SumFunctionOnSet(f, U)
           P(U) == {x \in U : f[x] > 0}
           N(U) == {x \in U : f[x] < 0}
           D == {U \in SUBSET T : S(U) # S(P(U)) + S(N(U))}
<1> HIDE DEF S
<1>1. SUFFICES ASSUME D # {} PROVE FALSE
  BY DEF S
<1>2. PICK U \in D : \A V \in SUBSET U : V # U => V \notin D
  <2> HIDE DEF D
  <2>1. D \in SUBSET (SUBSET T) BY DEF D
  <2> QED BY <1>1, <2>1, SmallestSubset
<1>3. U \in SUBSET T /\ S(U) # S(P(U)) + S(N(U)) /\ IsFiniteSet(U)
  BY FS_Subset
<1>4. U # {}
  <2> SUFFICES ASSUME U = {} PROVE FALSE
    OBVIOUS
  <2>1. P(U) = {} /\ N(U) = {}
    OBVIOUS
  <2>2. S({}) = 0
    BY SumEmpty DEF S
  <2>3. S(U) = 0 /\ S(P(U)) = 0 /\ S(N(U)) = 0
    <3> HIDE DEF P, N
    <3> QED BY <2>1, <2>2
  <2> HIDE DEF P, N
  <2> QED BY <1>3, <2>3
<1>5. PICK x \in U : TRUE
  BY <1>4
<1> DEFINE V == U \ {x}
<1>6. S(V) = S(P(V)) + S(N(V))
  <2>1. V \in SUBSET U /\ V # U /\ V \in SUBSET T
    BY <1>3, <1>5
  <2> QED BY <1>2, <2>1
<1>7. ASSUME NEW W \in SUBSET U
      PROVE  /\ S(W) \in Int /\ x \in W => S(W) = f[x] + S(W \ {x})
             /\ S(W) \in Int
  <2>1. IsFiniteSet(W) /\ \A y \in W : f[y] \in Int
    BY <1>3, FS_Subset
  <2> QED BY <2>1, SumType, SumRemove DEF S
<1>8. S(U) = f[x] + S(V) /\ f[x] \in Int /\ S(V) \in Int
  <2>1. U \in SUBSET U /\ V \in SUBSET U
    OBVIOUS
  <2> HIDE DEF V
  <2>2. S(U) = f[x] + S(U \ {x}) /\ S(V) \in Int
    BY <1>5, <1>7, <2>1
  <2> QED BY <1>3, <1>5, <2>2 DEF V
<1>9. S(P(V)) \in Int /\ S(N(V)) \in Int
  <2>1. P(V) \in SUBSET U /\ N(V) \in SUBSET U
    OBVIOUS
  <2> HIDE DEF P, N, V
  <2> QED BY <1>7, <2>1
<1>10. P(U) \in SUBSET U /\ N(U) \in SUBSET U
  OBVIOUS
<1>11. CASE f[x] > 0
  <2>1. x \in P(U) /\ P(U) \ {x} = P(V) /\ N(U) = N(V)
    BY <1>5, <1>8, <1>11
  <2> HIDE DEF P, N, V
  <2>2. S(P(U)) = f[x] + S(P(V))
    BY <1>7, <1>10, <2>1
  <2> QED BY <1>3, <1>6, <1>8, <1>9, <2>1, <2>2
<1>12. CASE f[x] < 0
  <2>1. x \in N(U) /\ N(U) \ {x} = N(V) /\ P(U) = P(V)
    BY <1>5, <1>8, <1>12
  <2> HIDE DEF P, N, V
  <2>2. S(N(U)) = f[x] + S(N(V))
    BY <1>7, <1>10, <2>1
  <2> QED BY <1>3, <1>6, <1>8, <1>9, <2>1, <2>2
<1>13. CASE f[x] = 0
  <2>1. N(U) = N(V) /\ P(U) = P(V)
    BY <1>5, <1>8, <1>13
  <2> HIDE DEF P, N, V
  <2> QED BY <1>3, <1>6, <1>8, <1>9, <1>13, <2>1
<1> QED BY <1>8, <1>11, <1>12, <1>13

=============================================================================
