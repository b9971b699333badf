----------------------------- MODULE SumTheorems -----------------------------
(***************************************************************************)
(* Induction over numbers and finite sets without a predicate parameter,   *)
(* and what it gives for sums of functions over finite sets.               *)
(***************************************************************************)
EXTENDS Integers, FiniteSets, FiniteSetsExt, Functions, FiniteSetTheorems, WellFoundedInduction, TLAPS

\* A set of numbers that is not empty has a smallest one.
LEMMA MinOfNaturals ==
    ASSUME NEW S, S \subseteq Nat, S # {}
    PROVE  Min(S) \in S /\ \A y \in S : Min(S) <= y
<1>1. IsWellFoundedOn(OpToRel(<, Nat), Nat)
  BY NatLessThanWellFounded
<1>2. PICK m \in S : \A y \in S : <<y, m>> \notin OpToRel(<, Nat)
  BY <1>1, WFMin
<1>3. \A y \in S : y \in Nat /\ m \in Nat
  OBVIOUS
<1>4. \A y \in S : ~(y < m)
  BY <1>2, <1>3 DEF OpToRel
<1>5. \A y \in S : m <= y
  BY <1>3, <1>4
<1>6. QED
  BY <1>2, <1>5 DEF Min

\* Induction over a set of numbers instead of a predicate: a number outside the
\* set would have a smallest one beside it.
LEMMA NatSetInduction ==
    ASSUME NEW T, 0 \in T, \A n \in Nat : n \in T => n + 1 \in T
    PROVE  Nat \subseteq T
<1>1. SUFFICES ASSUME Nat \ T # {} PROVE FALSE
  OBVIOUS
<1>2. PICK m \in Nat \ T : \A y \in Nat \ T : <<y, m>> \notin OpToRel(<, Nat)
  <2>1. IsWellFoundedOn(OpToRel(<, Nat), Nat)
    BY NatLessThanWellFounded
  <2>2. Nat \ T \subseteq Nat
    OBVIOUS
  <2>3. QED
    BY <1>1, <2>1, <2>2, WFMin
<1>3. m \in Nat /\ m \notin T
  OBVIOUS
<1>4. \A y \in Nat : y \notin T => ~(y < m)
  BY <1>2, <1>3 DEF OpToRel
<1>5. m # 0
  BY <1>3
<1>6. m - 1 \in Nat /\ m - 1 < m
  BY <1>3, <1>5
<1>7. m - 1 \in T
  BY <1>4, <1>6
<1>8. m - 1 + 1 \in T
  BY <1>6, <1>7
<1>9. m - 1 + 1 = m
  BY <1>3
<1>10. QED
  BY <1>3, <1>8, <1>9

\* A set that has a subset as soon as it has those with one element less has
\* them all.
LEMMA FiniteSubsetInduction ==
    ASSUME NEW S, IsFiniteSet(S), NEW T,
           \A s \in SUBSET S : (\A x \in s : s \ {x} \in T) => s \in T
    PROVE  SUBSET S \subseteq T
<1> DEFINE Of(n) == {s \in SUBSET S : Cardinality(s) = n}
<1> DEFINE Good == {n \in Nat : Of(n) \subseteq T}
<1>1. \A s \in SUBSET S : IsFiniteSet(s) /\ Cardinality(s) \in Nat
  BY FS_Subset, FS_CardinalityType
<1>2. 0 \in Good
  <2>1. \A s \in Of(0) : s = {}
    BY <1>1, FS_EmptySet
  <2>2. QED
    BY <2>1
<1>3. \A n \in Nat : n \in Good => n + 1 \in Good
  <2>1. SUFFICES ASSUME NEW n \in Nat, n \in Good, NEW s \in Of(n + 1)
                 PROVE  s \in T
    BY DEF Good
  <2>2. ASSUME NEW x \in s PROVE s \ {x} \in Of(n)
    <3>1. IsFiniteSet(s) /\ Cardinality(s) = n + 1
      BY <1>1, <2>1
    <3>2. Cardinality(s \ {x}) = Cardinality(s) - 1
      BY <3>1, FS_RemoveElement
    <3>3. s \ {x} \in SUBSET S /\ Cardinality(s \ {x}) = n
      BY <2>1, <3>1, <3>2
    <3>4. QED
      BY <3>3
  <2>3. QED
    BY <2>1, <2>2
<1>4. Nat \subseteq Good
  <2> HIDE DEF Good
  <2>1. QED
    BY <1>2, <1>3, NatSetInduction
<1>5. QED
  BY <1>1, <1>4

(***************************************************************************)
(* SumFunctionOnSet is a recursive function over the subsets of the set:   *)
(* first that this function exists, then what it does not depend on.       *)
(***************************************************************************)
Chosen(s) == CHOOSE x \in s : TRUE

Step(g, f, s) == IF s = {} THEN 0 ELSE f[Chosen(s)] + g[s \ {Chosen(s)}]

IsSum(g, f, S) == g = [s \in SUBSET S |-> Step(g, f, s)]

\* SumFunctionOnSet is the choice of a function that satisfies its recursion.
LEMMA SumUnfolds ==
    ASSUME NEW f, NEW S
    PROVE  SumFunctionOnSet(f, S) = (CHOOSE g : IsSum(g, f, S))[S]
BY DEF SumFunctionOnSet, FoldFunctionOnSet, MapThenFoldSet, IsSum, Step, Chosen

\* There is one: from the subsets of n elements to those of n + 1.
LEMMA SumExists ==
    ASSUME NEW f, NEW S, IsFiniteSet(S)
    PROVE  \E g : IsSum(g, f, S)
<1> DEFINE UpTo(n) == {s \in SUBSET S : Cardinality(s) <= n}
<1> DEFINE Good == {n \in Nat : \E g : g = [s \in UpTo(n) |-> Step(g, f, s)]}
<1>1. \A s \in SUBSET S : IsFiniteSet(s) /\ Cardinality(s) \in Nat
                          /\ Cardinality(s) <= Cardinality(S)
  BY FS_Subset, FS_CardinalityType
<1>2. \A s \in SUBSET S : s # {} => Chosen(s) \in s
  BY DEF Chosen
<1>3. \A n \in Nat : \A s \in UpTo(n + 1) : s # {} => s \ {Chosen(s)} \in UpTo(n)
  <2>1. SUFFICES ASSUME NEW n \in Nat, NEW s \in UpTo(n + 1), s # {}
                 PROVE  s \ {Chosen(s)} \in UpTo(n)
    OBVIOUS
  <2>2. Cardinality(s \ {Chosen(s)}) = Cardinality(s) - 1
    BY <1>1, <1>2, <2>1, FS_RemoveElement
  <2>3. Cardinality(s) \in Nat /\ Cardinality(s) <= n + 1
    BY <1>1
  <2>4. Cardinality(s) - 1 <= n
    BY <2>3
  <2>5. QED
    BY <2>2, <2>4
<1>4. 0 \in Good
  <2>1. \A s \in UpTo(0) : s = {}
    <3>1. SUFFICES ASSUME NEW s \in UpTo(0) PROVE s = {}
      OBVIOUS
    <3>2. Cardinality(s) = 0
      BY <1>1
    <3>3. QED
      BY <1>1, <3>2, FS_EmptySet
  <2> DEFINE g == [s \in UpTo(0) |-> 0]
  <2>2. \A h : \A s \in UpTo(0) : Step(h, f, s) = 0
    BY <2>1 DEF Step
  <2>3. g = [s \in UpTo(0) |-> Step(g, f, s)]
    BY <2>2
  <2>4. QED
    BY <2>3
<1>5. \A n \in Nat : n \in Good => n + 1 \in Good
  <2>1. SUFFICES ASSUME NEW n \in Nat, n \in Good PROVE n + 1 \in Good
    OBVIOUS
  <2>2. PICK g : g = [s \in UpTo(n) |-> Step(g, f, s)]
    BY <2>1
  <2> DEFINE h == [s \in UpTo(n + 1) |-> Step(g, f, s)]
  <2>3. \A s \in UpTo(n) : s \in UpTo(n + 1)
    BY <1>1
  <2>4. \A s \in UpTo(n) : h[s] = g[s]
    <3>1. TAKE s \in UpTo(n)
    <3>2. h[s] = Step(g, f, s)
      BY <2>3
    <3>3. g[s] = Step(g, f, s)
      BY <2>2
    <3>4. QED
      BY <3>2, <3>3
  <2>5. \A s \in UpTo(n + 1) : Step(h, f, s) = Step(g, f, s)
    <3> HIDE DEF h, UpTo
    <3>1. QED
      BY <1>3, <2>4 DEF Step
  <2>6. h = [s \in UpTo(n + 1) |-> Step(h, f, s)]
    <3> HIDE DEF UpTo
    <3>1. QED
      BY <2>5
  <2>7. \E k : k = [s \in UpTo(n + 1) |-> Step(k, f, s)]
    <3> HIDE DEF h, UpTo
    <3>1. QED
      BY <2>6
  <2>8. n + 1 \in Nat
    OBVIOUS
  <2>9. QED
    BY <2>7, <2>8
<1>6. Cardinality(S) \in Good
  <2> HIDE DEF Good
  <2>1. Nat \subseteq Good
    BY <1>4, <1>5, NatSetInduction
  <2>2. QED
    BY <2>1, FS_CardinalityType
<1>7. UpTo(Cardinality(S)) = SUBSET S
  BY <1>1
<1>8. QED
  BY <1>6, <1>7 DEF IsSum

\* So the sum is taken by a function that satisfies the recursion.
LEMMA SumIs ==
    ASSUME NEW f, NEW S, IsFiniteSet(S)
    PROVE  \E g : IsSum(g, f, S) /\ SumFunctionOnSet(f, S) = g[S]
<1> DEFINE g == CHOOSE h : IsSum(h, f, S)
<1>1. IsSum(g, f, S)
  BY SumExists
<1>2. SumFunctionOnSet(f, S) = g[S]
  BY SumUnfolds
<1>3. QED
  BY <1>1, <1>2

\* Whatever set the function was defined for, and whatever the summands are
\* elsewhere, it has one value.
LEMMA SumsAgree ==
    ASSUME NEW f, NEW h, NEW S, NEW R, IsFiniteSet(S), R \subseteq S,
           \A x \in R : f[x] = h[x],
           NEW g, IsSum(g, f, S), NEW k, IsSum(k, h, R)
    PROVE  g[R] = k[R]
<1> DEFINE T == {s \in SUBSET R : g[s] = k[s]}
<1>1. \A s \in SUBSET R : (\A x \in s : s \ {x} \in T) => s \in T
  <2>1. SUFFICES ASSUME NEW s \in SUBSET R, \A x \in s : s \ {x} \in T
                 PROVE  g[s] = k[s]
    OBVIOUS
  <2>2. g[s] = Step(g, f, s) /\ k[s] = Step(k, h, s)
    BY DEF IsSum
  <2>3. CASE s = {}
    BY <2>2, <2>3 DEF Step
  <2>4. CASE s # {}
    <3>1. Chosen(s) \in s
      BY <2>4 DEF Chosen
    <3>2. g[s \ {Chosen(s)}] = k[s \ {Chosen(s)}]
      BY <2>1, <3>1
    <3>3. f[Chosen(s)] = h[Chosen(s)]
      BY <3>1
    <3>4. QED
      BY <2>2, <2>4, <3>2, <3>3 DEF Step
  <2>5. QED
    BY <2>3, <2>4
<1>2. IsFiniteSet(R)
  BY FS_Subset
<1>3. SUBSET R \subseteq T
  <2> HIDE DEF T
  <2>1. QED
    BY <1>1, <1>2, FiniteSubsetInduction
<1>4. QED
  BY <1>3

\* The function gives the sum over every subset.
LEMMA SumOfSubset ==
    ASSUME NEW f, NEW S, NEW R, IsFiniteSet(S), R \subseteq S, NEW g, IsSum(g, f, S)
    PROVE  g[R] = SumFunctionOnSet(f, R)
<1>1. IsFiniteSet(R)
  BY FS_Subset
<1>2. PICK k : IsSum(k, f, R) /\ SumFunctionOnSet(f, R) = k[R]
  BY <1>1, SumIs
<1>3. g[R] = k[R]
  BY <1>2, SumsAgree
<1>4. QED
  BY <1>2, <1>3

(***************************************************************************)
(* What a sum is, without the order in which it is taken.                  *)
(***************************************************************************)

\* Nothing adds up to nothing.
THEOREM SumOfNone ==
    ASSUME NEW f
    PROVE  SumFunctionOnSet(f, {}) = 0
<1>1. IsFiniteSet({})
  BY FS_EmptySet
<1>2. PICK g : IsSum(g, f, {}) /\ SumFunctionOnSet(f, {}) = g[{}]
  BY <1>1, SumIs
<1>3. QED
  BY <1>2 DEF IsSum, Step

\* One step of the definition.
LEMMA SumByChoice ==
    ASSUME NEW f, NEW S, IsFiniteSet(S), S # {}
    PROVE  SumFunctionOnSet(f, S)
             = f[Chosen(S)] + SumFunctionOnSet(f, S \ {Chosen(S)})
<1>1. PICK g : IsSum(g, f, S) /\ SumFunctionOnSet(f, S) = g[S]
  BY SumIs
<1>2. g[S] = f[Chosen(S)] + g[S \ {Chosen(S)}]
  BY <1>1 DEF IsSum, Step
<1>3. g[S \ {Chosen(S)}] = SumFunctionOnSet(f, S \ {Chosen(S)})
  <2>1. S \ {Chosen(S)} \subseteq S
    OBVIOUS
  <2>2. QED
    BY <1>1, <2>1, SumOfSubset
<1>4. QED
  BY <1>1, <1>2, <1>3

\* A sum of integers is an integer.
THEOREM SumType ==
    ASSUME NEW f, NEW S, IsFiniteSet(S), \A x \in S : f[x] \in Int
    PROVE  SumFunctionOnSet(f, S) \in Int
<1> DEFINE T == {s \in SUBSET S : SumFunctionOnSet(f, s) \in Int}
<1>1. \A s \in SUBSET S : (\A x \in s : s \ {x} \in T) => s \in T
  <2>1. SUFFICES ASSUME NEW s \in SUBSET S, \A x \in s : s \ {x} \in T
                 PROVE  SumFunctionOnSet(f, s) \in Int
    OBVIOUS
  <2>2. CASE s = {}
    BY <2>2, SumOfNone
  <2>3. CASE s # {}
    <3>1. Chosen(s) \in s
      BY <2>3 DEF Chosen
    <3>2. SumFunctionOnSet(f, s \ {Chosen(s)}) \in Int
      BY <2>1, <3>1
    <3>3. IsFiniteSet(s)
      BY FS_Subset
    <3>4. SumFunctionOnSet(f, s) = f[Chosen(s)] + SumFunctionOnSet(f, s \ {Chosen(s)})
      BY <2>3, <3>3, SumByChoice
    <3>5. f[Chosen(s)] \in Int
      BY <3>1
    <3>6. QED
      BY <3>2, <3>4, <3>5
  <2>4. QED
    BY <2>2, <2>3
<1>2. SUBSET S \subseteq T
  <2> HIDE DEF T
  <2>1. QED
    BY <1>1, FiniteSubsetInduction
<1>3. S \in T
  BY <1>2
<1>4. QED
  BY <1>3

\* A sum depends on the summands only.
THEOREM SumAgrees ==
    ASSUME NEW f, NEW h, NEW S, IsFiniteSet(S), \A x \in S : f[x] = h[x]
    PROVE  SumFunctionOnSet(f, S) = SumFunctionOnSet(h, S)
<1>1. PICK g : IsSum(g, f, S) /\ SumFunctionOnSet(f, S) = g[S]
  BY SumIs
<1>2. PICK k : IsSum(k, h, S) /\ SumFunctionOnSet(h, S) = k[S]
  BY SumIs
<1>3. g[S] = k[S]
  BY <1>1, <1>2, SumsAgree
<1>4. QED
  BY <1>1, <1>2, <1>3

\* Any summand may be taken first.
THEOREM SumOfOneMore ==
    ASSUME NEW f, NEW S, IsFiniteSet(S), \A y \in S : f[y] \in Int, NEW x \in S
    PROVE  SumFunctionOnSet(f, S) = f[x] + SumFunctionOnSet(f, S \ {x})
<1> DEFINE F(s) == SumFunctionOnSet(f, s)
<1> DEFINE T == {s \in SUBSET S : \A y \in s : F(s) = f[y] + F(s \ {y})}
<1>1. \A s \in SUBSET S : (\A y \in s : s \ {y} \in T) => s \in T
  <2>1. SUFFICES ASSUME NEW s \in SUBSET S, \A y \in s : s \ {y} \in T, NEW y \in s
                 PROVE  F(s) = f[y] + F(s \ {y})
    OBVIOUS
  <2> DEFINE c == Chosen(s)
  <2>2. c \in s
    BY DEF Chosen
  <2>3. IsFiniteSet(s)
    BY FS_Subset
  <2>4. F(s) = f[c] + F(s \ {c})
    BY <2>2, <2>3, SumByChoice
  <2>5. CASE y = c
    BY <2>4, <2>5
  <2>6. CASE y # c
    <3>1. F(s \ {c}) = f[y] + F((s \ {c}) \ {y})
      <4>1. s \ {c} \in T /\ y \in s \ {c}
        BY <2>1, <2>2, <2>6
      <4>2. QED
        BY <4>1
    <3>2. F(s \ {y}) = f[c] + F((s \ {y}) \ {c})
      <4>1. s \ {y} \in T /\ c \in s \ {y}
        BY <2>1, <2>2, <2>6
      <4>2. QED
        BY <4>1
    <3>3. (s \ {c}) \ {y} = (s \ {y}) \ {c}
      OBVIOUS
    <3>4. f[c] \in Int /\ f[y] \in Int
      BY <2>2
    <3>5. F((s \ {y}) \ {c}) \in Int
      <4>1. (s \ {y}) \ {c} \subseteq S
        OBVIOUS
      <4>2. IsFiniteSet((s \ {y}) \ {c})
        BY <4>1, FS_Subset
      <4>3. \A z \in (s \ {y}) \ {c} : f[z] \in Int
        BY <4>1
      <4>4. QED
        BY <4>2, <4>3, SumType
    <3> DEFINE rest == F((s \ {y}) \ {c})
    <3>6. F(s \ {c}) = f[y] + rest
      BY <3>1, <3>3
    <3>7. F(s) = f[c] + (f[y] + rest)
      BY <2>4, <3>6
    <3>8. f[c] + (f[y] + rest) = f[y] + (f[c] + rest)
      <4> HIDE DEF rest
      <4>1. QED
        BY <3>4, <3>5 DEF rest
    <3>9. QED
      BY <3>2, <3>7, <3>8
  <2>7. QED
    BY <2>5, <2>6
<1>2. SUBSET S \subseteq T
  <2> HIDE DEF T
  <2>1. QED
    BY <1>1, FiniteSubsetInduction
<1>3. S \in T
  BY <1>2
<1>4. QED
  BY <1>3

\* Summands of nothing may be left out.
THEOREM SumOfTheRest ==
    ASSUME NEW f, NEW S, IsFiniteSet(S), \A x \in S : f[x] \in Int,
           NEW R, R \subseteq S, \A x \in S \ R : f[x] = 0
    PROVE  SumFunctionOnSet(f, S) = SumFunctionOnSet(f, R)
<1> DEFINE F(s) == SumFunctionOnSet(f, s)
<1> DEFINE T == {s \in SUBSET S : F(s) = F(s \cap R)}
<1>1. \A s \in SUBSET S : (\A y \in s : s \ {y} \in T) => s \in T
  <2>1. SUFFICES ASSUME NEW s \in SUBSET S, \A y \in s : s \ {y} \in T
                 PROVE  F(s) = F(s \cap R)
    OBVIOUS
  <2>2. CASE s \subseteq R
    <3>1. s \cap R = s
      BY <2>2
    <3>2. QED
      BY <3>1
  <2>3. CASE ~(s \subseteq R)
    <3>1. PICK y \in s : y \notin R
      BY <2>3
    <3>2. IsFiniteSet(s) /\ \A x \in s : f[x] \in Int
      BY FS_Subset
    <3>3. F(s) = f[y] + F(s \ {y})
      BY <3>2, SumOfOneMore
    <3>4. F(s \ {y}) \in Int
      <4>1. IsFiniteSet(s \ {y}) /\ \A x \in s \ {y} : f[x] \in Int
        BY <3>2, FS_RemoveElement
      <4>2. QED
        BY <4>1, SumType
    <3>5. f[y] = 0
      BY <3>1
    <3>6. F(s \ {y}) = F((s \ {y}) \cap R)
      BY <2>1
    <3>7. (s \ {y}) \cap R = s \cap R
      BY <3>1
    <3>8. f[y] + F(s \ {y}) = F(s \ {y})
      <4> HIDE DEF F
      <4>1. QED
        BY <3>4, <3>5
    <3>9. QED
      BY <3>3, <3>6, <3>7, <3>8
  <2>4. QED
    BY <2>2, <2>3
<1>2. SUBSET S \subseteq T
  <2> HIDE DEF T
  <2>1. QED
    BY <1>1, FiniteSubsetInduction
<1>3. S \in T /\ S \cap R = R
  BY <1>2
<1>4. QED
  BY <1>3

\* Two sums may be added summand by summand.
THEOREM SumOfSums ==
    ASSUME NEW f, NEW g, NEW h, NEW S, IsFiniteSet(S),
           \A x \in S : f[x] \in Int /\ g[x] \in Int /\ h[x] = f[x] + g[x]
    PROVE  SumFunctionOnSet(h, S) = SumFunctionOnSet(f, S) + SumFunctionOnSet(g, S)
<1> DEFINE F(s) == SumFunctionOnSet(f, s)
<1> DEFINE G(s) == SumFunctionOnSet(g, s)
<1> DEFINE H(s) == SumFunctionOnSet(h, s)
<1> DEFINE T == {s \in SUBSET S : H(s) = F(s) + G(s)}
<1>1. \A s \in SUBSET S : (\A y \in s : s \ {y} \in T) => s \in T
  <2>1. SUFFICES ASSUME NEW s \in SUBSET S, \A y \in s : s \ {y} \in T
                 PROVE  H(s) = F(s) + G(s)
    OBVIOUS
  <2>2. CASE s = {}
    BY <2>2, SumOfNone
  <2>3. CASE s # {}
    <3>1. PICK y \in s : TRUE
      BY <2>3
    <3>2. IsFiniteSet(s)
      BY FS_Subset
    <3>3. \A x \in s : f[x] \in Int /\ g[x] \in Int /\ h[x] \in Int /\ h[x] = f[x] + g[x]
      OBVIOUS
    <3>4. F(s) = f[y] + F(s \ {y}) /\ G(s) = g[y] + G(s \ {y}) /\ H(s) = h[y] + H(s \ {y})
      BY <3>2, <3>3, SumOfOneMore
    <3>5. F(s \ {y}) \in Int /\ G(s \ {y}) \in Int
      <4>1. IsFiniteSet(s \ {y})
        BY <3>2, FS_RemoveElement
      <4>2. QED
        BY <3>3, <4>1, SumType
    <3>6. H(s \ {y}) = F(s \ {y}) + G(s \ {y})
      BY <2>1
    <3>7. QED
      <4> HIDE DEF F, G, H
      <4>1. QED
        BY <3>3, <3>4, <3>5, <3>6
  <2>4. QED
    BY <2>2, <2>3
<1>2. SUBSET S \subseteq T
  <2> HIDE DEF T
  <2>1. QED
    BY <1>1, FiniteSubsetInduction
<1>3. S \in T
  BY <1>2
<1>4. QED
  BY <1>3

\* One value adds up to itself.
LEMMA SumOfOne ==
    ASSUME NEW f, NEW x, f[x] \in Int
    PROVE  SumFunctionOnSet(f, {x}) = f[x]
<1>1. IsFiniteSet({x}) /\ \A y \in {x} : f[y] \in Int
  BY FS_Singleton
<1>2. SumFunctionOnSet(f, {x}) = f[x] + SumFunctionOnSet(f, {x} \ {x})
  BY <1>1, SumOfOneMore
<1>3. {x} \ {x} = {}
  OBVIOUS
<1>4. QED
  BY <1>2, <1>3, SumOfNone

\* The part of a sum over a subset.
LEMMA SumOfPart ==
    ASSUME NEW S, IsFiniteSet(S), NEW f, \A x \in S : f[x] \in Int,
           NEW g, NEW R, R \subseteq S,
           \A x \in S : g[x] = IF x \in R THEN f[x] ELSE 0
    PROVE  SumFunctionOnSet(g, S) = SumFunctionOnSet(f, R)
<1>1. SumFunctionOnSet(g, S) = SumFunctionOnSet(g, R)
  BY SumOfTheRest
<1>2. SumFunctionOnSet(g, R) = SumFunctionOnSet(f, R)
  <2>1. IsFiniteSet(R)
    BY FS_Subset
  <2>2. QED
    BY <2>1, SumAgrees
<1>3. QED
  BY <1>1, <1>2

\* A sum may be taken key by key.
THEOREM SumByKey ==
    ASSUME NEW S, IsFiniteSet(S), NEW K, IsFiniteSet(K), NEW f, NEW key,
           \A i \in S : f[i] \in Int /\ key[i] \in K
    PROVE  SumFunctionOnSet([k \in K |->
               SumFunctionOnSet([i \in S |-> IF key[i] = k THEN f[i] ELSE 0], S)], K)
             = SumFunctionOnSet(f, S)
<1> DEFINE Only(k) == [i \in S |-> IF key[i] = k THEN f[i] ELSE 0]
<1> DEFINE By(s) == [k \in K |-> SumFunctionOnSet(Only(k), s)]
<1> DEFINE T == {s \in SUBSET S : SumFunctionOnSet(By(s), K) = SumFunctionOnSet(f, s)}
<1>1. \A s \in SUBSET S : IsFiniteSet(s)
  BY FS_Subset
<1>2. \A s \in SUBSET S : \A k \in K : \A i \in s : Only(k)[i] \in Int
  OBVIOUS
<1>3. \A s \in SUBSET S : \A k \in K : By(s)[k] = SumFunctionOnSet(Only(k), s) /\ By(s)[k] \in Int
  <2>1. TAKE s \in SUBSET S
  <2>2. TAKE k \in K
  <2>3. SumFunctionOnSet(Only(k), s) \in Int
    <3> HIDE DEF Only
    <3>1. QED
      BY <1>1, <1>2, SumType
  <2>4. QED
    <3> HIDE DEF Only
    <3>1. QED
      BY <2>3
<1>4. \A s \in SUBSET S : (\A y \in s : s \ {y} \in T) => s \in T
  <2>1. SUFFICES ASSUME NEW s \in SUBSET S, \A y \in s : s \ {y} \in T
                 PROVE  SumFunctionOnSet(By(s), K) = SumFunctionOnSet(f, s)
    OBVIOUS
  <2>2. CASE s = {}
    <3>1. \A k \in K : By(s)[k] = 0
      <4> HIDE DEF Only
      <4>1. QED
        BY <2>2, SumOfNone
    <3>2. SumFunctionOnSet(By(s), K) = SumFunctionOnSet(By(s), {})
      <4> HIDE DEF By
      <4>1. QED
        BY <1>3, <3>1, SumOfTheRest
    <3>3. QED
      BY <2>2, <3>2, SumOfNone
  <2>3. CASE s # {}
    <3>1. PICK y \in s : TRUE
      BY <2>3
    <3> DEFINE r == s \ {y}
    <3> DEFINE One == [k \in K |-> IF key[y] = k THEN f[y] ELSE 0]
    <3>2. r \in SUBSET S /\ f[y] \in Int /\ key[y] \in K
      OBVIOUS
    <3>3. SumFunctionOnSet(f, s) = f[y] + SumFunctionOnSet(f, r)
      <4>1. \A i \in s : f[i] \in Int
        OBVIOUS
      <4>2. QED
        BY <1>1, <4>1, SumOfOneMore
    <3>4. \A k \in K : SumFunctionOnSet(Only(k), s) = Only(k)[y] + SumFunctionOnSet(Only(k), r)
      <4>1. TAKE k \in K
      <4>2. IsFiniteSet(s) /\ y \in s /\ \A i \in s : Only(k)[i] \in Int
        BY <1>1, <1>2
      <4> HIDE DEF Only
      <4>3. QED
        BY <4>2, SumOfOneMore
    <3>5. \A k \in K : One[k] \in Int /\ Only(k)[y] = One[k]
      OBVIOUS
    <3>6. \A k \in K : By(r)[k] \in Int /\ One[k] \in Int /\ By(s)[k] = By(r)[k] + One[k]
      <4>1. SUFFICES ASSUME NEW k \in K
                     PROVE  By(r)[k] \in Int /\ One[k] \in Int /\ By(s)[k] = By(r)[k] + One[k]
        OBVIOUS
      <4>2. By(r)[k] = SumFunctionOnSet(Only(k), r) /\ By(r)[k] \in Int
        BY <1>3, <3>2
      <4>3. By(s)[k] = SumFunctionOnSet(Only(k), s)
        BY <1>3
      <4>4. One[k] \in Int /\ Only(k)[y] = One[k]
        BY <3>5
      <4>5. By(s)[k] = One[k] + By(r)[k]
        BY <3>4, <4>2, <4>3, <4>4
      <4> HIDE DEF By, One, r
      <4>6. QED
        BY <4>2, <4>4, <4>5
    <3>7. SumFunctionOnSet(By(s), K) = SumFunctionOnSet(By(r), K) + SumFunctionOnSet(One, K)
      <4> HIDE DEF By, One, r
      <4>1. QED
        BY <3>6, SumOfSums
    <3>8. SumFunctionOnSet(One, K) = f[y]
      <4>1. {key[y]} \subseteq K /\ \A k \in K \ {key[y]} : One[k] = 0
        BY <3>2
      <4>2. SumFunctionOnSet(One, K) = SumFunctionOnSet(One, {key[y]})
        <5> HIDE DEF One
        <5>1. QED
          BY <3>5, <4>1, SumOfTheRest
      <4>3. IsFiniteSet({key[y]}) /\ \A k \in {key[y]} : One[k] \in Int
        BY <3>2, FS_Singleton
      <4>4. SumFunctionOnSet(One, {key[y]}) = One[key[y]] + SumFunctionOnSet(One, {key[y]} \ {key[y]})
        <5> HIDE DEF One
        <5>1. QED
          BY <4>3, SumOfOneMore
      <4>5. {key[y]} \ {key[y]} = {}
        OBVIOUS
      <4>6. SumFunctionOnSet(One, {}) = 0
        BY SumOfNone
      <4>7. One[key[y]] = f[y]
        BY <3>2
      <4> HIDE DEF One
      <4>8. QED
        BY <3>2, <4>2, <4>4, <4>5, <4>6, <4>7
    <3>9. SumFunctionOnSet(By(r), K) = SumFunctionOnSet(f, r)
      BY <2>1
    <3>10. SumFunctionOnSet(f, r) \in Int
      <4>1. \A i \in r : f[i] \in Int
        OBVIOUS
      <4>2. QED
        BY <1>1, <3>2, <4>1, SumType
    <3>11. QED
      <4> HIDE DEF By, One, r
      <4>1. QED
        BY <3>2, <3>3, <3>7, <3>8, <3>9, <3>10
  <2>4. QED
    BY <2>2, <2>3
<1>5. SUBSET S \subseteq T
  <2> HIDE DEF T
  <2>1. QED
    BY <1>4, FiniteSubsetInduction
<1>6. S \in T
  BY <1>5
<1>7. QED
  BY <1>6

\* Values with keys, the part of the set that has each key, and that part's sum.
KeyedSums(f, S, key, K, part, sums) ==
    /\ IsFiniteSet(S) /\ \A i \in S : f[i] \in Int
    /\ IsFiniteSet(K) /\ \A i \in S : key[i] \in K
    /\ \A k \in K : part[k] \subseteq S /\ \A i \in S : i \in part[k] <=> key[i] = k
    /\ \A k \in K : sums[k] = SumFunctionOnSet(f, part[k])

\* The sums of the parts add up to the sum.
THEOREM SumByPart ==
    ASSUME NEW f, NEW S, NEW key, NEW K, NEW part, NEW sums, KeyedSums(f, S, key, K, part, sums)
    PROVE  SumFunctionOnSet(sums, K) = SumFunctionOnSet(f, S)
<1> DEFINE Only(k) == [i \in S |-> IF key[i] = k THEN f[i] ELSE 0]
           by == [k \in K |-> SumFunctionOnSet(Only(k), S)]
<1>1. IsFiniteSet(S) /\ IsFiniteSet(K) /\ \A i \in S : f[i] \in Int /\ key[i] \in K
  BY DEF KeyedSums
<1>2. SumFunctionOnSet(by, K) = SumFunctionOnSet(f, S)
  BY <1>1, SumByKey
<1>3. \A k \in K : sums[k] = by[k]
  <2>1. TAKE k \in K
  <2>2. part[k] \subseteq S /\ \A i \in S : Only(k)[i] = IF i \in part[k] THEN f[i] ELSE 0
    BY DEF KeyedSums
  <2>3. SumFunctionOnSet(Only(k), S) = SumFunctionOnSet(f, part[k])
    <3> HIDE DEF Only
    <3>1. QED
      BY <1>1, <2>2, SumOfPart
  <2>4. sums[k] = SumFunctionOnSet(f, part[k])
    BY DEF KeyedSums
  <2>5. QED
    BY <2>3, <2>4
<1>4. QED
  <2> HIDE DEF by
  <2>1. QED
    BY <1>1, <1>2, <1>3, SumAgrees
=============================================================================
