------------------------------ MODULE SumProofs ------------------------------
(***************************************************************************)
(* Proofs about sums over finite sets and counts in sequences, which the   *)
(* proofs about totals rest on.  A sum is a fold, and a fold is a          *)
(* recursive function; what it computes is proved by the least             *)
(* counterexample: among the sets for which a statement fails take a       *)
(* smallest one, and take one element off it.                              *)
(***************************************************************************)
EXTENDS Integers, Sequences, FiniteSets, Functions, Folds, FiniteSetTheorems,
        WellFoundedInduction, TLAPS

\* A set of numbers that is not empty has a least one.
LEMMA LeastNumber ==
  ASSUME NEW T, T \subseteq Nat, T # {}
  PROVE  \E n \in T : \A m \in T : n <= m
<1> DEFINE R == {ss \in Nat \X Nat : ss[1] < ss[2]}
<1>1. IsWellFoundedOn(R, Nat)
  BY NatLessThanWellFounded, Zenon DEF OpToRel
<1>2. \E x \in T : \A y \in T : ~ (<<y, x>> \in R)
  <2> HIDE DEF R
  <2> QED BY WFMin, <1>1
<1>3. PICK x \in T : \A y \in T : ~ (<<y, x>> \in R)
  BY <1>2
<1>4. \A y \in T : x <= y
  <2> SUFFICES ASSUME NEW y \in T, y < x PROVE FALSE
    OBVIOUS
  <2>1. <<y, x>> \in R
    OBVIOUS
  <2> QED BY <2>1, <1>3
<1> QED BY <1>4

\* A set of finite sets that is not empty has a smallest one.
LEMMA SmallestSet ==
  ASSUME NEW U, U # {}, \A s \in U : IsFiniteSet(s)
  PROVE  \E s \in U : \A t \in U : Cardinality(s) <= Cardinality(t)
<1> DEFINE T == {Cardinality(s) : s \in U}
<1>1. T \subseteq Nat /\ T # {}
  BY FS_CardinalityType
<1> HIDE DEF T
<1>2. PICK n \in T : \A m \in T : n <= m
  BY <1>1, LeastNumber
<1> QED BY <1>2 DEF T

\* The definitions that a sum unfolds to: it takes a chosen element off a set at a time.
Chosen(s) == CHOOSE x \in s : TRUE

LEMMA ChosenIn == ASSUME NEW s, s # {} PROVE Chosen(s) \in s
BY DEF Chosen

Partial(f, it, U) ==
  it = [s \in U |-> IF s = {} THEN 0 ELSE f[Chosen(s)] + it[s \ {Chosen(s)}]]

Partials(f, S) == CHOOSE it : Partial(f, it, SUBSET S)

\* A sum is the entry of the table of partial sums for the whole set.
LEMMA SumIsPartial ==
  ASSUME NEW f, NEW S
  PROVE  SumFunctionOnSet(f, S) = Partials(f, S)[S]
BY Zenon DEF SumFunctionOnSet, FoldFunctionOnSet, MapThenFoldSet, Partials, Partial, Chosen

\* A set without one of its elements is smaller by one.
LEMMA Smaller ==
  ASSUME NEW s, IsFiniteSet(s), NEW x \in s
  PROVE  /\ IsFiniteSet(s \ {x}) /\ Cardinality(s \ {x}) = Cardinality(s) - 1
         /\ Cardinality(s) \in Nat /\ Cardinality(s \ {x}) \in Nat
BY FS_RemoveElement, FS_CardinalityType

\* The sums of all subsets exist.
LEMMA PartialsExist ==
  ASSUME NEW f, NEW S, IsFiniteSet(S)
  PROVE  Partial(f, Partials(f, S), SUBSET S)
<1> DEFINE Up(n) == {s \in SUBSET S : Cardinality(s) <= n}
           Bad == {n \in Nat : ~\E it : Partial(f, it, Up(n))}
<1>1. \A s \in SUBSET S : IsFiniteSet(s) /\ Cardinality(s) \in 0 .. Cardinality(S)
  BY FS_Subset, FS_CardinalityType
<1>2. Bad = {}
  <2> SUFFICES ASSUME Bad # {} PROVE FALSE
    OBVIOUS
  <2>1. PICK n \in Bad : \A m \in Bad : n <= m
    <3> HIDE DEF Bad
    <3>1. Bad \subseteq Nat BY DEF Bad
    <3> QED BY <3>1, LeastNumber
  <2>2. CASE n = 0
    <3>1. \A s \in Up(0) : s = {}
      BY <1>1, FS_EmptySet
    <3> DEFINE zero == [s \in Up(n) |-> 0]
    <3>2. Partial(f, zero, Up(n))
      BY <3>1, <2>2 DEF Partial
    <3> QED BY <3>2, <2>1
  <2>3. CASE n # 0
    <3>1. n - 1 \in Nat /\ n - 1 \notin Bad
      <4>1. n \in Nat
        OBVIOUS
      <4> HIDE DEF Bad
      <4> QED BY <4>1, <2>1, <2>3
    <3>2. PICK it : Partial(f, it, Up(n - 1))
      BY <3>1
    <3> DEFINE more == [s \in Up(n) |-> IF s \in Up(n - 1) THEN it[s]
                                        ELSE f[Chosen(s)] + it[s \ {Chosen(s)}]]
    <3>3. ASSUME NEW s \in Up(n)
          PROVE  more[s] = IF s = {} THEN 0 ELSE f[Chosen(s)] + more[s \ {Chosen(s)}]
      <4>1. CASE s = {}
        <5>1. s \in Up(n - 1)
          BY <4>1, <3>1, FS_EmptySet
        <5> QED BY <5>1, <3>2, <4>1 DEF Partial
      <4>2. CASE s # {}
        <5> DEFINE t == s \ {Chosen(s)}
        <5>1. Chosen(s) \in s BY <4>2, ChosenIn
        <5>2. Cardinality(t) = Cardinality(s) - 1 /\ Cardinality(s) \in Nat
          BY <1>1, <5>1, <4>2, Smaller
        <5>3. t \in Up(n - 1) /\ t \in Up(n)
          BY <5>2, <3>1
        <5>4. more[t] = it[t]
          BY <5>3
        <5>5. more[s] = f[Chosen(s)] + it[t]
          <6>1. CASE s \in Up(n - 1)
            BY <6>1, <3>2, <4>2 DEF Partial
          <6>2. CASE s \notin Up(n - 1)
            BY <6>2
          <6> QED BY <6>1, <6>2
        <5> QED BY <5>4, <5>5, <4>2
      <4> QED BY <4>1, <4>2
    <3>4. Partial(f, more, Up(n))
      <4> HIDE DEF Up
      <4>1. more = [s \in Up(n) |-> more[s]]
        OBVIOUS
      <4> HIDE DEF more
      <4> QED BY <4>1, <3>3 DEF Partial
    <3> QED BY <3>4, <2>1
  <2> QED BY <2>2, <2>3
<1>3. Cardinality(S) \in Nat /\ Up(Cardinality(S)) = SUBSET S
  BY <1>1, FS_CardinalityType
<1>4. \E it : Partial(f, it, SUBSET S)
  BY <1>2, <1>3
<1> QED BY <1>4 DEF Partials

LEMMA PartialStep ==
  ASSUME NEW f, NEW S, IsFiniteSet(S), NEW s \in SUBSET S
  PROVE  Partials(f, S)[s] =
           IF s = {} THEN 0 ELSE f[Chosen(s)] + Partials(f, S)[s \ {Chosen(s)}]
<1>1. Partial(f, Partials(f, S), SUBSET S)
  BY PartialsExist
<1> HIDE DEF Partials
<1> QED BY <1>1 DEF Partial

\* What a set sums to does not depend on the set it is a part of.
LEMMA PartialsAgree ==
  ASSUME NEW f, NEW S, IsFiniteSet(S), NEW T \in SUBSET S
  PROVE  Partials(f, T)[T] = Partials(f, S)[T]
<1> DEFINE Bad == {s \in SUBSET T : Partials(f, T)[s] # Partials(f, S)[s]}
<1>1. \A s \in SUBSET S : IsFiniteSet(s)
  BY FS_Subset
<1>2. SUFFICES ASSUME Bad # {} PROVE FALSE
  OBVIOUS
<1>3. PICK s \in Bad : \A t \in Bad : Cardinality(s) <= Cardinality(t)
  <2> HIDE DEF Bad
  <2>1. \A t \in Bad : IsFiniteSet(t)
    BY <1>1 DEF Bad
  <2> QED BY <2>1, <1>2, SmallestSet
<1>4. /\ Partials(f, T)[s] = IF s = {} THEN 0 ELSE f[Chosen(s)] + Partials(f, T)[s \ {Chosen(s)}]
      /\ Partials(f, S)[s] = IF s = {} THEN 0 ELSE f[Chosen(s)] + Partials(f, S)[s \ {Chosen(s)}]
  BY PartialStep, <1>1
<1>5. s # {}
  BY <1>4, <1>3
<1>6. Cardinality(s \ {Chosen(s)}) < Cardinality(s)
  BY <1>1, <1>5, ChosenIn, Smaller
<1>7. s \ {Chosen(s)} \notin Bad
  BY <1>6, <1>3, <1>1, FS_CardinalityType
<1> QED BY <1>7, <1>4, <1>3

\* Nothing sums to zero: the totals of an empty ledger, the rows of an empty directory.
LEMMA SumEmpty ==
  ASSUME NEW f
  PROVE  SumFunctionOnSet(f, {}) = 0
BY SumIsPartial, PartialStep, FS_EmptySet

\* A sum is the chosen element and the sum of the others.
LEMMA SumUnfolds ==
  ASSUME NEW f, NEW S, IsFiniteSet(S), S # {}
  PROVE  SumFunctionOnSet(f, S) = f[Chosen(S)] + SumFunctionOnSet(f, S \ {Chosen(S)})
<1>1. SumFunctionOnSet(f, S) = f[Chosen(S)] + Partials(f, S)[S \ {Chosen(S)}]
  BY SumIsPartial, PartialStep
<1>2. S \ {Chosen(S)} \in SUBSET S
  OBVIOUS
<1>3. Partials(f, S \ {Chosen(S)})[S \ {Chosen(S)}] = Partials(f, S)[S \ {Chosen(S)}]
  BY <1>2, PartialsAgree
<1> QED BY <1>1, <1>3, SumIsPartial

\* A sum of integers over a finite set is an integer.
LEMMA SumInt ==
  ASSUME NEW f, NEW S, IsFiniteSet(S), \A x \in S : f[x] \in Int
  PROVE  SumFunctionOnSet(f, S) \in Int
<1> DEFINE Bad == {s \in SUBSET S : SumFunctionOnSet(f, s) \notin Int}
<1>1. \A s \in SUBSET S : IsFiniteSet(s)
  BY FS_Subset
<1>2. SUFFICES ASSUME Bad # {} PROVE FALSE
  OBVIOUS
<1>3. PICK s \in Bad : \A t \in Bad : Cardinality(s) <= Cardinality(t)
  <2> HIDE DEF Bad
  <2>1. \A t \in Bad : IsFiniteSet(t)
    BY <1>1 DEF Bad
  <2> QED BY <2>1, <1>2, SmallestSet
<1>4. s # {}
  BY <1>3, SumEmpty
<1>5. SumFunctionOnSet(f, s) = f[Chosen(s)] + SumFunctionOnSet(f, s \ {Chosen(s)})
  BY <1>4, <1>1, SumUnfolds
<1>6. Cardinality(s \ {Chosen(s)}) < Cardinality(s) /\ Chosen(s) \in S
  BY <1>1, <1>4, ChosenIn, Smaller
<1>7. s \ {Chosen(s)} \notin Bad
  BY <1>6, <1>3, <1>1, FS_CardinalityType
<1> QED BY <1>7, <1>5, <1>3, <1>6

\* Any element may be taken first.
\* Any element can be taken off the sum first: the order a total is added up in, that of a
\* directory listing or of a walk over a map, does not matter.
LEMMA SumTakes ==
  ASSUME NEW f, NEW S, IsFiniteSet(S), \A y \in S : f[y] \in Int, NEW x \in S
  PROVE  SumFunctionOnSet(f, S) = f[x] + SumFunctionOnSet(f, S \ {x})
<1> DEFINE Sum(s) == SumFunctionOnSet(f, s)
           Bad == {s \in SUBSET S : \E y \in s : Sum(s) # f[y] + Sum(s \ {y})}
<1>1. \A s \in SUBSET S : IsFiniteSet(s)
  BY FS_Subset
<1>0. \A s \in SUBSET S : Sum(s) \in Int
  BY <1>1, SumInt
<1>2. SUFFICES ASSUME Bad # {} PROVE FALSE
  OBVIOUS
<1>3. PICK s \in Bad : \A t \in Bad : Cardinality(s) <= Cardinality(t)
  <2> HIDE DEF Bad
  <2>1. \A t \in Bad : IsFiniteSet(t)
    BY <1>1 DEF Bad
  <2> QED BY <2>1, <1>2, SmallestSet
<1>4. PICK y \in s : Sum(s) # f[y] + Sum(s \ {y})
  BY <1>3
<1> DEFINE c == Chosen(s)
<1>5. c \in s /\ Sum(s) = f[c] + Sum(s \ {c})
  BY <1>1, <1>4, ChosenIn, SumUnfolds
<1> HIDE DEF c
<1>6. c # y
  BY <1>5, <1>4
<1>7. s \ {c} \notin Bad /\ s \ {y} \notin Bad
  <2>1. s \in SUBSET S /\ IsFiniteSet(s)
    BY <1>3, <1>1
  <2>2. /\ Cardinality(s \ {c}) < Cardinality(s) /\ Cardinality(s \ {y}) < Cardinality(s)
        /\ Cardinality(s) \in Nat /\ Cardinality(s \ {c}) \in Nat /\ Cardinality(s \ {y}) \in Nat
    <3> HIDE DEF Bad, Sum
    <3> QED BY <2>1, <1>5, <1>4, Smaller
  <2> HIDE DEF Bad
  <2> QED BY <2>2, <1>3
<1>8. /\ Sum(s \ {c}) = f[y] + Sum((s \ {c}) \ {y})
      /\ Sum(s \ {y}) = f[c] + Sum((s \ {y}) \ {c})
  BY <1>7, <1>6, <1>5, <1>4
<1>9. (s \ {c}) \ {y} = (s \ {y}) \ {c}
  OBVIOUS
<1>10. f[c] \in Int /\ f[y] \in Int /\ Sum((s \ {c}) \ {y}) \in Int
  BY <1>5, <1>4, <1>0
<1> HIDE DEF Sum
<1> QED BY <1>4, <1>5, <1>8, <1>9, <1>10

\* A sum over one element more is greater by what that element counts for.
LEMMA SumAdds ==
  ASSUME NEW f, NEW S, IsFiniteSet(S), NEW x, x \notin S, \A y \in S \union {x} : f[y] \in Int
  PROVE  SumFunctionOnSet(f, S \union {x}) = f[x] + SumFunctionOnSet(f, S)
<1>1. IsFiniteSet(S \union {x}) /\ x \in S \union {x} /\ (S \union {x}) \ {x} = S
  BY FS_AddElement
<1> DEFINE T == S \union {x}
<1>2. IsFiniteSet(T) /\ x \in T /\ T \ {x} = S /\ \A y \in T : f[y] \in Int
  BY <1>1
<1> HIDE DEF T
<1>3. SumFunctionOnSet(f, T) = f[x] + SumFunctionOnSet(f, T \ {x})
  BY <1>2, SumTakes
<1> QED BY <1>2, <1>3 DEF T

\* Larger values, a larger sum.
\* Where every element counts for no more, the sum is no more.
LEMMA SumGrows ==
  ASSUME NEW f, NEW g, NEW S, IsFiniteSet(S),
         \A x \in S : f[x] \in Int /\ g[x] \in Int /\ f[x] <= g[x]
  PROVE  SumFunctionOnSet(f, S) <= SumFunctionOnSet(g, S)
<1> DEFINE F(s) == SumFunctionOnSet(f, s)
           G(s) == SumFunctionOnSet(g, s)
           Bad == {s \in SUBSET S : ~(F(s) <= G(s))}
<1>1. \A s \in SUBSET S : IsFiniteSet(s)
  BY FS_Subset
<1>2. SUFFICES ASSUME Bad # {} PROVE FALSE
  OBVIOUS
<1>3. PICK s \in Bad : \A t \in Bad : Cardinality(s) <= Cardinality(t)
  <2> HIDE DEF Bad
  <2>1. \A t \in Bad : IsFiniteSet(t)
    BY <1>1 DEF Bad
  <2> QED BY <2>1, <1>2, SmallestSet
<1>4. PICK x \in s : TRUE
  <2>1. F({}) = 0 /\ G({}) = 0
    BY SumEmpty
  <2> QED BY <2>1, <1>3
<1>5. F(s) = f[x] + F(s \ {x}) /\ G(s) = g[x] + G(s \ {x})
  BY <1>1, SumTakes
<1>6. s \ {x} \notin Bad
  BY <1>3, <1>1, Smaller
<1>7. F(s \ {x}) \in Int /\ G(s \ {x}) \in Int
  BY <1>1, SumInt
<1> HIDE DEF F, G
<1> QED BY <1>5, <1>6, <1>7, <1>3

\* The sum depends on what its elements count for and on nothing else.
LEMMA SumSame ==
  ASSUME NEW f, NEW g, NEW S, IsFiniteSet(S),
         \A x \in S : f[x] \in Int /\ g[x] = f[x]
  PROVE  SumFunctionOnSet(f, S) = SumFunctionOnSet(g, S)
<1>1. SumFunctionOnSet(f, S) <= SumFunctionOnSet(g, S)
  BY SumGrows
<1>2. SumFunctionOnSet(g, S) <= SumFunctionOnSet(f, S)
  BY SumGrows
<1>3. SumFunctionOnSet(g, S) \in Int /\ SumFunctionOnSet(f, S) \in Int
  BY SumInt
<1> QED BY <1>1, <1>2, <1>3

\* A sum of natural numbers over a finite set is one.
LEMMA SumNat ==
  ASSUME NEW f, NEW S, IsFiniteSet(S), \A x \in S : f[x] \in Nat
  PROVE  SumFunctionOnSet(f, S) \in Nat
<1> DEFINE Bad == {s \in SUBSET S : SumFunctionOnSet(f, s) \notin Nat}
<1>1. \A s \in SUBSET S : IsFiniteSet(s)
  BY FS_Subset
<1>2. SUFFICES ASSUME Bad # {} PROVE FALSE
  OBVIOUS
<1>3. PICK s \in Bad : \A t \in Bad : Cardinality(s) <= Cardinality(t)
  <2> HIDE DEF Bad
  <2>1. \A t \in Bad : IsFiniteSet(t)
    BY <1>1 DEF Bad
  <2> QED BY <2>1, <1>2, SmallestSet
<1>4. PICK x \in s : TRUE
  BY <1>3, SumEmpty
<1>5. SumFunctionOnSet(f, s) = f[x] + SumFunctionOnSet(f, s \ {x})
  BY <1>1, SumTakes
<1>6. s \ {x} \notin Bad
  BY <1>3, <1>1, Smaller
<1> QED BY <1>5, <1>6, <1>3

\* Fewer values that are not negative, a smaller sum.
\* A part sums to no more than the whole.
LEMMA SumOfPart ==
  ASSUME NEW f, NEW S, IsFiniteSet(S), \A x \in S : f[x] \in Nat, NEW T \in SUBSET S
  PROVE  SumFunctionOnSet(f, T) <= SumFunctionOnSet(f, S)
<1> DEFINE Bad == {s \in SUBSET S : T \subseteq s /\ ~(SumFunctionOnSet(f, T) <= SumFunctionOnSet(f, s))}
<1>1. \A s \in SUBSET S : IsFiniteSet(s) /\ SumFunctionOnSet(f, s) \in Nat
  BY FS_Subset, SumNat
<1>2. SUFFICES ASSUME Bad # {} PROVE FALSE
  OBVIOUS
<1>3. PICK s \in Bad : \A t \in Bad : Cardinality(s) <= Cardinality(t)
  <2> HIDE DEF Bad
  <2>1. \A t \in Bad : IsFiniteSet(t)
    BY <1>1 DEF Bad
  <2> QED BY <2>1, <1>2, SmallestSet
<1>4. PICK x \in s \ T : TRUE
  BY <1>3, <1>1
<1>5. SumFunctionOnSet(f, s) = f[x] + SumFunctionOnSet(f, s \ {x})
  BY <1>1, SumTakes
<1>6. s \ {x} \notin Bad
  BY <1>3, <1>1, Smaller
<1>7. f[x] \in Nat /\ SumFunctionOnSet(f, s \ {x}) \in Nat /\ SumFunctionOnSet(f, T) \in Nat
  BY <1>1
<1> QED BY <1>5, <1>6, <1>3, <1>7

\* The sum of two sets that share nothing.
\* Two sets without a common element sum to the sum of both.
LEMMA SumUnion ==
  ASSUME NEW f, NEW S, NEW T, IsFiniteSet(S), IsFiniteSet(T), S \intersect T = {},
         \A x \in S \union T : f[x] \in Int
  PROVE  SumFunctionOnSet(f, S \union T) = SumFunctionOnSet(f, S) + SumFunctionOnSet(f, T)
<1> DEFINE Sum(s) == SumFunctionOnSet(f, s)
           Bad == {s \in SUBSET T : Sum(S \union s) # Sum(S) + Sum(s)}
<1>1. \A s \in SUBSET T : IsFiniteSet(s) /\ IsFiniteSet(S \union s) /\ Sum(s) \in Int
                          /\ Sum(S \union s) \in Int /\ Sum(S) \in Int
  BY FS_Subset, FS_Union, SumInt
<1>2. SUFFICES ASSUME Bad # {} PROVE FALSE
  OBVIOUS
<1>3. PICK s \in Bad : \A t \in Bad : Cardinality(s) <= Cardinality(t)
  <2> HIDE DEF Bad
  <2>1. \A t \in Bad : IsFiniteSet(t)
    BY <1>1 DEF Bad
  <2> QED BY <2>1, <1>2, SmallestSet
<1>4. s \in SUBSET T
  OBVIOUS
<1>5. PICK x \in s : TRUE
  <2>1. Sum({}) = 0
    BY SumEmpty
  <2>2. Sum(S \union {}) = Sum(S)
    OBVIOUS
  <2>3. s # {}
    <3> SUFFICES ASSUME s = {} PROVE FALSE
      OBVIOUS
    <3>1. Sum(S \union s) # Sum(S) + Sum(s)
      OBVIOUS
    <3> HIDE DEF Sum, Bad
    <3> QED BY <3>1, <2>1, <2>2, <1>1
  <2> QED BY <2>3
<1>6. Sum(s) = f[x] + Sum(s \ {x})
  BY <1>1, <1>4, SumTakes
<1>7. Sum(S \union s) = f[x] + Sum(S \union (s \ {x}))
  <2>1. (S \union s) \ {x} = S \union (s \ {x})
    BY <1>4
  <2>2. Sum(S \union s) = f[x] + Sum((S \union s) \ {x})
    <3> DEFINE U == S \union s
    <3>1. IsFiniteSet(U) /\ x \in U /\ \A y \in U : f[y] \in Int
      BY <1>1, <1>4
    <3> HIDE DEF U
    <3>2. SumFunctionOnSet(f, U) = f[x] + SumFunctionOnSet(f, U \ {x})
      BY <3>1, SumTakes
    <3> QED BY <3>2 DEF U
  <2> HIDE DEF Sum
  <2> QED BY <2>1, <2>2
<1>8. s \ {x} \in SUBSET T /\ s \ {x} \notin Bad
  <2>1. Cardinality(s \ {x}) < Cardinality(s) /\ Cardinality(s) \in Nat /\ Cardinality(s \ {x}) \in Nat
    <3>1. IsFiniteSet(s) /\ x \in s
      BY <1>1, <1>4
    <3>2. /\ Cardinality(s \ {x}) = Cardinality(s) - 1
          /\ Cardinality(s) \in Nat /\ Cardinality(s \ {x}) \in Nat
      BY <3>1, Smaller, Zenon
    <3> QED BY <3>2
  <2> HIDE DEF Bad
  <2> QED BY <2>1, <1>3, <1>4
<1>9. /\ Sum(S \union (s \ {x})) = Sum(S) + Sum(s \ {x})
      /\ Sum(S \union s) # Sum(S) + Sum(s)
  BY <1>8
<1>10. f[x] \in Int /\ Sum(S) \in Int /\ Sum(s \ {x}) \in Int
  BY <1>1, <1>8, <1>4
<1> HIDE DEF Sum, Bad
<1> QED BY <1>6, <1>7, <1>9, <1>10

\* The same values under other names.
\* Renaming the elements one to one does not change the sum: the files of a commit that
\* are moved to other names hold as many rows as before.
LEMMA SumImage ==
  ASSUME NEW f, NEW S, IsFiniteSet(S), NEW g, NEW T, NEW h \in Bijection(S, T),
         \A x \in S : f[x] \in Int /\ g[h[x]] = f[x]
  PROVE  SumFunctionOnSet(g, T) = SumFunctionOnSet(f, S)
<1> DEFINE Image(s) == {h[x] : x \in s}
           Bad == {s \in SUBSET S : SumFunctionOnSet(g, Image(s)) # SumFunctionOnSet(f, s)}
<1>0. /\ h \in [S -> T] /\ Image(S) = T
      /\ \A x, y \in S : h[x] = h[y] => x = y
  BY DEF Bijection, Injection, Surjection, IsInjective
<1>1. \A s \in SUBSET S : IsFiniteSet(s) /\ IsFiniteSet(Image(s))
  <2> TAKE s \in SUBSET S
  <2>1. IsFiniteSet(s)
    BY FS_Subset
  <2>2. [x \in s |-> h[x]] \in Surjection(s, Image(s))
    BY DEF Surjection
  <2> HIDE DEF Image
  <2> QED BY <2>1, <2>2, FS_Surjection
<1>2. SUFFICES ASSUME Bad # {} PROVE FALSE
  BY <1>0
<1>3. PICK s \in Bad : \A t \in Bad : Cardinality(s) <= Cardinality(t)
  <2> HIDE DEF Bad
  <2>1. \A t \in Bad : IsFiniteSet(t)
    BY <1>1 DEF Bad
  <2> QED BY <2>1, <1>2, SmallestSet
<1>4. s \in SUBSET S /\ SumFunctionOnSet(g, Image(s)) # SumFunctionOnSet(f, s)
  OBVIOUS
<1>5. PICK x \in s : TRUE
  <2>1. Image({}) = {}
    OBVIOUS
  <2> HIDE DEF Image, Bad
  <2> QED BY <2>1, <1>4, SumEmpty
<1>6. SumFunctionOnSet(f, s) = f[x] + SumFunctionOnSet(f, s \ {x})
  BY <1>1, <1>4, SumTakes
<1>7. SumFunctionOnSet(g, Image(s)) = g[h[x]] + SumFunctionOnSet(g, Image(s) \ {h[x]})
  <2>1. h[x] \in Image(s) /\ \A y \in Image(s) : g[y] \in Int
    BY <1>4
  <2>2. IsFiniteSet(Image(s))
    BY <1>1, <1>4
  <2> HIDE DEF Image
  <2> QED BY <2>1, <2>2, SumTakes
<1>8. Image(s) \ {h[x]} = Image(s \ {x})
  BY <1>0, <1>4
<1>9. s \ {x} \in SUBSET S /\ s \ {x} \notin Bad
  <2>1. Cardinality(s \ {x}) < Cardinality(s) /\ Cardinality(s) \in Nat /\ Cardinality(s \ {x}) \in Nat
    <3>1. IsFiniteSet(s) /\ x \in s
      BY <1>1, <1>4
    <3> HIDE DEF Bad
    <3> QED BY <3>1, Smaller
  <2> HIDE DEF Bad
  <2> QED BY <2>1, <1>3, <1>4
<1>10. SumFunctionOnSet(g, Image(s \ {x})) = SumFunctionOnSet(f, s \ {x})
  BY <1>9
<1>11. g[h[x]] = f[x]
  BY <1>4
<1> HIDE DEF Image, Bad
<1> QED BY <1>4, <1>6, <1>7, <1>8, <1>10, <1>11

\* Nothing but zeros.
\* Elements that count for nothing sum to nothing.
LEMMA SumZero ==
  ASSUME NEW f, NEW S, IsFiniteSet(S), \A x \in S : f[x] = 0
  PROVE  SumFunctionOnSet(f, S) = 0
<1> DEFINE Bad == {s \in SUBSET S : SumFunctionOnSet(f, s) # 0}
<1>1. \A s \in SUBSET S : IsFiniteSet(s)
  BY FS_Subset
<1>2. SUFFICES ASSUME Bad # {} PROVE FALSE
  OBVIOUS
<1>3. PICK s \in Bad : \A t \in Bad : Cardinality(s) <= Cardinality(t)
  <2> HIDE DEF Bad
  <2>1. \A t \in Bad : IsFiniteSet(t)
    BY <1>1 DEF Bad
  <2> QED BY <2>1, <1>2, SmallestSet
<1>4. PICK x \in s : TRUE
  BY <1>3, SumEmpty
<1>5. SumFunctionOnSet(f, s) = f[x] + SumFunctionOnSet(f, s \ {x})
  BY <1>1, SumTakes
<1>6. s \ {x} \notin Bad
  BY <1>3, <1>1, Smaller
<1> QED BY <1>5, <1>6, <1>3

(***************************************************************************)
(* Counting the elements of a sequence that are in a set.                  *)
(***************************************************************************)
Count(s, T) == Cardinality({k \in DOMAIN s : s[k] \in T})

\* There are at most as many as the sequence is long.
LEMMA CountType ==
  ASSUME NEW S, NEW s \in Seq(S), NEW T
  PROVE  /\ Count(s, T) \in Nat /\ IsFiniteSet({k \in DOMAIN s : s[k] \in T})
         /\ IsFiniteSet(DOMAIN s) /\ Count(s, T) <= Len(s)
<1>1. DOMAIN s = 1 .. Len(s) /\ Len(s) \in Nat
  OBVIOUS
<1>2. IsFiniteSet(DOMAIN s) /\ Cardinality(DOMAIN s) = Len(s)
  BY <1>1, FS_Interval
<1> DEFINE U == {k \in DOMAIN s : s[k] \in T}
<1>3. U \subseteq DOMAIN s
  OBVIOUS
<1> HIDE DEF U
<1>4. IsFiniteSet(U) /\ Cardinality(U) <= Cardinality(DOMAIN s) /\ Cardinality(U) \in Nat
  BY <1>2, <1>3, FS_Subset, FS_CardinalityType
<1> QED BY <1>2, <1>4 DEF Count, U

\* All are in the set that the sequence is over.
LEMMA CountAll ==
  ASSUME NEW S, NEW s \in Seq(S), NEW T, S \subseteq T
  PROVE  Count(s, T) = Len(s)
<1>1. {k \in DOMAIN s : s[k] \in T} = 1 .. Len(s) /\ Len(s) \in Nat
  OBVIOUS
<1>2. Cardinality(1 .. Len(s)) = Len(s)
  <2>1. Len(s) \in Int /\ 1 \in Int /\ Len(s) >= 0
    BY <1>1
  <2>2. Cardinality(1 .. Len(s)) = IF 1 > Len(s) THEN 0 ELSE Len(s) - 1 + 1
    BY <2>1, FS_Interval, Zenon
  <2> QED BY <2>1, <2>2
<1> QED BY <1>1, <1>2, Zenon DEF Count

\* An empty sequence has no elements in any set.
LEMMA CountEmpty ==
  ASSUME NEW T
  PROVE  Count(<<>>, T) = 0
<1>1. {k \in DOMAIN <<>> : <<>>[k] \in T} = {}
  OBVIOUS
<1> QED BY <1>1, FS_EmptySet, Zenon DEF Count

\* One element more in a sequence is one more in the sets it is in.
LEMMA CountAppend ==
  ASSUME NEW S, NEW s \in Seq(S), NEW x \in S, NEW T
  PROVE  Count(Append(s, x), T) = Count(s, T) + (IF x \in T THEN 1 ELSE 0)
<1> DEFINE t == Append(s, x)
           U == {k \in DOMAIN s : s[k] \in T}
           V == {k \in DOMAIN t : t[k] \in T}
           n == Len(s) + 1
<1>1. /\ Len(s) \in Nat /\ DOMAIN s = 1 .. Len(s) /\ DOMAIN t = 1 .. n /\ t[n] = x
      /\ \A k \in DOMAIN s : t[k] = s[k]
  OBVIOUS
<1>2. IsFiniteSet(U) /\ Cardinality(U) \in Nat
  BY CountType DEF Count
<1>3. n \notin U
  BY <1>1
<1>4. CASE x \in T
  <2>1. V = U \union {n}
    <3> HIDE DEF t
    <3> QED BY <1>1, <1>4
  <2> HIDE DEF U, V, n
  <2>2. Cardinality(V) = Cardinality(U) + 1
    BY <1>2, <1>3, <2>1, FS_AddElement
  <2> QED BY <1>4, <2>2 DEF Count, U, V
<1>5. CASE x \notin T
  <2>1. V = U
    <3> HIDE DEF t
    <3> QED BY <1>1, <1>5
  <2> HIDE DEF U, V, n
  <2>2. Cardinality(V) = Cardinality(U)
    BY <2>1, Zenon
  <2>3. Count(Append(s, x), T) = Cardinality(V) /\ Count(s, T) = Cardinality(U)
    BY Zenon DEF Count, U, V
  <2> QED BY <1>2, <1>5, <2>2, <2>3
<1> QED BY <1>4, <1>5

\* The first element taken is one less in the sets it is in.
LEMMA CountTail ==
  ASSUME NEW S, NEW s \in Seq(S), s # <<>>, NEW T
  PROVE  Count(s, T) = Count(Tail(s), T) + (IF Head(s) \in T THEN 1 ELSE 0)
<1> DEFINE t == Tail(s)
           U == {k \in DOMAIN t : t[k] \in T}
           V == {k \in DOMAIN s : s[k] \in T}
           W == V \ {1}
           h == [k \in U |-> k + 1]
<1>1. /\ Len(s) \in Nat \ {0} /\ DOMAIN s = 1 .. Len(s) /\ t \in Seq(S)
      /\ DOMAIN t = 1 .. Len(s) - 1 /\ Head(s) = s[1]
      /\ \A k \in DOMAIN t : t[k] = s[k + 1] /\ k + 1 \in DOMAIN s
      /\ \A k \in DOMAIN s : k # 1 => k - 1 \in DOMAIN t
  OBVIOUS
<1> HIDE DEF t
<1>2. IsFiniteSet(U) /\ Cardinality(U) \in Nat
  BY <1>1, CountType DEF Count
<1>3. h \in Bijection(U, W)
  <2>1. h \in [U -> W]
    <3>1. ASSUME NEW k \in U PROVE h[k] \in W
      BY <1>1
    <3> QED BY <3>1
  <2>2. \A j, k \in U : h[j] = h[k] => j = k
    BY <1>1
  <2>3. \A w \in W : \E k \in U : h[k] = w
    <3> TAKE w \in W
    <3>1. w - 1 \in U /\ (w - 1) + 1 = w
      BY <1>1
    <3> QED BY <3>1
  <2> HIDE DEF h, U, W
  <2> QED BY <2>1, <2>2, <2>3 DEF Bijection, Injection, Surjection, IsInjective
<1>4. IsFiniteSet(W) /\ Cardinality(W) = Cardinality(U)
  <2> HIDE DEF h, U, W
  <2> QED BY <1>2, <1>3, FS_Bijection DEF ExistsBijection
<1>5. CASE Head(s) \in T
  <2>1. V = W \union {1} /\ 1 \notin W
    BY <1>1, <1>5
  <2> HIDE DEF U, V, W
  <2>2. Cardinality(V) = Cardinality(W) + 1
    BY <1>4, <2>1, FS_AddElement
  <2> QED BY <1>2, <1>4, <1>5, <2>2 DEF Count, U, V, t
<1>6. CASE Head(s) \notin T
  <2>1. V = W
    BY <1>1, <1>6
  <2> HIDE DEF U, V, W
  <2>2. Cardinality(V) = Cardinality(W)
    BY <2>1, Zenon
  <2>3. Count(s, T) = Cardinality(V) /\ Count(Tail(s), T) = Cardinality(U)
    BY Zenon DEF Count, U, V, t
  <2> QED BY <1>2, <1>4, <1>6, <2>2, <2>3
<1> QED BY <1>5, <1>6
=============================================================================
