------------------------------ MODULE CrawlProofs ------------------------------
(***************************************************************************)
(* Proofs about the crawler and its frontier.                              *)
(***************************************************************************)
EXTENDS Crawler, FunctionTheorems, SumProofs

\* What holds at first and is kept by every step holds all the way.
LEMMA RangeInduction ==
  ASSUME NEW n \in Nat, NEW X, 0 \in X, \A i \in 1 .. n : i - 1 \in X => i \in X
  PROVE  \A i \in 0 .. n : i \in X
<1> DEFINE Bad == {i \in 0 .. n : i \notin X}
<1> SUFFICES Bad = {}
  OBVIOUS
<1> SUFFICES ASSUME Bad # {} PROVE FALSE
  OBVIOUS
<1>1. Bad \subseteq Nat
  OBVIOUS
<1> HIDE DEF Bad
<1>2. PICK i \in Bad : \A j \in Bad : i <= j
  BY <1>1, LeastNumber
<1>3. i \in 0 .. n /\ i \notin X
  BY DEF Bad
<1>4. i # 0 /\ i - 1 \in 0 .. n /\ i \in 1 .. n
  BY <1>3
<1>5. i - 1 \notin Bad
  BY <1>2, <1>4
<1>6. i - 1 \in X
  BY <1>4, <1>5 DEF Bad
<1> QED BY <1>3, <1>4, <1>6

\* A function can be defined by its first value and a step.
LEMMA RangeRecursion ==
  ASSUME NEW S, NEW b \in S, NEW n \in Nat, NEW step \in [1 .. n -> [S -> S]]
  PROVE  \E f \in [0 .. n -> S] : f[0] = b /\ \A i \in 1 .. n : f[i] = step[i][f[i - 1]]
<1> DEFINE Good(m) == \E f \in [0 .. m -> S] : f[0] = b /\ \A i \in 1 .. m : f[i] = step[i][f[i - 1]]
           Bad == {m \in 0 .. n : ~Good(m)}
<1> SUFFICES Bad = {}
  <2>1. n \in 0 .. n /\ (n \notin Bad => Good(n))
    OBVIOUS
  <2>2. Good(n) => \E f \in [0 .. n -> S] : f[0] = b /\ \A i \in 1 .. n : f[i] = step[i][f[i - 1]]
    OBVIOUS
  <2> HIDE DEF Bad, Good
  <2> QED BY <2>1, <2>2
<1> SUFFICES ASSUME Bad # {} PROVE FALSE
  OBVIOUS
<1>1. Bad \subseteq Nat
  OBVIOUS
<1> HIDE DEF Bad
<1>2. PICK m \in Bad : \A j \in Bad : m <= j
  BY <1>1, LeastNumber
<1>3. m \in 0 .. n /\ ~Good(m)
  BY DEF Bad
<1>4. m # 0
  <2> SUFFICES ASSUME m = 0 PROVE FALSE
    OBVIOUS
  <2> DEFINE f == [i \in 0 .. m |-> b]
  <2>1. f \in [0 .. m -> S] /\ f[0] = b /\ \A i \in 1 .. m : f[i] = step[i][f[i - 1]]
    OBVIOUS
  <2> QED BY <1>3, <2>1
<1>5. m - 1 \in 0 .. n /\ m - 1 \notin Bad
  BY <1>2, <1>3, <1>4
<1>6. Good(m - 1)
  BY <1>5 DEF Bad
<1>7. PICK f \in [0 .. m - 1 -> S] : f[0] = b /\ \A i \in 1 .. m - 1 : f[i] = step[i][f[i - 1]]
  BY <1>6
<1> DEFINE g == [i \in 0 .. m |-> IF i = m THEN step[m][f[m - 1]] ELSE f[i]]
<1>8. step[m][f[m - 1]] \in S
  <2>1. f[m - 1] \in S /\ m \in 1 .. n
    BY <1>3, <1>4, <1>7
  <2> QED BY <2>1
<1>9. g \in [0 .. m -> S]
  BY <1>3, <1>7, <1>8
<1>10. g[0] = b /\ \A i \in 1 .. m : g[i] = step[i][g[i - 1]]
  <2>1. g[0] = b
    BY <1>3, <1>4, <1>7
  <2>2. \A i \in 0 .. m - 1 : g[i] = f[i]
    BY <1>3, <1>4
  <2>3. g[m] = step[m][g[m - 1]]
    <3>1. g[m] = step[m][f[m - 1]]
      BY <1>3
    <3>2. g[m - 1] = f[m - 1]
      BY <1>3, <1>4, <2>2
    <3> HIDE DEF g
    <3> QED BY <3>1, <3>2
  <2> HIDE DEF g
  <2>4. \A i \in 1 .. m - 1 : g[i] = step[i][g[i - 1]]
    <3> SUFFICES ASSUME NEW i \in 1 .. m - 1 PROVE g[i] = step[i][g[i - 1]]
      OBVIOUS
    <3>1. i \in 0 .. m - 1 /\ i - 1 \in 0 .. m - 1
      BY <1>3, <1>4
    <3>2. g[i] = f[i]
      BY <2>2, <3>1
    <3>3. g[i - 1] = f[i - 1]
      BY <2>2, <3>1
    <3>4. f[i] = step[i][f[i - 1]]
      BY <1>7
    <3> QED BY <3>2, <3>3, <3>4, Zenon
  <2> QED BY <1>3, <2>1, <2>3, <2>4
<1> QED BY <1>3, <1>9, <1>10

\* The smaller of two numbers.
LEMMA LeastOfTwo ==
  ASSUME NEW a \in Int, NEW c \in Int
  PROVE  Min({a, c}) \in {a, c} /\ Min({a, c}) <= a /\ Min({a, c}) <= c
<1>1. \E x \in {a, c} : \A y \in {a, c} : x <= y
  <2>1. CASE a <= c
    BY <2>1
  <2>2. CASE c <= a
    BY <2>2
  <2> QED BY <2>1, <2>2
<1> QED BY <1>1 DEF Min

-----------------------------------------------------------------------------
(* Selections. *)

Kept(s, T) ==
  CHOOSE kept : kept = [n \in 0 .. Len(s) |->
    IF n = 0 THEN <<>>
    ELSE IF s[n] \in T THEN Append(kept[n - 1], s[n]) ELSE kept[n - 1]]

\* Only is what its last step of recursion gives.
LEMMA OnlyIsKept == ASSUME NEW s, NEW T PROVE Only(s, T) = Kept(s, T)[Len(s)]
BY Zenon DEF Only, Kept

\* One step of that recursion.
LEMMA KeptStep ==
  ASSUME NEW S, NEW s \in Seq(S), NEW T
  PROVE  Kept(s, T) = [n \in 0 .. Len(s) |->
           IF n = 0 THEN <<>>
           ELSE IF s[n] \in T THEN Append(Kept(s, T)[n - 1], s[n]) ELSE Kept(s, T)[n - 1]]
<1> DEFINE n == Len(s)
           step == [i \in 1 .. n |-> [l \in Seq(S) |-> IF s[i] \in T THEN Append(l, s[i]) ELSE l]]
<1>1. n \in Nat /\ <<>> \in Seq(S) /\ \A i \in 1 .. n : s[i] \in S
  OBVIOUS
<1>2. step \in [1 .. n -> [Seq(S) -> Seq(S)]]
  BY <1>1
<1> HIDE DEF step
<1>3. PICK f \in [0 .. n -> Seq(S)] : f[0] = <<>> /\ \A i \in 1 .. n : f[i] = step[i][f[i - 1]]
  <2> DEFINE e == <<>>
             L == Seq(S)
  <2>1. n \in Nat /\ e \in L /\ step \in [1 .. n -> [L -> L]]
    BY <1>1, <1>2
  <2> HIDE DEF n, e, L
  <2>2. \E f \in [0 .. n -> L] : f[0] = e /\ \A i \in 1 .. n : f[i] = step[i][f[i - 1]]
    BY <2>1, RangeRecursion
  <2> QED BY <2>2 DEF e, L
<1>4. \A i \in 1 .. n : f[i] = IF s[i] \in T THEN Append(f[i - 1], s[i]) ELSE f[i - 1]
  <2> SUFFICES ASSUME NEW i \in 1 .. n PROVE f[i] = IF s[i] \in T THEN Append(f[i - 1], s[i]) ELSE f[i - 1]
    OBVIOUS
  <2>1. i - 1 \in 0 .. n
    BY <1>1
  <2>2. f[i - 1] \in Seq(S) /\ f[i] = step[i][f[i - 1]]
    BY <1>3, <2>1
  <2> QED BY <2>2 DEF step
<1>5. f = [i \in 0 .. n |-> IF i = 0 THEN <<>>
             ELSE IF s[i] \in T THEN Append(f[i - 1], s[i]) ELSE f[i - 1]]
  <2>1. \A i \in 0 .. n : f[i] = IF i = 0 THEN <<>>
             ELSE IF s[i] \in T THEN Append(f[i - 1], s[i]) ELSE f[i - 1]
    <3> SUFFICES ASSUME NEW i \in 0 .. n PROVE f[i] = IF i = 0 THEN <<>>
             ELSE IF s[i] \in T THEN Append(f[i - 1], s[i]) ELSE f[i - 1]
      OBVIOUS
    <3>1. i = 0 \/ i \in 1 .. n
      BY <1>1
    <3> QED BY <1>3, <1>4, <3>1
  <2>2. f = [i \in 0 .. n |-> f[i]]
    BY <1>3
  <2> QED BY <2>1, <2>2
<1> QED BY <1>5, Zenon DEF Kept

\* No element twice.
Distinct(s) == \A i, j \in DOMAIN s : s[i] = s[j] => i = j

\* A selection has the elements it should, once if the sequence has them once.
\* Once n elements were looked at.
SelectedSo(s, T, i) ==
  /\ ToSet(Kept(s, T)[i]) = {s[j] : j \in 1 .. i} \intersect T
  /\ Distinct(s) => Distinct(Kept(s, T)[i])

\* All of them, from an empty sequence on.
LEMMA KeptSteps ==
  ASSUME NEW S, NEW s \in Seq(S), NEW T
  PROVE  /\ Kept(s, T)[0] = <<>>
         /\ \A i \in 1 .. Len(s) :
              Kept(s, T)[i] = IF s[i] \in T THEN Append(Kept(s, T)[i - 1], s[i]) ELSE Kept(s, T)[i - 1]
<1> DEFINE n == Len(s)
           k == Kept(s, T)
<1>1. k = [i \in 0 .. n |-> IF i = 0 THEN <<>>
             ELSE IF s[i] \in T THEN Append(k[i - 1], s[i]) ELSE k[i - 1]]
  <2>1. Kept(s, T) = [i \in 0 .. Len(s) |-> IF i = 0 THEN <<>>
           ELSE IF s[i] \in T THEN Append(Kept(s, T)[i - 1], s[i]) ELSE Kept(s, T)[i - 1]]
    BY KeptStep
  <2> QED BY <2>1, Zenon
<1>2. n \in Nat
  OBVIOUS
<1> HIDE DEF k, n
<1>3. \A i \in 0 .. n : k[i] = IF i = 0 THEN <<>>
             ELSE IF s[i] \in T THEN Append(k[i - 1], s[i]) ELSE k[i - 1]
  BY <1>1, Zenon
<1>4. k[0] = <<>>
  BY <1>2, <1>3
<1>5. ASSUME NEW i \in 1 .. n
      PROVE k[i] = IF s[i] \in T THEN Append(k[i - 1], s[i]) ELSE k[i - 1]
  <2>1. i \in 0 .. n /\ i # 0
    BY <1>2
  <2> QED BY <1>3, <2>1, Zenon
<1> QED BY <1>4, <1>5 DEF k, n

\* A selection has the elements it should, once if the sequence has them once.
LEMMA Selection ==
  ASSUME NEW S, NEW s \in Seq(S), NEW T
  PROVE  /\ Only(s, T) \in Seq(S) /\ ToSet(Only(s, T)) = ToSet(s) \intersect T
         /\ Distinct(s) => Distinct(Only(s, T))
<1> DEFINE n == Len(s)
           k == Kept(s, T)
           X == {i \in 0 .. n : k[i] \in Seq(S) /\ SelectedSo(s, T, i)}
<1>1. n \in Nat /\ DOMAIN s = 1 .. n /\ \A i \in 1 .. n : s[i] \in S
  OBVIOUS
<1>2. /\ k[0] = <<>>
      /\ \A i \in 1 .. n : k[i] = IF s[i] \in T THEN Append(k[i - 1], s[i]) ELSE k[i - 1]
  <2>1. /\ Kept(s, T)[0] = <<>>
        /\ \A i \in 1 .. Len(s) :
             Kept(s, T)[i] = IF s[i] \in T THEN Append(Kept(s, T)[i - 1], s[i]) ELSE Kept(s, T)[i - 1]
    BY KeptSteps
  <2> QED BY <2>1, Zenon
<1>a. \A i \in 0 .. n : SelectedSo(s, T, i) <=>
        ToSet(k[i]) = {s[j] : j \in 1 .. i} \intersect T /\ (Distinct(s) => Distinct(k[i]))
  BY Zenon DEF SelectedSo
<1> HIDE DEF k
<1>3. 0 \in X
  <2>1. {s[j] : j \in 1 .. 0} = {} /\ ToSet(<<>>) = {} /\ <<>> \in Seq(S)
    BY DEF ToSet
  <2>2. Distinct(<<>>)
    BY DEF Distinct
  <2>3. SelectedSo(s, T, 0)
    <3>1. ToSet(k[0]) = {s[j] : j \in 1 .. 0} \intersect T
      BY <1>2, <2>1
    <3>2. Distinct(k[0])
      BY <1>2, <2>2
    <3>3. 0 \in 0 .. n
      BY <1>1
    <3> QED BY <3>1, <3>2, Zenon DEF SelectedSo, k
  <2>4. k[0] \in Seq(S) /\ 0 \in 0 .. n
    BY <1>1, <1>2, <2>1
  <2> QED BY <2>3, <2>4
<1>4. ASSUME NEW i \in 1 .. n, i - 1 \in X PROVE i \in X
  <2> DEFINE l == k[i - 1]
  <2>1. i - 1 \in 0 .. n /\ i \in 0 .. n
    BY <1>1
  <2>2. /\ l \in Seq(S) /\ ToSet(l) = {s[j] : j \in 1 .. i - 1} \intersect T
        /\ Distinct(s) => Distinct(l)
    BY <1>a, <1>4, <2>1
  <2>6. k[i] = IF s[i] \in T THEN Append(l, s[i]) ELSE l
    BY <1>2
  <2> HIDE DEF l
  <2>3. {s[j] : j \in 1 .. i} = {s[j] : j \in 1 .. i - 1} \union {s[i]}
    BY <1>1
  <2>4. ASSUME s[i] \in T
        PROVE k[i] \in Seq(S) /\ ToSet(k[i]) = {s[j] : j \in 1 .. i} \intersect T /\ (Distinct(s) => Distinct(k[i]))
    <3> DEFINE m == Append(l, s[i])
    <3>1. /\ k[i] = m /\ m \in Seq(S) /\ Len(m) = Len(l) + 1 /\ Len(l) \in Nat
          /\ DOMAIN m = 1 .. Len(l) + 1 /\ DOMAIN l = 1 .. Len(l)
          /\ \A j \in 1 .. Len(l) : m[j] = l[j]
          /\ m[Len(l) + 1] = s[i]
      <4>1. k[i] = m
        BY <2>6, <2>4
      <4>2. s[i] \in S
        BY <1>1
      <4> QED BY <2>2, <4>1, <4>2
    <3> HIDE DEF m
    <3>2. ToSet(m) = ToSet(l) \union {s[i]}
      BY <3>1 DEF ToSet
    <3>3. Distinct(s) => Distinct(m)
      <4> SUFFICES ASSUME Distinct(s) PROVE Distinct(m)
        OBVIOUS
      <4>1. s[i] \notin ToSet(l)
        BY <1>1, <2>2 DEF Distinct
      <4>2. Distinct(l) /\ \A j \in DOMAIN l : l[j] # s[i]
        BY <2>2, <4>1 DEF ToSet
      <4> QED BY <3>1, <4>2 DEF Distinct
    <3>4. ToSet(m) = {s[j] : j \in 1 .. i} \intersect T
      BY <2>2, <2>3, <2>4, <3>2
    <3> QED BY <3>1, <3>3, <3>4
  <2>5. ASSUME s[i] \notin T
        PROVE k[i] \in Seq(S) /\ ToSet(k[i]) = {s[j] : j \in 1 .. i} \intersect T /\ (Distinct(s) => Distinct(k[i]))
    <3>1. k[i] = l
      BY <2>6, <2>5
    <3>2. ToSet(l) = {s[j] : j \in 1 .. i} \intersect T
      BY <2>2, <2>3, <2>5
    <3> QED BY <2>2, <3>1, <3>2
  <2>7. k[i] \in Seq(S) /\ SelectedSo(s, T, i)
    BY <1>a, <2>1, <2>4, <2>5
  <2> QED BY <2>1, <2>7
<1>5. \A i \in 0 .. n : i \in X
  <2>1. n \in Nat
    BY <1>1
  <2>2. \A i \in 1 .. n : i - 1 \in X => i \in X
    BY <1>4
  <2> HIDE DEF X, n
  <2> QED BY <2>1, <2>2, <1>3, RangeInduction
<1>6. n \in 0 .. n
  BY <1>1
<1>7. k[n] \in Seq(S) /\ ToSet(k[n]) = {s[j] : j \in 1 .. n} \intersect T /\ (Distinct(s) => Distinct(k[n]))
  BY <1>a, <1>5, <1>6
<1>8. {s[j] : j \in 1 .. n} = ToSet(s)
  BY <1>1 DEF ToSet
<1>9. Only(s, T) = k[n]
  BY OnlyIsKept DEF k
<1> QED BY <1>7, <1>8, <1>9
-----------------------------------------------------------------------------
(* Sequences without repetition. *)

\* As long as its elements are many.
LEMMA DistinctCount ==
  ASSUME NEW S, NEW s \in Seq(S), Distinct(s)
  PROVE  IsFiniteSet(ToSet(s)) /\ Cardinality(ToSet(s)) = Len(s)
<1>1. Len(s) \in Nat /\ DOMAIN s = 1 .. Len(s) /\ ToSet(s) = {s[i] : i \in 1 .. Len(s)}
  BY DEF ToSet
<1>2. s \in Bijection(1 .. Len(s), ToSet(s))
  <2>1. s \in [1 .. Len(s) -> ToSet(s)]
    BY <1>1
  <2>2. \A i, j \in 1 .. Len(s) : s[i] = s[j] => i = j
    BY <1>1 DEF Distinct
  <2>3. \A y \in ToSet(s) : \E i \in 1 .. Len(s) : s[i] = y
    BY <1>1
  <2> QED BY <2>1, <2>2, <2>3, Fun_IsBij
<1>3. ExistsBijection(1 .. Len(s), ToSet(s))
  BY <1>2, Fun_ExistsBij
<1>4. IsFiniteSet(1 .. Len(s)) /\ Cardinality(1 .. Len(s)) = Len(s)
  BY <1>1, FS_Interval
<1> QED BY <1>3, <1>4, FS_Bijection

\* Cut at one of its places.
LEMMA Cut ==
  ASSUME NEW S, NEW s \in Seq(S), NEW i \in 1 .. Len(s)
  PROVE  /\ SubSeq(s, 1, i - 1) \in Seq(S) /\ Len(SubSeq(s, 1, i - 1)) = i - 1
         /\ SubSeq(s, i + 1, Len(s)) \in Seq(S) /\ Len(SubSeq(s, i + 1, Len(s))) = Len(s) - i
         /\ ToSet(s) = ToSet(SubSeq(s, 1, i - 1)) \union {s[i]} \union ToSet(SubSeq(s, i + 1, Len(s)))
         /\ Distinct(s) =>
              /\ Distinct(SubSeq(s, 1, i - 1)) /\ Distinct(SubSeq(s, i + 1, Len(s)))
              /\ s[i] \notin ToSet(SubSeq(s, 1, i - 1)) \union ToSet(SubSeq(s, i + 1, Len(s)))
              /\ ToSet(SubSeq(s, 1, i - 1)) \intersect ToSet(SubSeq(s, i + 1, Len(s))) = {}
<1> DEFINE f == SubSeq(s, 1, i - 1)
           b == SubSeq(s, i + 1, Len(s))
           n == Len(s)
<1>1. n \in Nat /\ DOMAIN s = 1 .. n /\ \A j \in 1 .. n : s[j] \in S
  OBVIOUS
<1>2. f \in Seq(S) /\ Len(f) = i - 1 /\ DOMAIN f = 1 .. i - 1 /\ \A j \in 1 .. i - 1 : f[j] = s[j]
  OBVIOUS
<1>3. b \in Seq(S) /\ Len(b) = n - i /\ DOMAIN b = 1 .. n - i /\ \A j \in 1 .. n - i : b[j] = s[i + j]
  OBVIOUS
<1> HIDE DEF f, b, n
<1>4. ToSet(f) = {s[j] : j \in 1 .. i - 1}
  BY <1>2 DEF ToSet
<1>5. ToSet(b) = {s[j] : j \in i + 1 .. n}
  <2>1. \A j \in i + 1 .. n : j - i \in 1 .. n - i /\ b[j - i] = s[j]
    BY <1>1, <1>3
  <2>2. \A j \in 1 .. n - i : i + j \in i + 1 .. n
    BY <1>1
  <2>3. ToSet(b) = {b[j] : j \in 1 .. n - i}
    BY <1>3 DEF ToSet
  <2>4. ASSUME NEW j \in 1 .. n - i PROVE b[j] \in {s[k] : k \in i + 1 .. n}
    <3>1. i + j \in i + 1 .. n /\ b[j] = s[i + j]
      BY <1>3, <2>2
    <3> QED BY <3>1
  <2>5. ASSUME NEW k \in i + 1 .. n PROVE s[k] \in {b[j] : j \in 1 .. n - i}
    <3>1. k - i \in 1 .. n - i /\ b[k - i] = s[k]
      BY <2>1
    <3> QED BY <3>1
  <2> QED BY <2>3, <2>4, <2>5
<1>6. ToSet(s) = ToSet(f) \union {s[i]} \union ToSet(b)
  <2>1. \A j \in 1 .. n : j \in 1 .. i - 1 \/ j = i \/ j \in i + 1 .. n
    BY <1>1
  <2>2. i \in 1 .. n /\ 1 .. i - 1 \subseteq 1 .. n /\ i + 1 .. n \subseteq 1 .. n
    BY <1>1 DEF n
  <2> QED BY <1>1, <1>4, <1>5, <2>1, <2>2 DEF ToSet
<1>7. ASSUME Distinct(s)
      PROVE  /\ Distinct(f) /\ Distinct(b) /\ s[i] \notin ToSet(f) \union ToSet(b)
             /\ ToSet(f) \intersect ToSet(b) = {}
  <2>1. \A j, k \in 1 .. n : s[j] = s[k] => j = k
    BY <1>1, <1>7 DEF Distinct
  <2>2. i \in 1 .. n /\ 1 .. i - 1 \subseteq 1 .. n /\ i + 1 .. n \subseteq 1 .. n
    BY <1>1 DEF n
  <2>3. Distinct(f)
    BY <1>2, <2>1, <2>2 DEF Distinct
  <2>4. Distinct(b)
    <3> SUFFICES ASSUME NEW j \in 1 .. n - i, NEW k \in 1 .. n - i, b[j] = b[k] PROVE j = k
      BY <1>3 DEF Distinct
    <3>1. i + j \in 1 .. n /\ i + k \in 1 .. n /\ s[i + j] = s[i + k]
      BY <1>1, <1>3, <2>2
    <3>2. i + j = i + k
      BY <2>1, <3>1
    <3> QED BY <3>2, <2>2
  <2>5. s[i] \notin ToSet(f) \union ToSet(b)
    <3>1. \A j \in 1 .. i - 1 : s[j] # s[i]
      BY <2>1, <2>2
    <3>2. \A j \in i + 1 .. n : s[j] # s[i]
      BY <2>1, <2>2
    <3> QED BY <1>4, <1>5, <3>1, <3>2
  <2>6. ToSet(f) \intersect ToSet(b) = {}
    <3>1. \A j \in 1 .. i - 1 : \A k \in i + 1 .. n : s[j] # s[k]
      BY <2>1, <2>2
    <3> QED BY <1>4, <1>5, <3>1
  <2> QED BY <2>3, <2>4, <2>5, <2>6
<1> QED BY <1>2, <1>3, <1>6, <1>7 DEF f, b, n

\* Its first element taken off.
LEMMA HeadOff ==
  ASSUME NEW S, NEW s \in Seq(S), s # <<>>
  PROVE  /\ Head(s) \in S /\ Tail(s) \in Seq(S) /\ Len(Tail(s)) = Len(s) - 1 /\ Len(s) > 0
         /\ ToSet(s) = {Head(s)} \union ToSet(Tail(s))
         /\ Distinct(s) => Distinct(Tail(s)) /\ Head(s) \notin ToSet(Tail(s))
<1> DEFINE i == 1
<1>1. i \in 1 .. Len(s) /\ Len(s) \in Nat
  OBVIOUS
<1>2. Head(s) = s[i] /\ Tail(s) = SubSeq(s, i + 1, Len(s)) /\ s[i] \in S
  OBVIOUS
<1>3. ToSet(SubSeq(s, 1, i - 1)) = {}
  BY DEF ToSet
<1>4. Len(s) - i = Len(s) - 1 /\ Len(s) > 0
  BY <1>1
<1> HIDE DEF i
<1>5. /\ SubSeq(s, i + 1, Len(s)) \in Seq(S) /\ Len(SubSeq(s, i + 1, Len(s))) = Len(s) - i
      /\ ToSet(s) = ToSet(SubSeq(s, 1, i - 1)) \union {s[i]} \union ToSet(SubSeq(s, i + 1, Len(s)))
      /\ Distinct(s) =>
           /\ Distinct(SubSeq(s, i + 1, Len(s)))
           /\ s[i] \notin ToSet(SubSeq(s, 1, i - 1)) \union ToSet(SubSeq(s, i + 1, Len(s)))
  BY <1>1, Cut
<1> DEFINE f == SubSeq(s, 1, i - 1)
           b == SubSeq(s, i + 1, Len(s))
<1>6. /\ Tail(s) = b /\ b \in Seq(S) /\ Len(b) = Len(s) - i /\ ToSet(f) = {}
      /\ ToSet(s) = ToSet(f) \union {s[i]} \union ToSet(b)
      /\ Distinct(s) => Distinct(b) /\ s[i] \notin ToSet(f) \union ToSet(b)
  BY <1>2, <1>3, <1>5
<1> HIDE DEF f, b
<1> QED BY <1>2, <1>4, <1>6

-----------------------------------------------------------------------------
(* Host clocks. *)

\* The assumption on the constants of the frontier, its parts.
LEMMA Bounds ==
  /\ Delay \in Nat \ {0} /\ BatchSize \in Nat \ {0} /\ MergeSize \in Nat \ {0}
  /\ ClaimSize \in Nat \ {0} /\ SyncEvery \in Nat \ {0} /\ SeenURLs \in Nat \ {0}
  /\ HotHosts \in Nat \ {0} /\ IsFiniteSet(Urls) /\ HostOf \in [Urls -> Hosts]
  /\ Rank \in [Urls -> Nat] /\ None \notin Urls /\ None \notin Nat
BY FrontierAssumption

\* A clock has one value, wherever it is: what is cached is what is buffered or written.
ClocksTyped ==
  /\ lru \in Seq(Hosts) /\ Len(lru) <= HotHosts /\ DOMAIN hot = ToSet(lru)
  /\ hostRow \in [Hosts -> Nat] /\ dirty \in [Hosts -> Nat \union {None}]
  /\ slot \in [Hosts -> Urls \union {None}]
  /\ \A h \in DOMAIN hot : hot[h] = WrittenHosts[h]

\* What a reader of a host's clock gets, cached or not, is the value that counts.
LEMMA ClockRead ==
  ASSUME ClocksTyped
  PROVE  /\ WrittenHosts \in [Hosts -> Nat]
         /\ \A h \in Hosts : hostNextAt(h) = WrittenHosts[h]
<1>1. \A h \in Hosts : WrittenHosts[h] = IF dirty[h] # None THEN dirty[h] ELSE hostRow[h]
  BY DEF WrittenHosts
<1>2. WrittenHosts \in [Hosts -> Nat]
  BY DEF ClocksTyped, WrittenHosts
<1>3. ASSUME NEW h \in Hosts PROVE hostNextAt(h) = WrittenHosts[h]
  <2>1. CASE h \in DOMAIN hot
    BY <2>1 DEF ClocksTyped, hostNextAt
  <2>2. CASE h \notin DOMAIN hot
    BY <1>1, <2>2 DEF hostNextAt
  <2> QED BY <2>1, <2>2
<1> QED BY <1>2, <1>3

\* A host put in front of the cached ones: the list keeps its length, the oldest falls out.
LEMMA CachedList ==
  ASSUME NEW list \in Seq(Hosts), NEW h \in Hosts
  PROVE  cacheHost(list, h) \in Seq(Hosts) /\ Len(cacheHost(list, h)) <= HotHosts
<1> DEFINE rest == Only(list, Hosts \ {h})
           front == <<h>> \o rest
           m == Min({Len(front), HotHosts})
<1>1. rest \in Seq(Hosts)
  BY Selection
<1> HIDE DEF rest
<1>2. front \in Seq(Hosts) /\ Len(front) \in Nat
  BY <1>1
<1> HIDE DEF front
<1>3. m \in Nat /\ m <= HotHosts /\ m <= Len(front)
  <2> DEFINE a == Len(front)
  <2>1. HotHosts \in Nat /\ HotHosts \in Int /\ a \in Nat /\ a \in Int
    BY <1>2, Bounds
  <2> HIDE DEF a
  <2>2. Min({a, HotHosts}) \in {a, HotHosts} /\ Min({a, HotHosts}) <= a /\ Min({a, HotHosts}) <= HotHosts
    BY <2>1, LeastOfTwo
  <2>3. m = Min({a, HotHosts})
    BY DEF a
  <2> QED BY <2>1, <2>2, <2>3 DEF a
<1> HIDE DEF m
<1>4. SubSeq(front, 1, m) \in Seq(Hosts) /\ Len(SubSeq(front, 1, m)) = m
  BY <1>2, <1>3
<1>5. cacheHost(list, h) = SubSeq(front, 1, m)
  BY Zenon DEF cacheHost, front, m, rest
<1> QED BY <1>3, <1>4, <1>5

\* The walk over a sequence of URLs.
Turns(urls) ==
  CHOOSE turn : turn = [n \in 0 .. Len(urls) |->
    IF n = 0 THEN lru ELSE cacheHost(turn[n - 1], HostOf[urls[n]])]

\* Touched is what its last step of recursion gives.
LEMMA TouchedIsTurn == ASSUME NEW urls PROVE Touched(urls) = Turns(urls)[Len(urls)]
BY Zenon DEF Touched, Turns

\* The list of cached hosts stays one of so many hosts, whatever is walked over.
LEMMA TouchedList ==
  ASSUME ClocksTyped, NEW urls \in Seq(Urls)
  PROVE  Touched(urls) \in Seq(Hosts) /\ Len(Touched(urls)) <= HotHosts
<1> DEFINE n == Len(urls)
           Lists == {s \in Seq(Hosts) : Len(s) <= HotHosts}
           step == [i \in 1 .. n |-> [l \in Lists |-> cacheHost(l, HostOf[urls[i]])]]
<1>1. n \in Nat /\ \A i \in 1 .. n : HostOf[urls[i]] \in Hosts
  BY Bounds
<1>2. lru \in Lists
  BY DEF ClocksTyped
<1>3. step \in [1 .. n -> [Lists -> Lists]]
  <2>1. \A i \in 1 .. n : \A l \in Lists : cacheHost(l, HostOf[urls[i]]) \in Lists
    BY <1>1, CachedList
  <2> HIDE DEF Lists
  <2> QED BY <2>1
<1>4. \A i \in 1 .. n : \A l \in Lists : step[i][l] = cacheHost(l, HostOf[urls[i]])
  OBVIOUS
<1> HIDE DEF step, Lists
<1>5. PICK f \in [0 .. n -> Lists] : f[0] = lru /\ \A i \in 1 .. n : f[i] = step[i][f[i - 1]]
  <2> DEFINE e == lru
  <2>1. n \in Nat /\ e \in Lists
    BY <1>1, <1>2
  <2> HIDE DEF n, e
  <2>2. \E f \in [0 .. n -> Lists] : f[0] = e /\ \A i \in 1 .. n : f[i] = step[i][f[i - 1]]
    BY <1>3, <2>1, RangeRecursion
  <2> QED BY <2>2 DEF e
<1>6. \A i \in 0 .. n : f[i] = IF i = 0 THEN lru ELSE cacheHost(f[i - 1], HostOf[urls[i]])
  <2> SUFFICES ASSUME NEW i \in 1 .. n PROVE f[i] = cacheHost(f[i - 1], HostOf[urls[i]])
    BY <1>1, <1>5
  <2>1. f[i - 1] \in Lists
    BY <1>1, <1>5
  <2>2. f[i] = step[i][f[i - 1]]
    BY <1>5
  <2> QED BY <1>4, <2>1, <2>2, Zenon
<1> DEFINE F == [i \in 0 .. n |-> IF i = 0 THEN lru ELSE cacheHost(f[i - 1], HostOf[urls[i]])]
<1>7. f = F
  BY <1>5, <1>6
<1>8. Turns(urls) = [i \in 0 .. n |-> IF i = 0 THEN lru ELSE cacheHost(Turns(urls)[i - 1], HostOf[urls[i]])]
  BY <1>7, Zenon DEF Turns
<1>9. Turns(urls)[n] \in Lists
  <2> DEFINE g == Turns(urls)
             X == {i \in 0 .. n : g[i] \in Lists}
  <2>1. \A i \in 0 .. n : g[i] = IF i = 0 THEN lru ELSE cacheHost(g[i - 1], HostOf[urls[i]])
    BY <1>8, Zenon
  <2> HIDE DEF g
  <2>2. 0 \in X
    BY <1>1, <1>2, <2>1
  <2>3. ASSUME NEW i \in 1 .. n, i - 1 \in X PROVE i \in X
    <3>1. g[i] = cacheHost(g[i - 1], HostOf[urls[i]])
      BY <1>1, <2>1
    <3>2. g[i - 1] \in Lists
      BY <2>3
    <3>3. step[i][g[i - 1]] \in Lists
      BY <1>3, <3>2
    <3>4. g[i] \in Lists
      BY <1>4, <3>1, <3>2, <3>3
    <3> QED BY <1>1, <3>4
  <2>4. \A i \in 0 .. n : i \in X
    <3>1. \A i \in 1 .. n : i - 1 \in X => i \in X
      BY <2>3
    <3> HIDE DEF X, n
    <3> QED BY <1>1, <2>2, <3>1, RangeInduction
  <2>5. n \in X
    BY <1>1, <2>4
  <2> QED BY <2>5 DEF g
<1> QED BY <1>9, TouchedIsTurn DEF Lists

\* A host's clock is set, and the others stand.
LEMMA ClockSet ==
  ASSUME ClocksTyped, NEW h \in Hosts, NEW t \in Nat, NEW list \in Seq(Hosts),
         NEW written \in [Hosts -> Nat \union {None}], NEW owner \in Urls \union {None},
         setHostNextAt(h, t, list, written, owner), hostRow' \in [Hosts -> Nat],
         \A g \in Hosts : (IF written[g] # None THEN written[g] ELSE hostRow'[g]) = WrittenHosts[g]
  PROVE  /\ ClocksTyped' /\ WrittenHosts' = [WrittenHosts EXCEPT ![h] = t]
         /\ slot' = [slot EXCEPT ![h] = owner]
<1>1. /\ lru' = cacheHost(list, h)
      /\ hot' = [g \in ToSet(lru') |-> IF g = h THEN t ELSE hostNextAt(g)]
      /\ dirty' = [written EXCEPT ![h] = t] /\ slot' = [slot EXCEPT ![h] = owner]
  BY DEF setHostNextAt
<1>2. lru' \in Seq(Hosts) /\ Len(lru') <= HotHosts
  BY <1>1, CachedList
<1>3. ToSet(lru') \subseteq Hosts
  BY <1>2 DEF ToSet
<1>4. dirty' \in [Hosts -> Nat \union {None}] /\ slot' \in [Hosts -> Urls \union {None}]
  BY <1>1 DEF ClocksTyped
<1>5. t # None
  BY Bounds
<1>6. WrittenHosts' = [g \in Hosts |-> IF dirty'[g] # None THEN dirty'[g] ELSE hostRow'[g]]
  BY DEF WrittenHosts
<1>7. \A g \in Hosts : WrittenHosts'[g] = IF g = h THEN t ELSE WrittenHosts[g]
  BY <1>1, <1>5, <1>6
<1>8. WrittenHosts \in [Hosts -> Nat] /\ \A g \in Hosts : hostNextAt(g) = WrittenHosts[g]
  BY ClockRead
<1>9. WrittenHosts' = [WrittenHosts EXCEPT ![h] = t]
  <2>1. WrittenHosts' = [g \in Hosts |-> WrittenHosts'[g]]
    BY <1>6
  <2>2. [WrittenHosts EXCEPT ![h] = t] = [g \in Hosts |-> IF g = h THEN t ELSE WrittenHosts[g]]
    BY <1>8
  <2> QED BY <1>7, <2>1, <2>2
<1>10. DOMAIN hot' = ToSet(lru') /\ \A g \in DOMAIN hot' : hot'[g] = WrittenHosts'[g]
  BY <1>1, <1>3, <1>7, <1>8
<1> QED BY <1>1, <1>2, <1>4, <1>9, <1>10 DEF ClocksTyped

\* The clocks that a walk read are cached, and all of them written.
LEMMA ClocksCached ==
  ASSUME ClocksTyped, NEW list \in Seq(Hosts), Len(list) <= HotHosts, CacheTo(list),
         dirty' = NoClocks, hostRow' = WrittenHosts, slot' = slot
  PROVE  ClocksTyped' /\ WrittenHosts' = WrittenHosts
<1>1. lru' = list /\ hot' = [g \in ToSet(list) |-> hostNextAt(g)]
  BY DEF CacheTo
<1>2. ToSet(list) \subseteq Hosts
  BY DEF ToSet
<1>3. WrittenHosts \in [Hosts -> Nat] /\ \A g \in Hosts : hostNextAt(g) = WrittenHosts[g]
  BY ClockRead
<1>4. \A g \in Hosts : dirty'[g] = None
  BY DEF NoClocks
<1>5. WrittenHosts' = [g \in Hosts |-> IF dirty'[g] # None THEN dirty'[g] ELSE hostRow'[g]]
  BY DEF WrittenHosts
<1>6. WrittenHosts' = WrittenHosts
  BY <1>3, <1>4, <1>5
<1>7. DOMAIN hot' = ToSet(lru') /\ \A g \in DOMAIN hot' : hot'[g] = WrittenHosts[g]
  BY <1>1, <1>2, <1>3
<1>8. dirty' \in [Hosts -> Nat \union {None}] /\ hostRow' \in [Hosts -> Nat]
  BY <1>3 DEF NoClocks
<1> QED BY <1>1, <1>6, <1>7, <1>8 DEF ClocksTyped

\* The clocks of a process that is new.
LEMMA ClocksNew ==
  ASSUME lru' = <<>>, hot' = <<>>, dirty' = NoClocks, slot' = NoClocks,
         hostRow' \in [Hosts -> Nat]
  PROVE  ClocksTyped' /\ WrittenHosts' = hostRow'
<1>1. \A g \in Hosts : dirty'[g] = None /\ slot'[g] = None
  BY DEF NoClocks
<1>2. WrittenHosts' = [g \in Hosts |-> IF dirty'[g] # None THEN dirty'[g] ELSE hostRow'[g]]
  BY DEF WrittenHosts
<1>3. WrittenHosts' = hostRow'
  BY <1>1, <1>2
<1>4. DOMAIN hot' = {} /\ ToSet(lru') = {} /\ lru' \in Seq(Hosts) /\ Len(lru') = 0
  BY DEF ToSet
<1>5. dirty' \in [Hosts -> Nat \union {None}] /\ slot' \in [Hosts -> Urls \union {None}]
  BY DEF NoClocks
<1> QED BY <1>3, <1>4, <1>5, Bounds DEF ClocksTyped

\* A clock that is brought forward is one less, and never below zero.
LEMMA LessTyped ==
  ASSUME NEW n \in Nat \union {None}
  PROVE  /\ Less(n) \in Nat \union {None} /\ (Less(n) = None <=> n = None)
         /\ n \in Nat => Less(n) \in Nat /\ Less(n) >= n - 1
BY Bounds DEF Less

\* A tick brings every clock forward, wherever it is.
LEMMA ClocksTick ==
  ASSUME ClocksTyped, FrontierTick
  PROVE  /\ ClocksTyped' /\ WrittenHosts' \in [Hosts -> Nat]
         /\ \A h \in Hosts : WrittenHosts'[h] >= WrittenHosts[h] - 1
<1>1. /\ hostRow' = [h \in Hosts |-> Less(hostRow[h])]
      /\ hot' = [h \in DOMAIN hot |-> Less(hot[h])]
      /\ dirty' = [h \in Hosts |-> Less(dirty[h])]
      /\ lru' = lru /\ slot' = slot
  BY DEF FrontierTick
<1>2. WrittenHosts' = [g \in Hosts |-> IF dirty'[g] # None THEN dirty'[g] ELSE hostRow'[g]]
  BY DEF WrittenHosts
<1>3. \A h \in Hosts : dirty[h] \in Nat \union {None} /\ hostRow[h] \in Nat
  BY DEF ClocksTyped
<1>4. \A h \in Hosts : dirty'[h] \in Nat \union {None} /\ hostRow'[h] \in Nat
  BY <1>1, <1>3, LessTyped
<1>5. \A h \in Hosts : WrittenHosts[h] = IF dirty[h] # None THEN dirty[h] ELSE hostRow[h]
  BY DEF WrittenHosts
<1>6. ASSUME NEW h \in Hosts PROVE WrittenHosts'[h] = Less(WrittenHosts[h])
  <2>1. dirty'[h] = None <=> dirty[h] = None
    BY <1>1, <1>3, LessTyped
  <2>2. dirty'[h] = Less(dirty[h]) /\ hostRow'[h] = Less(hostRow[h])
    BY <1>1
  <2>3. CASE dirty[h] = None
    BY <1>2, <1>5, <2>1, <2>2, <2>3
  <2>4. CASE dirty[h] # None
    BY <1>2, <1>5, <2>1, <2>2, <2>4
  <2> QED BY <2>3, <2>4
<1>7. WrittenHosts \in [Hosts -> Nat]
  BY ClockRead
<1>8. \A h \in Hosts : Less(WrittenHosts[h]) \in Nat /\ Less(WrittenHosts[h]) >= WrittenHosts[h] - 1
  BY <1>7, LessTyped
<1>9. WrittenHosts' \in [Hosts -> Nat]
  BY <1>2, <1>6, <1>8
<1>10. DOMAIN hot \subseteq Hosts /\ \A h \in DOMAIN hot : hot[h] = WrittenHosts[h]
  BY DEF ClocksTyped, ToSet
<1>11. DOMAIN hot' = DOMAIN hot /\ \A h \in DOMAIN hot' : hot'[h] = WrittenHosts'[h]
  BY <1>1, <1>6, <1>10
<1>12. hostRow' \in [Hosts -> Nat] /\ dirty' \in [Hosts -> Nat \union {None}]
  BY <1>1, <1>4
<1> QED BY <1>1, <1>6, <1>8, <1>9, <1>11, <1>12 DEF ClocksTyped

-----------------------------------------------------------------------------
(* The tables and the queues. *)

\* The states of a row.
States == {"absent", "pending", "claimed", "done", "failed"}

\* What they may be.
QueuesTyped ==
  /\ row \in [Urls -> States]
  /\ nextAt \in [Urls -> Nat] /\ tries \in [Urls -> Nat]
  /\ stage \in [Urls -> Nat] /\ pending \in [Urls -> Nat]
  /\ seen \in [hot : SUBSET Urls, cold : SUBSET Urls]
  /\ ready \in Seq(Urls) /\ idle \in BOOLEAN
  /\ DOMAIN deferred \subseteq Urls /\ \A u \in DOMAIN deferred : deferred[u] \in Nat
  /\ DOMAIN finished \subseteq Urls
  /\ \A u \in DOMAIN finished : finished[u] \in {"done", "failed"}

\* Every claimed row that is in a buffer or in hands is in one of these only, and claimed on
\* disk; held is what is in hands.
QueuesApart(held) ==
  /\ Distinct(ready)
  /\ \A u \in ToSet(ready) \union DOMAIN deferred \union DOMAIN finished \union held :
       row[u] = "claimed"
  /\ ToSet(ready) \intersect DOMAIN deferred = {}
  /\ (ToSet(ready) \union DOMAIN deferred) \intersect DOMAIN finished = {}
  /\ (ToSet(ready) \union DOMAIN deferred \union DOMAIN finished) \intersect held = {}

\* The URLs whose row is pending.
PendingIn(rows) == {u \in Urls : rows[u] = "pending"}

\* The counter counts what is pending, in the claim buffer or put back for later.
Counted == queued = Cardinality(PendingIn(row)) + Len(ready) + Cardinality(DOMAIN deferred)

\* A row that is settled, or will be when the completions are written.
Settled(u) == row[u] \in {"done", "failed"} \/ u \in DOMAIN finished
DoneBy(u) == row[u] = "done" \/ (u \in DOMAIN finished /\ finished[u] = "done")

\* What a step does to rows: what is settled on disk stays, and nothing is done but what
\* was, or is of the fresh ones.
RowsGoOn(fresh) ==
  /\ \A u \in Urls : row[u] \in {"done", "failed"} => row'[u] = row[u]
  /\ \A u \in Urls : DoneBy(u)' => DoneBy(u) \/ u \in fresh
\* What is settled, or known, stays so.
StillSettled == \A u \in Urls : Settled(u) => Settled(u)'
StillKnown == \A u \in Urls : Known(u) => Known(u)'

\* Every set of URLs is finite.
LEMMA PartCount ==
  ASSUME NEW A \in SUBSET Urls
  PROVE  IsFiniteSet(A) /\ Cardinality(A) \in Nat
BY Bounds, FS_Subset, FS_CardinalityType

\* The counter is a number, and above zero while the claim buffer has something.
LEMMA CountedType ==
  ASSUME QueuesTyped, Counted
  PROVE  queued \in Nat /\ (ready # <<>> => queued > 0)
<1>1. PendingIn(row) \in SUBSET Urls /\ DOMAIN deferred \in SUBSET Urls
  BY DEF PendingIn, QueuesTyped
<1>2. Cardinality(PendingIn(row)) \in Nat /\ Cardinality(DOMAIN deferred) \in Nat
  BY <1>1, PartCount
<1>3. Len(ready) \in Nat /\ (ready # <<>> => Len(ready) > 0)
  BY DEF QueuesTyped
<1> QED BY <1>2, <1>3 DEF Counted

\* As many as in its two disjoint parts.
LEMMA TwoParts ==
  ASSUME NEW A \in SUBSET Urls, NEW B \in SUBSET Urls, A \intersect B = {}
  PROVE  Cardinality(A \union B) = Cardinality(A) + Cardinality(B)
<1>1. Cardinality(A \union B) = Cardinality(A) + Cardinality(B) - Cardinality(A \intersect B)
  BY PartCount, FS_Union
<1>2. Cardinality(A \intersect B) = 0
  BY FS_EmptySet
<1>3. Cardinality(A) \in Nat /\ Cardinality(B) \in Nat
  BY PartCount
<1> QED BY <1>1, <1>2, <1>3

\* A merge makes pending rows of what has none, and counts them.
LEMMA Merged ==
  ASSUME NEW rows \in [Urls -> States], NEW staged \in [Urls -> Nat]
  PROVE  /\ MergedRows(rows, staged) \in [Urls -> States]
         /\ \A u \in Urls : rows[u] # "absent" => MergedRows(rows, staged)[u] = rows[u]
         /\ \A u \in Urls : MergedRows(rows, staged)[u] # rows[u] => MergedRows(rows, staged)[u] = "pending"
         /\ \A u \in Urls : staged[u] > 0 => MergedRows(rows, staged)[u] # "absent"
         /\ Cardinality(PendingIn(MergedRows(rows, staged)))
              = Cardinality(PendingIn(rows)) + Admitted(rows, staged)
         /\ Admitted(rows, staged) \in Nat
<1> DEFINE new == {u \in Urls : staged[u] > 0 /\ rows[u] = "absent"}
           merged == MergedRows(rows, staged)
<1>1. merged = [u \in Urls |-> IF staged[u] > 0 /\ rows[u] = "absent" THEN "pending" ELSE rows[u]]
  BY DEF MergedRows
<1>2. \A u \in Urls : merged[u] = IF staged[u] > 0 /\ rows[u] = "absent" THEN "pending" ELSE rows[u]
  BY <1>1
<1> HIDE DEF merged
<1>3. merged \in [Urls -> States]
  BY <1>1 DEF States
<1>4. PendingIn(merged) = PendingIn(rows) \union new
  BY <1>2 DEF PendingIn
<1>5. PendingIn(rows) \in SUBSET Urls /\ new \in SUBSET Urls /\ PendingIn(rows) \intersect new = {}
  BY DEF PendingIn
<1>6. Admitted(rows, staged) = Cardinality(new)
  BY DEF Admitted
<1> HIDE DEF new
<1>7. Cardinality(PendingIn(merged)) = Cardinality(PendingIn(rows)) + Cardinality(new)
  BY <1>4, <1>5, TwoParts
<1>8. Cardinality(new) \in Nat
  BY <1>5, PartCount
<1>9. /\ \A u \in Urls : rows[u] # "absent" => merged[u] = rows[u]
      /\ \A u \in Urls : merged[u] # rows[u] => merged[u] = "pending"
      /\ \A u \in Urls : staged[u] > 0 => merged[u] # "absent"
  BY <1>2
<1> QED BY <1>3, <1>6, <1>7, <1>8, <1>9 DEF merged

\* A step that admits, and touches nothing that is claimed.
LEMMA MergeKeeps ==
  ASSUME QueuesTyped, NEW H, H \subseteq Urls, QueuesApart(H),
         \/ UNCHANGED <<row, queued>>
         \/ \E staged \in [Urls -> Nat] :
              row' = MergedRows(row, staged) /\ queued' = queued + Admitted(row, staged),
         UNCHANGED <<ready, deferred, finished>>
  PROVE  /\ row' \in [Urls -> States] /\ QueuesApart(H)'
         /\ Counted => Counted'
         /\ RowsGoOn({}) /\ StillSettled
         /\ \A u \in Urls : row[u] # "absent" => row'[u] # "absent"
<1>1. CASE UNCHANGED <<row, queued>>
  BY <1>1 DEF QueuesTyped, QueuesApart, Counted, RowsGoOn, DoneBy, StillSettled, Settled
<1>2. CASE \E staged \in [Urls -> Nat] :
              row' = MergedRows(row, staged) /\ queued' = queued + Admitted(row, staged)
  <2>1. PICK staged \in [Urls -> Nat] :
              row' = MergedRows(row, staged) /\ queued' = queued + Admitted(row, staged)
    BY <1>2
  <2>2. row \in [Urls -> States] /\ ToSet(ready) \subseteq Urls /\ DOMAIN deferred \subseteq Urls
        /\ DOMAIN finished \subseteq Urls /\ Len(ready) \in Nat
    BY DEF QueuesTyped, ToSet
  <2>3. /\ row' \in [Urls -> States]
        /\ \A u \in Urls : row[u] # "absent" => row'[u] = row[u]
        /\ \A u \in Urls : row'[u] # row[u] => row'[u] = "pending"
        /\ Cardinality(PendingIn(row')) = Cardinality(PendingIn(row)) + Admitted(row, staged)
        /\ Admitted(row, staged) \in Nat
    BY <2>1, <2>2, Merged
  <2>4. QueuesApart(H)'
    BY <2>2, <2>3 DEF QueuesApart
  <2>5. Counted => Counted'
    <3>1. PendingIn(row) \in SUBSET Urls /\ DOMAIN deferred \in SUBSET Urls
      BY <2>2 DEF PendingIn
    <3>2. Cardinality(PendingIn(row)) \in Nat /\ Cardinality(DOMAIN deferred) \in Nat
      BY <3>1, PartCount
    <3> QED BY <2>1, <2>2, <2>3, <3>2 DEF Counted
  <2>6. RowsGoOn({})
    BY <2>3 DEF RowsGoOn, DoneBy
  <2>7. StillSettled
    BY <2>3 DEF StillSettled, Settled
  <2> QED BY <2>3, <2>4, <2>5, <2>6, <2>7
<1> QED BY <1>1, <1>2

\* A flush merges what is staged and pending, and settles or forgets nothing.
LEMMA FlushKeeps ==
  ASSUME QueuesTyped, NEW H, H \subseteq Urls, QueuesApart(H), Flush
  PROVE  /\ QueuesTyped' /\ QueuesApart(H)' /\ (Counted => Counted')
         /\ RowsGoOn({}) /\ StillSettled /\ StillKnown /\ UNCHANGED <<hostRow, clocks, seen>>
<1>1. /\ pending' = NoRows /\ stage' = NoRows
      /\ row' = MergedRows(row, Staged) /\ queued' = queued + Admitted(row, Staged)
      /\ UNCHANGED <<nextAt, tries, hostRow, seen, ready, deferred, finished, clocks, idle>>
  BY DEF Flush
<1>2. Staged \in [Urls -> Nat] /\ \A u \in Urls : Staged[u] = stage[u] + pending[u]
  BY DEF Staged, QueuesTyped
<1>3. \E staged \in [Urls -> Nat] :
              row' = MergedRows(row, staged) /\ queued' = queued + Admitted(row, staged)
  BY <1>1, <1>2
<1>4. /\ row' \in [Urls -> States] /\ QueuesApart(H)' /\ (Counted => Counted')
      /\ RowsGoOn({}) /\ StillSettled
      /\ \A u \in Urls : row[u] # "absent" => row'[u] # "absent"
  BY <1>1, <1>3, MergeKeeps
<1>5. QueuesTyped'
  BY <1>1, <1>4 DEF QueuesTyped, NoRows
<1>6. StillKnown
  <2> SUFFICES ASSUME NEW u \in Urls, Known(u) PROVE Known(u)'
    BY DEF StillKnown
  <2>1. row \in [Urls -> States] /\ stage[u] \in Nat /\ pending[u] \in Nat
    BY DEF QueuesTyped
  <2>2. Staged[u] > 0 => row'[u] # "absent"
    BY <1>1, <1>2, <2>1, Merged
  <2>3. row[u] # "absent" \/ Staged[u] > 0
    BY <1>2, <2>1 DEF Known
  <2> QED BY <1>4, <2>2, <2>3 DEF Known
<1> QED BY <1>1, <1>4, <1>5, <1>6

\* An admission makes one URL known, and settles or forgets nothing.
LEMMA AddKeeps ==
  ASSUME QueuesTyped, NEW H, H \subseteq Urls, QueuesApart(H), NEW u \in Urls, Add(u)
  PROVE  /\ QueuesTyped' /\ QueuesApart(H)' /\ (Counted => Counted')
         /\ RowsGoOn({}) /\ StillSettled /\ StillKnown /\ UNCHANGED <<hostRow, clocks, finished>>
         /\ u \notin seen.hot \union seen.cold => Known(u)'
         /\ seen'.hot \union seen'.cold \subseteq seen.hot \union seen.cold \union {u}
<1>1. UNCHANGED <<nextAt, tries, hostRow, ready, deferred, finished, clocks>>
  BY DEF Add
<1>2. seen.hot \subseteq Urls /\ seen.cold \subseteq Urls /\ seen = [hot |-> seen.hot, cold |-> seen.cold]
      /\ stage \in [Urls -> Nat] /\ pending \in [Urls -> Nat] /\ row \in [Urls -> States]
  BY DEF QueuesTyped
<1>3. CASE u \in seen.hot \union seen.cold
  <2>1. seen' = [seen EXCEPT !.hot = @ \union {u}] /\ UNCHANGED <<row, stage, pending, queued, idle>>
    BY <1>3 DEF Add
  <2>2. seen'.hot = seen.hot \union {u} /\ seen'.cold = seen.cold
        /\ seen' \in [hot : SUBSET Urls, cold : SUBSET Urls]
    BY <1>2, <2>1
  <2>3. /\ QueuesApart(H)' /\ (Counted => Counted') /\ RowsGoOn({}) /\ StillSettled
    BY <1>1, <2>1, MergeKeeps
  <2>4. QueuesTyped'
    BY <1>1, <2>1, <2>2 DEF QueuesTyped
  <2>5. StillKnown
    BY <2>1 DEF StillKnown, Known
  <2> QED BY <1>1, <1>3, <2>2, <2>3, <2>4, <2>5
<1>4. CASE u \notin seen.hot \union seen.cold
  <2> DEFINE more == [pending EXCEPT ![u] = @ + 1]
             flush == RowsIn(more) >= BatchSize
             staged == [v \in Urls |-> stage[v] + more[v]]
             merge == flush /\ RowsIn(staged) >= mergeThreshold
  <2>1. /\ seen' = Remember(u) /\ idle' = FALSE
        /\ pending' = IF flush THEN NoRows ELSE more
        /\ stage' = IF merge THEN NoRows ELSE IF flush THEN staged ELSE stage
        /\ row' = IF merge THEN MergedRows(row, staged) ELSE row
        /\ queued' = IF merge THEN queued + Admitted(row, staged) ELSE queued
    BY <1>4 DEF Add
  <2>2. more \in [Urls -> Nat] /\ staged \in [Urls -> Nat] /\ NoRows \in [Urls -> Nat]
        /\ more[u] > 0 /\ \A v \in Urls : more[v] >= pending[v]
    BY <1>2 DEF NoRows
  <2>3. \A v \in Urls : staged[v] = stage[v] + more[v]
    OBVIOUS
  <2>4. merge => flush
    OBVIOUS
  <2> HIDE DEF more, staged, flush, merge
  <2>5. seen' \in [hot : SUBSET Urls, cold : SUBSET Urls]
        /\ seen'.hot \union seen'.cold \subseteq seen.hot \union seen.cold \union {u}
    <3>1. CASE Cardinality(seen.hot) >= SeenURLs
      <4>1. seen' = [hot |-> {u}, cold |-> seen.hot]
        BY <2>1, <3>1 DEF Remember
      <4> QED BY <1>2, <4>1
    <3>2. CASE ~(Cardinality(seen.hot) >= SeenURLs)
      <4>1. seen' = [seen EXCEPT !.hot = @ \union {u}]
        BY <2>1, <3>2 DEF Remember
      <4> QED BY <1>2, <4>1
    <3> QED BY <3>1, <3>2
  <2>6. \/ UNCHANGED <<row, queued>>
        \/ \E s \in [Urls -> Nat] : row' = MergedRows(row, s) /\ queued' = queued + Admitted(row, s)
    BY <2>1, <2>2
  <2>7. /\ row' \in [Urls -> States] /\ QueuesApart(H)' /\ (Counted => Counted')
        /\ RowsGoOn({}) /\ StillSettled
        /\ \A v \in Urls : row[v] # "absent" => row'[v] # "absent"
    BY <1>1, <2>6, MergeKeeps
  <2>8. pending' \in [Urls -> Nat] /\ stage' \in [Urls -> Nat]
    BY <1>2, <2>1, <2>2
  <2>9. QueuesTyped'
    BY <1>1, <2>1, <2>5, <2>7, <2>8 DEF QueuesTyped
  <2>10. ASSUME NEW v \in Urls, row[v] # "absent" \/ stage[v] > 0 \/ more[v] > 0 PROVE Known(v)'
    <3>0. stage[v] \in Nat /\ more[v] \in Nat
      BY <1>2, <2>2
    <3>1. CASE merge
      <4>1. staged[v] > 0 => row'[v] # "absent"
        BY <1>2, <2>1, <2>2, <3>1, Merged
      <4> QED BY <2>3, <2>7, <2>10, <3>0, <4>1 DEF Known
    <3>2. CASE ~merge /\ flush
      <4>1. stage' = staged /\ row' = row
        BY <2>1, <3>2
      <4> QED BY <2>3, <2>10, <3>0, <4>1 DEF Known
    <3>3. CASE ~flush
      <4>1. stage' = stage /\ row' = row /\ pending' = more
        BY <2>1, <2>4, <3>3
      <4> QED BY <2>10, <4>1 DEF Known
    <3> QED BY <3>1, <3>2, <3>3
  <2>11. StillKnown
    <3> SUFFICES ASSUME NEW v \in Urls, Known(v) PROVE Known(v)'
      BY DEF StillKnown
    <3>1. more[v] \in Nat /\ pending[v] \in Nat /\ more[v] >= pending[v]
      BY <1>2, <2>2
    <3> QED BY <2>10, <3>1 DEF Known
  <2>12. Known(u)'
    BY <2>2, <2>10
  <2> QED BY <1>1, <2>5, <2>7, <2>9, <2>11, <2>12
<1> QED BY <1>3, <1>4

-----------------------------------------------------------------------------
(* Hand-out. *)

\* What is in the buffers is claimed, and there is as much of it as it is long.
LEMMA Buffered ==
  ASSUME QueuesTyped, NEW H, QueuesApart(H)
  PROVE  /\ ToSet(ready) \in SUBSET Urls /\ DOMAIN deferred \in SUBSET Urls
         /\ PendingIn(row) \in SUBSET Urls /\ Len(ready) \in Nat
         /\ ToSet(ready) \intersect DOMAIN deferred = {}
         /\ (ToSet(ready) \union DOMAIN deferred) \intersect PendingIn(row) = {}
         /\ Cardinality(ToSet(ready)) = Len(ready)
         /\ Cardinality(ToSet(ready) \union DOMAIN deferred) = Len(ready) + Cardinality(DOMAIN deferred)
<1>1. ready \in Seq(Urls) /\ Distinct(ready)
  BY DEF QueuesTyped, QueuesApart
<1>2. ToSet(ready) \in SUBSET Urls /\ DOMAIN deferred \in SUBSET Urls
  BY DEF QueuesTyped, ToSet
<1>3. Cardinality(ToSet(ready)) = Len(ready)
  BY <1>1, DistinctCount
<1>4. ToSet(ready) \intersect DOMAIN deferred = {}
  BY DEF QueuesApart
<1>5. Cardinality(ToSet(ready) \union DOMAIN deferred) = Cardinality(ToSet(ready)) + Cardinality(DOMAIN deferred)
  BY <1>2, <1>4, TwoParts
<1>6. (ToSet(ready) \union DOMAIN deferred) \intersect PendingIn(row) = {} /\ PendingIn(row) \in SUBSET Urls
  BY DEF QueuesApart, PendingIn
<1> QED BY <1>1, <1>2, <1>3, <1>4, <1>5, <1>6

\* What is claimed and looked at is handed out, or goes back later.
LEMMA PopReadyKeeps ==
  ASSUME QueuesTyped, ClocksTyped, NEW H, H \subseteq Urls, QueuesApart(H), Counted,
         NEW u \in Urls, PopReady(u)
  PROVE  /\ QueuesTyped' /\ ClocksTyped' /\ u \notin H /\ QueuesApart(H \union {u})' /\ Counted'
         /\ RowsGoOn({}) /\ StillSettled /\ StillKnown /\ UNCHANGED <<finished, seen>>
         /\ WrittenHosts[HostOf[u]] = 0 /\ WrittenHosts' = [WrittenHosts EXCEPT ![HostOf[u]] = Delay]
         /\ slot' = [slot EXCEPT ![HostOf[u]] = u]
<1>1. PICK i \in DOMAIN ready :
       /\ ready[i] = u /\ hostNextAt(HostOf[u]) = 0
       /\ ready' = SubSeq(ready, i + 1, Len(ready))
       /\ deferred' = SteppedOver(SubSeq(ready, 1, i - 1))
       /\ setHostNextAt(HostOf[u], Delay, Touched(SubSeq(ready, 1, i)), dirty, u)
  BY DEF PopReady
<1>2. queued' = queued - 1 /\ UNCHANGED <<disk, seen, pending, finished, idle>>
  BY DEF PopReady
<1>3. ready \in Seq(Urls) /\ DOMAIN ready = 1 .. Len(ready) /\ Len(ready) \in Nat /\ Distinct(ready)
  BY DEF QueuesTyped, QueuesApart
<1> DEFINE front == SubSeq(ready, 1, i - 1)
           back == SubSeq(ready, i + 1, Len(ready))
<1>4. /\ front \in Seq(Urls) /\ Len(front) = i - 1 /\ back \in Seq(Urls) /\ Len(back) = Len(ready) - i
      /\ ToSet(ready) = ToSet(front) \union {u} \union ToSet(back)
      /\ Distinct(front) /\ Distinct(back) /\ u \notin ToSet(front) \union ToSet(back)
      /\ ToSet(front) \intersect ToSet(back) = {}
  <2>1. ready \in Seq(Urls) /\ i \in 1 .. Len(ready)
    BY <1>1, <1>3
  <2>2. /\ SubSeq(ready, 1, i - 1) \in Seq(Urls) /\ Len(SubSeq(ready, 1, i - 1)) = i - 1
        /\ SubSeq(ready, i + 1, Len(ready)) \in Seq(Urls)
        /\ Len(SubSeq(ready, i + 1, Len(ready))) = Len(ready) - i
        /\ ToSet(ready) = ToSet(SubSeq(ready, 1, i - 1)) \union {ready[i]}
                            \union ToSet(SubSeq(ready, i + 1, Len(ready)))
        /\ Distinct(ready) =>
             /\ Distinct(SubSeq(ready, 1, i - 1)) /\ Distinct(SubSeq(ready, i + 1, Len(ready)))
             /\ ready[i] \notin ToSet(SubSeq(ready, 1, i - 1)) \union ToSet(SubSeq(ready, i + 1, Len(ready)))
             /\ ToSet(SubSeq(ready, 1, i - 1)) \intersect ToSet(SubSeq(ready, i + 1, Len(ready))) = {}
    BY <2>1, Cut
  <2> QED BY <1>1, <1>3, <2>2, Zenon
<1>5. HostOf[u] \in Hosts /\ Delay \in Nat /\ u \in Urls \union {None}
  BY Bounds
<1>6. WrittenHosts \in [Hosts -> Nat] /\ \A h \in Hosts : hostNextAt(h) = WrittenHosts[h]
  BY ClockRead
<1>7. Touched(SubSeq(ready, 1, i)) \in Seq(Hosts)
  <2>1. SubSeq(ready, 1, i) \in Seq(Urls)
    BY <1>1, <1>3
  <2> QED BY <2>1, TouchedList
<1>8. ClocksTyped' /\ WrittenHosts' = [WrittenHosts EXCEPT ![HostOf[u]] = Delay]
      /\ slot' = [slot EXCEPT ![HostOf[u]] = u]
  <2> DEFINE list == Touched(SubSeq(ready, 1, i))
  <2>1. setHostNextAt(HostOf[u], Delay, list, dirty, u) /\ list \in Seq(Hosts)
    BY <1>1, <1>7
  <2>2. dirty \in [Hosts -> Nat \union {None}] /\ hostRow' = hostRow /\ hostRow' \in [Hosts -> Nat]
    BY <1>2 DEF ClocksTyped, disk
  <2>3. \A g \in Hosts : (IF dirty[g] # None THEN dirty[g] ELSE hostRow'[g]) = WrittenHosts[g]
    BY <2>2 DEF WrittenHosts
  <2> DEFINE h == HostOf[u]
  <2>4. h \in Hosts /\ setHostNextAt(h, Delay, list, dirty, u)
    BY <1>5, <2>1
  <2> HIDE DEF list, h
  <2>5. ClocksTyped' /\ WrittenHosts' = [WrittenHosts EXCEPT ![h] = Delay] /\ slot' = [slot EXCEPT ![h] = u]
    BY <1>5, <2>1, <2>2, <2>3, <2>4, ClockSet
  <2> QED BY <2>5 DEF h
<1> HIDE DEF front, back
<1>9. ready' = back /\ deferred' = SteppedOver(front) /\ row' = row
  BY <1>1, <1>2 DEF front, back, disk
<1>10. /\ DOMAIN deferred' = DOMAIN deferred \union ToSet(front)
       /\ \A v \in DOMAIN deferred' : deferred'[v] \in Nat
  <2>0. DOMAIN deferred \subseteq Urls
    BY DEF QueuesTyped
  <2>1. ToSet(front) \subseteq Urls /\ DOMAIN deferred \subseteq Urls
    BY <1>4, <2>0 DEF ToSet
  <2>2. \A v \in Urls : hostNextAt(HostOf[v]) \in Nat
    BY <1>6, Bounds
  <2>3. \A v \in DOMAIN deferred : deferred[v] \in Nat
    BY DEF QueuesTyped
  <2> QED BY <1>9, <2>1, <2>2, <2>3 DEF SteppedOver
<1>11. /\ ToSet(ready) \in SUBSET Urls /\ DOMAIN deferred \in SUBSET Urls
       /\ ToSet(ready) \intersect DOMAIN deferred = {}
  BY Buffered
<1>12. QueuesTyped'
  BY <1>2, <1>4, <1>9, <1>10, <1>11 DEF QueuesTyped, disk
<1>13. u \notin H
  BY <1>4 DEF QueuesApart
<1>14. QueuesApart(H \union {u})'
  BY <1>2, <1>4, <1>9, <1>10, <1>11, <1>13 DEF QueuesApart, disk
<1>15. Counted'
  <2>1. Cardinality(ToSet(front)) = i - 1
    BY <1>4, DistinctCount
  <2>2. ToSet(front) \in SUBSET Urls /\ DOMAIN deferred \intersect ToSet(front) = {}
    BY <1>4, <1>11
  <2>3. Cardinality(DOMAIN deferred') = Cardinality(DOMAIN deferred) + (i - 1)
    BY <1>10, <1>11, <2>1, <2>2, TwoParts
  <2>4. PendingIn(row') = PendingIn(row) /\ PendingIn(row) \in SUBSET Urls
    BY <1>9 DEF PendingIn
  <2>5. Cardinality(PendingIn(row)) \in Nat /\ Cardinality(DOMAIN deferred) \in Nat
    BY <1>11, <2>4, PartCount
  <2>6. Len(ready') = Len(ready) - i /\ i \in Nat
    BY <1>1, <1>3, <1>4, <1>9
  <2> QED BY <1>2, <1>3, <2>3, <2>4, <2>5, <2>6 DEF Counted
<1>16. RowsGoOn({}) /\ StillSettled /\ StillKnown
  BY <1>2, <1>9 DEF RowsGoOn, DoneBy, StillSettled, Settled, StillKnown, Known, disk
<1> QED BY <1>1, <1>2, <1>5, <1>6, <1>8, <1>12, <1>13, <1>14, <1>15, <1>16

\* A batch is some of the rows that were found, each once.
LEMMA Batched ==
  ASSUME NEW urls \in SUBSET Urls, urls # {}, NEW best \in Orders(urls)
  PROVE  /\ Batch(best) \in Seq(Urls) /\ Distinct(Batch(best)) /\ Batch(best) # <<>>
         /\ ToSet(Batch(best)) \subseteq urls
<1> DEFINE n == Cardinality(urls)
           m == Min({Len(best), ClaimSize})
           rows == SubSeq(best, 1, m)
           first == {i \in DOMAIN rows : \A j \in 1 .. i - 1 : HostOf[rows[j]] # HostOf[rows[i]]}
           firsts == {rows[i] : i \in first}
<1>1. n \in Nat /\ n > 0
  <2>1. IsFiniteSet(urls) /\ n \in Nat
    BY PartCount
  <2>2. n # 0
    BY <2>1, FS_EmptySet
  <2> QED BY <2>1, <2>2
<1>2. best \in [1 .. n -> urls] /\ \A i, j \in DOMAIN best : i < j => best[i] # best[j]
  BY DEF Orders
<1> HIDE DEF n
<1>3. best \in Seq(urls) /\ Len(best) = n /\ DOMAIN best = 1 .. n
  BY <1>1, <1>2
<1>4. m \in Nat /\ m >= 1 /\ m <= n
  <2> DEFINE a == Len(best)
  <2>1. ClaimSize \in Nat /\ ClaimSize >= 1 /\ ClaimSize \in Int /\ a \in Int /\ a = n
    BY <1>1, <1>3, Bounds
  <2>2. m = Min({a, ClaimSize})
    OBVIOUS
  <2> HIDE DEF a, m
  <2>3. Min({a, ClaimSize}) \in {a, ClaimSize} /\ Min({a, ClaimSize}) <= a
    BY <2>1, LeastOfTwo
  <2> QED BY <1>1, <2>1, <2>2, <2>3
<1>5. Batch(best) = Only(rows, firsts)
  BY Zenon DEF Batch, rows, m, first, firsts
<1> HIDE DEF m
<1>6. rows \in Seq(urls) /\ Len(rows) = m /\ DOMAIN rows = 1 .. m /\ \A i \in 1 .. m : rows[i] = best[i]
  BY <1>3, <1>4
<1> HIDE DEF rows
<1>7. Distinct(rows)
  <2> SUFFICES ASSUME NEW i \in 1 .. m, NEW j \in 1 .. m, rows[i] = rows[j] PROVE i = j
    BY <1>6 DEF Distinct
  <2>1. i \in 1 .. n /\ j \in 1 .. n /\ best[i] = best[j]
    BY <1>1, <1>4, <1>6
  <2>2. ~(i < j) /\ ~(j < i)
    BY <1>2, <1>3, <2>1
  <2> QED BY <1>4, <2>2
<1>8. 1 \in first /\ rows[1] \in firsts /\ rows[1] \in ToSet(rows)
  BY <1>4, <1>6 DEF ToSet
<1> HIDE DEF first, firsts
<1>9. /\ Only(rows, firsts) \in Seq(urls) /\ ToSet(Only(rows, firsts)) = ToSet(rows) \intersect firsts
      /\ Distinct(Only(rows, firsts))
  BY <1>6, <1>7, Selection
<1>10. ToSet(Only(rows, firsts)) # {} /\ ToSet(rows) \subseteq urls
  BY <1>6, <1>8, <1>9 DEF ToSet
<1> DEFINE b == Only(rows, firsts)
<1>11. b # <<>>
  <2> SUFFICES ASSUME b = <<>> PROVE FALSE
    OBVIOUS
  <2>1. ToSet(<<>>) = {}
    BY DEF ToSet
  <2> QED BY <1>10, <2>1
<1>12. b \in Seq(Urls)
  <2> HIDE DEF b
  <2>1. b \in Seq(urls)
    BY <1>9 DEF b
  <2> QED BY <2>1
<1> QED BY <1>5, <1>9, <1>10, <1>11, <1>12

\* What a refill finds: what was claimed and looked at is pending again, what is staged is merged
\* or still staged, and what may be handed out is pending and its host free.
LEMMA FoundRows ==
  ASSUME QueuesTyped, ClocksTyped, NEW H, H \subseteq Urls, QueuesApart(H), Counted
  PROVE  /\ Found.rows \in [Urls -> States] /\ Found.at \in [Urls -> Nat]
         /\ Found.urls \in SUBSET Urls
         /\ \A u \in Found.urls : Found.rows[u] = "pending" /\ WrittenHosts[HostOf[u]] = 0
         /\ \A u \in Urls : row[u] # "absent" =>
              Found.rows[u] = IF u \in ToSet(ready) \union DOMAIN deferred THEN "pending" ELSE row[u]
         /\ \A u \in Urls : row[u] = "absent" => Found.rows[u] \in {"absent", "pending"}
         /\ Found.merged => \A u \in Urls : Staged[u] > 0 => Found.rows[u] # "absent"
         /\ Found.queued = Cardinality(PendingIn(Found.rows))
<1> DEFINE back == SteppedOver(ready)
           gone == ToSet(ready) \union DOMAIN deferred
           rel == Released(back)
           merge == Eligible(rel.rows, rel.at) = {} /\ RowsIn(Staged) > 0
           rows == IF merge THEN MergedRows(rel.rows, Staged) ELSE rel.rows
           q == IF merge THEN queued + Admitted(rel.rows, Staged) ELSE queued
<1>1. Found = [rows |-> rows, at |-> rel.at, merged |-> merge, queued |-> q, urls |-> Eligible(rows, rel.at)]
  BY Zenon DEF Found, rel, merge, rows, q, back
<1>2. /\ ToSet(ready) \in SUBSET Urls /\ DOMAIN deferred \in SUBSET Urls
      /\ PendingIn(row) \in SUBSET Urls /\ Len(ready) \in Nat
      /\ gone \intersect PendingIn(row) = {}
      /\ Cardinality(gone) = Len(ready) + Cardinality(DOMAIN deferred)
  BY Buffered
<1>3. DOMAIN back = gone /\ \A u \in gone : back[u] \in Nat
  <2>1. \A u \in Urls : hostNextAt(HostOf[u]) \in Nat
    BY ClockRead, Bounds
  <2>2. \A u \in DOMAIN deferred : deferred[u] \in Nat
    BY DEF QueuesTyped
  <2> QED BY <1>2, <2>1, <2>2 DEF SteppedOver
<1> HIDE DEF back
<1>4. rel = [rows |-> [u \in Urls |-> IF u \in gone THEN "pending" ELSE row[u]],
             at |-> [u \in Urls |-> IF u \in gone THEN back[u] ELSE nextAt[u]]]
  BY <1>3, Zenon DEF Released
<1>5. row \in [Urls -> States] /\ nextAt \in [Urls -> Nat] /\ Staged \in [Urls -> Nat]
  BY DEF QueuesTyped, Staged
<1>6. /\ rel.rows = [u \in Urls |-> IF u \in gone THEN "pending" ELSE row[u]]
      /\ rel.at = [u \in Urls |-> IF u \in gone THEN back[u] ELSE nextAt[u]]
  BY <1>4
<1> HIDE DEF rel, gone
<1>7. /\ rel.rows \in [Urls -> States] /\ rel.at \in [Urls -> Nat]
      /\ \A u \in Urls : rel.rows[u] = IF u \in gone THEN "pending" ELSE row[u]
  BY <1>3, <1>5, <1>6 DEF States
<1>8. PendingIn(rel.rows) = PendingIn(row) \union gone
  <2>1. gone \subseteq Urls
    BY <1>2 DEF gone
  <2> QED BY <1>7, <2>1 DEF PendingIn
<1>9. Cardinality(PendingIn(rel.rows)) = queued /\ queued \in Nat
  <2>1. gone \in SUBSET Urls
    BY <1>2 DEF gone
  <2>2. Cardinality(PendingIn(rel.rows)) = Cardinality(PendingIn(row)) + Cardinality(gone)
    BY <1>2, <1>8, <2>1, TwoParts
  <2>3. Cardinality(PendingIn(row)) \in Nat /\ Cardinality(DOMAIN deferred) \in Nat
    BY <1>2, PartCount
  <2> QED BY <1>2, <2>2, <2>3 DEF Counted
<1>10. /\ MergedRows(rel.rows, Staged) \in [Urls -> States]
       /\ \A u \in Urls : rel.rows[u] # "absent" => MergedRows(rel.rows, Staged)[u] = rel.rows[u]
       /\ \A u \in Urls : MergedRows(rel.rows, Staged)[u] # rel.rows[u] => MergedRows(rel.rows, Staged)[u] = "pending"
       /\ \A u \in Urls : Staged[u] > 0 => MergedRows(rel.rows, Staged)[u] # "absent"
       /\ Cardinality(PendingIn(MergedRows(rel.rows, Staged)))
            = Cardinality(PendingIn(rel.rows)) + Admitted(rel.rows, Staged)
  BY <1>5, <1>7, Merged
<1> HIDE DEF merge
<1>11. /\ rows \in [Urls -> States]
       /\ \A u \in Urls : rel.rows[u] # "absent" => rows[u] = rel.rows[u]
       /\ \A u \in Urls : rows[u] # rel.rows[u] => rows[u] = "pending"
       /\ merge => \A u \in Urls : Staged[u] > 0 => rows[u] # "absent"
       /\ Cardinality(PendingIn(rows)) = q
  BY <1>7, <1>9, <1>10
<1> HIDE DEF rows, q
<1>12. \A u \in Urls : u \in gone => row[u] # "absent"
  BY DEF QueuesApart, gone
<1>13. /\ \A u \in Urls : row[u] # "absent" => rows[u] = IF u \in gone THEN "pending" ELSE row[u]
       /\ \A u \in Urls : row[u] = "absent" => rows[u] \in {"absent", "pending"}
  BY <1>7, <1>11, <1>12
<1>14. Found.rows = rows /\ Found.at = rel.at /\ Found.merged = merge /\ Found.queued = q
       /\ Found.urls = Eligible(rows, rel.at)
  BY <1>1
<1>15. /\ Eligible(rows, rel.at) \in SUBSET Urls
       /\ \A u \in Eligible(rows, rel.at) : rows[u] = "pending" /\ WrittenHosts[HostOf[u]] = 0
  BY DEF Eligible
<1> QED BY <1>7, <1>11, <1>13, <1>14, <1>15 DEF gone

\* What every refill does.
LEMMA RefillKeeps ==
  ASSUME QueuesTyped, ClocksTyped, NEW H, H \subseteq Urls, QueuesApart(H), Counted, Refill,
         row' \in [Urls -> States], \A u \in Urls : row'[u] \in {Found.rows[u], "claimed"},
         \A u \in Urls : row'[u] # Found.rows[u] => Found.rows[u] = "pending"
  PROVE  /\ nextAt' \in [Urls -> Nat] /\ stage' \in [Urls -> Nat] /\ pending' \in [Urls -> Nat]
         /\ deferred' = <<>> /\ hostRow' = WrittenHosts /\ UNCHANGED <<tries, seen, finished>>
         /\ RowsGoOn({}) /\ StillSettled /\ StillKnown
         /\ \A u \in DOMAIN finished \union H : row'[u] = "claimed"
<1> DEFINE gone == ToSet(ready) \union DOMAIN deferred
<1>1. /\ nextAt' = Found.at /\ stage' = IF Found.merged THEN NoRows ELSE Staged
      /\ pending' = NoRows /\ deferred' = <<>> /\ hostRow' = WrittenHosts
      /\ UNCHANGED <<tries, seen, finished>>
  BY DEF Refill
<1>2. /\ Found.rows \in [Urls -> States] /\ Found.at \in [Urls -> Nat]
      /\ \A u \in Urls : row[u] # "absent" => Found.rows[u] = IF u \in gone THEN "pending" ELSE row[u]
      /\ \A u \in Urls : row[u] = "absent" => Found.rows[u] \in {"absent", "pending"}
      /\ Found.merged => \A u \in Urls : Staged[u] > 0 => Found.rows[u] # "absent"
  BY FoundRows
<1>3. /\ Staged \in [Urls -> Nat] /\ NoRows \in [Urls -> Nat] /\ row \in [Urls -> States]
      /\ stage \in [Urls -> Nat] /\ pending \in [Urls -> Nat]
      /\ \A u \in Urls : Staged[u] = stage[u] + pending[u]
  BY DEF QueuesTyped, Staged, NoRows
<1>4. /\ \A u \in gone : row[u] = "claimed"
      /\ \A u \in DOMAIN finished \union H : row[u] = "claimed" /\ u \notin gone /\ u \in Urls
  BY DEF QueuesApart, QueuesTyped
<1> HIDE DEF gone
<1>5. \A u \in DOMAIN finished \union H : row'[u] = "claimed"
  <2> SUFFICES ASSUME NEW u \in DOMAIN finished \union H PROVE row'[u] = "claimed"
    OBVIOUS
  <2>1. u \in Urls /\ Found.rows[u] = "claimed"
    BY <1>2, <1>4
  <2> QED BY <2>1
<1>6. \A u \in Urls : row[u] \in {"done", "failed"} => row'[u] = row[u]
  <2> SUFFICES ASSUME NEW u \in Urls, row[u] \in {"done", "failed"} PROVE row'[u] = row[u]
    OBVIOUS
  <2>1. Found.rows[u] = row[u] /\ row[u] # "pending"
    BY <1>2, <1>4
  <2> QED BY <2>1
<1>7. \A u \in Urls : row'[u] = "done" => row[u] = "done"
  <2> SUFFICES ASSUME NEW u \in Urls, row'[u] = "done" PROVE row[u] = "done"
    OBVIOUS
  <2>1. Found.rows[u] = "done"
    OBVIOUS
  <2> QED BY <1>2, <2>1
<1>8. RowsGoOn({})
  BY <1>1, <1>6, <1>7 DEF RowsGoOn, DoneBy
<1>9. StillSettled
  BY <1>1, <1>6 DEF StillSettled, Settled
<1>10. StillKnown
  <2> SUFFICES ASSUME NEW u \in Urls, Known(u) PROVE Known(u)'
    BY DEF StillKnown
  <2>1. CASE row[u] # "absent"
    <3>1. Found.rows[u] # "absent"
      BY <1>2, <2>1
    <3>2. row'[u] # "absent"
      BY <3>1
    <3> QED BY <3>2 DEF Known
  <2>2. CASE row[u] = "absent"
    <3>1. Staged[u] > 0
      BY <1>3, <2>2 DEF Known
    <3>2. CASE Found.merged
      <4>1. Found.rows[u] # "absent"
        BY <1>2, <3>1, <3>2
      <4>2. row'[u] # "absent"
        BY <4>1
      <4> QED BY <4>2 DEF Known
    <3>3. CASE ~Found.merged
      <4>1. stage' = Staged
        BY <1>1, <3>3
      <4> QED BY <3>1, <4>1 DEF Known
    <3> QED BY <3>2, <3>3
  <2> QED BY <2>1, <2>2
<1> QED BY <1>1, <1>2, <1>3, <1>5, <1>8, <1>9, <1>10

\* The best of what a refill found is handed out, the rest of the batch claimed.
LEMMA PopRefilledKeeps ==
  ASSUME QueuesTyped, ClocksTyped, NEW H, H \subseteq Urls, QueuesApart(H), Counted,
         NEW u \in Urls, PopRefilled(u)
  PROVE  /\ QueuesTyped' /\ ClocksTyped' /\ u \notin H /\ QueuesApart(H \union {u})' /\ Counted'
         /\ RowsGoOn({}) /\ StillSettled /\ StillKnown /\ UNCHANGED <<finished, seen>>
         /\ WrittenHosts[HostOf[u]] = 0 /\ WrittenHosts' = [WrittenHosts EXCEPT ![HostOf[u]] = Delay]
         /\ slot' = [slot EXCEPT ![HostOf[u]] = u]
<1>1. /\ Refill /\ Found.urls # {} /\ queued' = Found.queued - 1 /\ UNCHANGED idle
      /\ setHostNextAt(HostOf[u], Delay, Touched(Append(ready, u)), NoClocks, u)
  BY DEF PopRefilled
<1>2. PICK best \in Orders(Found.urls) :
        /\ u = Head(Batch(best)) /\ ready' = Tail(Batch(best))
        /\ row' = [v \in Urls |-> IF v \in ToSet(Batch(best)) THEN "claimed" ELSE Found.rows[v]]
  BY DEF PopRefilled
<1> DEFINE batch == Batch(best)
<1>3. /\ Found.rows \in [Urls -> States] /\ Found.urls \in SUBSET Urls
      /\ \A v \in Found.urls : Found.rows[v] = "pending" /\ WrittenHosts[HostOf[v]] = 0
      /\ \A v \in Urls : row[v] # "absent" =>
           Found.rows[v] = IF v \in ToSet(ready) \union DOMAIN deferred THEN "pending" ELSE row[v]
      /\ Found.queued = Cardinality(PendingIn(Found.rows))
  BY FoundRows
<1>4. batch \in Seq(Urls) /\ Distinct(batch) /\ batch # <<>> /\ ToSet(batch) \subseteq Found.urls
  BY <1>1, <1>3, Batched
<1>5. /\ Tail(batch) \in Seq(Urls) /\ Len(Tail(batch)) = Len(batch) - 1 /\ Len(batch) > 0
      /\ ToSet(batch) = {Head(batch)} \union ToSet(Tail(batch))
      /\ Distinct(Tail(batch)) /\ Head(batch) \notin ToSet(Tail(batch)) /\ Len(batch) \in Nat
  BY <1>4, HeadOff
<1> HIDE DEF batch
<1>6. /\ ready' \in Seq(Urls) /\ Len(ready') = Len(batch) - 1 /\ Distinct(ready')
      /\ ToSet(batch) = {u} \union ToSet(ready') /\ u \notin ToSet(ready') /\ u \in Found.urls
  BY <1>2, <1>4, <1>5 DEF batch
<1>7. \A v \in Urls : row'[v] = IF v \in ToSet(batch) THEN "claimed" ELSE Found.rows[v]
  BY <1>2 DEF batch
<1>8. row' \in [Urls -> States]
  BY <1>2, <1>3 DEF States
<1>9. /\ \A v \in Urls : row'[v] \in {Found.rows[v], "claimed"}
      /\ \A v \in Urls : row'[v] # Found.rows[v] => Found.rows[v] = "pending"
  BY <1>3, <1>4, <1>7
<1>10. /\ nextAt' \in [Urls -> Nat] /\ stage' \in [Urls -> Nat] /\ pending' \in [Urls -> Nat]
       /\ deferred' = <<>> /\ hostRow' = WrittenHosts /\ UNCHANGED <<tries, seen, finished>>
       /\ RowsGoOn({}) /\ StillSettled /\ StillKnown
       /\ \A v \in DOMAIN finished \union H : row'[v] = "claimed"
  BY <1>1, <1>8, <1>9, RefillKeeps
<1>11. DOMAIN deferred' = {}
  BY <1>10
<1>12. QueuesTyped'
  BY <1>1, <1>6, <1>8, <1>10, <1>11 DEF QueuesTyped
<1>13. \A v \in DOMAIN finished \union H : v \notin ToSet(batch)
  <2> SUFFICES ASSUME NEW v \in DOMAIN finished \union H PROVE v \notin Found.urls
    BY <1>4
  <2>1. row[v] = "claimed" /\ v \notin ToSet(ready) \union DOMAIN deferred /\ v \in Urls
    BY DEF QueuesApart, QueuesTyped
  <2>2. Found.rows[v] = "claimed"
    BY <1>3, <2>1
  <2> QED BY <1>3, <2>2
<1>14. QueuesApart(H \union {u})'
  <2>1. \A v \in ToSet(ready') \union DOMAIN deferred' \union DOMAIN finished' \union (H \union {u}) :
          row'[v] = "claimed"
    BY <1>3, <1>4, <1>6, <1>7, <1>10, <1>11
  <2>2. DOMAIN finished \intersect H = {}
    BY DEF QueuesApart
  <2> QED BY <1>6, <1>10, <1>11, <1>13, <2>1, <2>2 DEF QueuesApart
<1>15. u \notin H
  BY <1>6, <1>13
<1>16. Counted'
  <2>1. PendingIn(Found.rows) = PendingIn(row') \union ToSet(batch) /\ PendingIn(row') \intersect ToSet(batch) = {}
    BY <1>3, <1>4, <1>7 DEF PendingIn
  <2>2. PendingIn(row') \in SUBSET Urls /\ ToSet(batch) \in SUBSET Urls
    BY <1>3, <1>4 DEF PendingIn
  <2>3. Cardinality(PendingIn(Found.rows)) = Cardinality(PendingIn(row')) + Cardinality(ToSet(batch))
    BY <2>1, <2>2, TwoParts
  <2>4. Cardinality(ToSet(batch)) = Len(batch)
    BY <1>4, DistinctCount
  <2>5. Cardinality(DOMAIN deferred') = 0
    BY <1>11, FS_EmptySet
  <2>6. Cardinality(PendingIn(row')) \in Nat
    BY <2>2, PartCount
  <2>7. queued' = Cardinality(PendingIn(Found.rows)) - 1
    BY <1>1, <1>3
  <2>8. Len(ready') = Len(batch) - 1 /\ Len(batch) \in Nat
    BY <1>5, <1>6
  <2>9. queued' = Cardinality(PendingIn(row')) + Len(ready') + Cardinality(DOMAIN deferred')
    BY <2>3, <2>4, <2>5, <2>6, <2>7, <2>8
  <2> QED BY <2>9 DEF Counted
<1>17. ClocksTyped' /\ WrittenHosts' = [WrittenHosts EXCEPT ![HostOf[u]] = Delay]
       /\ slot' = [slot EXCEPT ![HostOf[u]] = u]
  <2> DEFINE list == Touched(Append(ready, u))
             h == HostOf[u]
             w == NoClocks
             t == Delay
  <2>1. list \in Seq(Hosts)
    <3>1. Append(ready, u) \in Seq(Urls)
      BY DEF QueuesTyped
    <3> QED BY <3>1, TouchedList
  <2>2. h \in Hosts
    BY Bounds
  <2>3. t \in Nat
    BY Bounds
  <2>4. u \in Urls \union {None}
    OBVIOUS
  <2>5. setHostNextAt(h, t, list, w, u)
    BY <1>1
  <2>6. w \in [Hosts -> Nat \union {None}]
    BY DEF NoClocks
  <2>7. hostRow' \in [Hosts -> Nat]
    BY <1>10, ClockRead
  <2>8. \A g \in Hosts : (IF w[g] # None THEN w[g] ELSE hostRow'[g]) = WrittenHosts[g]
    BY <1>10 DEF NoClocks
  <2> HIDE DEF list, h, w, t
  <2>9. ClocksTyped' /\ WrittenHosts' = [WrittenHosts EXCEPT ![h] = t] /\ slot' = [slot EXCEPT ![h] = u]
    BY <2>1, <2>2, <2>3, <2>4, <2>5, <2>6, <2>7, <2>8, ClockSet
  <2> QED BY <2>9 DEF h, t
<1>18. WrittenHosts[HostOf[u]] = 0
  BY <1>3, <1>6
<1> QED BY <1>10, <1>12, <1>14, <1>15, <1>16, <1>17, <1>18

\* Nothing may be handed out.
LEMMA PopNothingKeeps ==
  ASSUME QueuesTyped, ClocksTyped, NEW H, H \subseteq Urls, QueuesApart(H), Counted, PopNothing
  PROVE  /\ QueuesTyped' /\ ClocksTyped' /\ QueuesApart(H)' /\ Counted'
         /\ RowsGoOn({}) /\ StillSettled /\ StillKnown /\ UNCHANGED <<finished, seen>>
         /\ WrittenHosts' = WrittenHosts /\ slot' = slot
<1>1. CASE idle /\ UNCHANGED frontierVars
  <2>1. UNCHANGED <<row, nextAt, tries, stage, hostRow, seen, pending, ready, deferred, finished,
                    lru, hot, dirty, slot, queued, idle>>
    BY <1>1 DEF frontierVars, disk, mem, queue, clocks
  <2>2. QueuesTyped' /\ QueuesApart(H)' /\ Counted'
    BY <2>1 DEF QueuesTyped, QueuesApart, Counted
  <2>3. WrittenHosts' = WrittenHosts
    BY <2>1 DEF WrittenHosts
  <2>4. ClocksTyped'
    BY <2>1, <2>3 DEF ClocksTyped
  <2>5. RowsGoOn({}) /\ StillSettled /\ StillKnown
    BY <2>1 DEF RowsGoOn, DoneBy, StillSettled, Settled, StillKnown, Known
  <2> QED BY <2>1, <2>2, <2>3, <2>4, <2>5
<1>2. CASE ~(idle /\ UNCHANGED frontierVars)
  <2>1. /\ Refill /\ row' = Found.rows /\ queued' = Found.queued /\ ready' = <<>>
        /\ CacheTo(Touched(ready)) /\ dirty' = NoClocks /\ idle' = TRUE /\ slot' = slot
    BY <1>2 DEF PopNothing
  <2>2. /\ Found.rows \in [Urls -> States] /\ Found.queued = Cardinality(PendingIn(Found.rows))
    BY FoundRows
  <2>3. /\ row' \in [Urls -> States] /\ \A v \in Urls : row'[v] \in {Found.rows[v], "claimed"}
        /\ \A v \in Urls : row'[v] # Found.rows[v] => Found.rows[v] = "pending"
    BY <2>1, <2>2
  <2>4. /\ nextAt' \in [Urls -> Nat] /\ stage' \in [Urls -> Nat] /\ pending' \in [Urls -> Nat]
        /\ deferred' = <<>> /\ hostRow' = WrittenHosts /\ UNCHANGED <<tries, seen, finished>>
        /\ RowsGoOn({}) /\ StillSettled /\ StillKnown
        /\ \A v \in DOMAIN finished \union H : row'[v] = "claimed"
    BY <2>1, <2>3, RefillKeeps
  <2>5. DOMAIN deferred' = {} /\ ToSet(ready') = {} /\ ready' \in Seq(Urls) /\ Len(ready') = 0 /\ Distinct(ready')
    BY <2>1, <2>4 DEF ToSet, Distinct
  <2>6. QueuesTyped'
    BY <2>1, <2>3, <2>4, <2>5 DEF QueuesTyped
  <2>7. QueuesApart(H)'
    BY <2>4, <2>5 DEF QueuesApart
  <2>8. Counted'
    <3>1. PendingIn(row') \in SUBSET Urls
      BY DEF PendingIn
    <3>2. Cardinality(PendingIn(row')) \in Nat /\ Cardinality(DOMAIN deferred') = 0
      BY <2>5, <3>1, PartCount, FS_EmptySet
    <3> QED BY <2>1, <2>2, <2>5, <3>2 DEF Counted
  <2>9. ClocksTyped' /\ WrittenHosts' = WrittenHosts
    <3> DEFINE list == Touched(ready)
    <3>1. list \in Seq(Hosts) /\ Len(list) <= HotHosts
      <4>1. ready \in Seq(Urls)
        BY DEF QueuesTyped
      <4> QED BY <4>1, TouchedList
    <3>2. CacheTo(list)
      BY <2>1
    <3> HIDE DEF list
    <3> QED BY <2>1, <2>4, <3>1, <3>2, ClocksCached
  <2> QED BY <2>1, <2>4, <2>6, <2>7, <2>8, <2>9
<1> QED BY <1>1, <1>2

-----------------------------------------------------------------------------
(* What becomes of a URL that was handed out. *)

\* Completions are written over claimed rows only.
LEMMA WriteKeeps ==
  ASSUME NEW rows \in [Urls -> States], NEW completions, DOMAIN completions \subseteq Urls,
         \A u \in DOMAIN completions : completions[u] \in {"done", "failed"} /\ rows[u] = "claimed",
         row = rows
  PROVE  /\ WrittenRows(completions) \in [Urls -> States]
         /\ \A u \in Urls : WrittenRows(completions)[u] = IF u \in DOMAIN completions THEN completions[u] ELSE rows[u]
         /\ PendingIn(WrittenRows(completions)) = PendingIn(rows)
<1>1. WrittenRows(completions) = [u \in Urls |-> IF u \in DOMAIN completions THEN completions[u] ELSE rows[u]]
  BY DEF WrittenRows
<1>2. WrittenRows(completions) \in [Urls -> States]
  BY <1>1 DEF States
<1>3. \A u \in Urls : WrittenRows(completions)[u] = IF u \in DOMAIN completions THEN completions[u] ELSE rows[u]
  BY <1>1
<1>4. PendingIn(WrittenRows(completions)) = PendingIn(rows)
  BY <1>3 DEF PendingIn
<1> QED BY <1>2, <1>3, <1>4

\* A URL is finished: from the worker's hands it goes to the completions or to the disk.
LEMMA FinishKeeps ==
  ASSUME QueuesTyped, NEW H, H \subseteq Urls, QueuesApart(H), Counted,
         Cardinality(DOMAIN finished) < SyncEvery,
         NEW u \in H, NEW state \in {"done", "failed"}, finish(u, state)
  PROVE  /\ QueuesTyped' /\ QueuesApart(H \ {u})' /\ Counted'
         /\ RowsGoOn({u}) /\ (state = "failed" => RowsGoOn({}))
         /\ StillSettled /\ Settled(u)' /\ StillKnown
         /\ Cardinality(DOMAIN finished') < SyncEvery
         /\ UNCHANGED <<hostRow, clocks, seen, tries>>
<1> DEFINE more == [v \in DOMAIN finished \union {u} |-> IF v = u THEN state ELSE finished[v]]
           sync == Cardinality(DOMAIN more) >= SyncEvery
<1>1. /\ row' = IF sync THEN WrittenRows(more) ELSE row
      /\ finished' = IF sync THEN <<>> ELSE more
      /\ UNCHANGED <<nextAt, tries, stage, hostRow, seen, pending, ready, deferred,
                     clocks, queued, idle>>
  BY DEF finish
<1>2. /\ DOMAIN more = DOMAIN finished \union {u} /\ u \in Urls /\ DOMAIN finished \subseteq Urls
      /\ \A v \in DOMAIN more : more[v] = IF v = u THEN state ELSE finished[v]
  BY DEF QueuesTyped
<1>3. Cardinality(DOMAIN more) \in Nat /\ (~sync => Cardinality(DOMAIN more) < SyncEvery)
  <2>1. DOMAIN more \in SUBSET Urls
    BY <1>2
  <2>2. Cardinality(DOMAIN more) \in Nat
    BY <2>1, PartCount
  <2> QED BY <2>2, Bounds
<1> HIDE DEF more, sync
<1>4. row \in [Urls -> States] /\ ToSet(ready) \subseteq Urls /\ DOMAIN deferred \subseteq Urls
      /\ \A v \in DOMAIN finished : finished[v] \in {"done", "failed"}
  BY DEF QueuesTyped, ToSet
<1>5. /\ \A v \in ToSet(ready) \union DOMAIN deferred \union DOMAIN finished \union H : row[v] = "claimed"
      /\ \A v \in DOMAIN more : v \notin ToSet(ready) \union DOMAIN deferred
      /\ Distinct(ready) /\ ToSet(ready) \intersect DOMAIN deferred = {}
      /\ \A v \in H : v \notin ToSet(ready) \union DOMAIN deferred \union DOMAIN finished
  BY <1>2 DEF QueuesApart
<1>6. /\ DOMAIN more \subseteq Urls
      /\ \A v \in DOMAIN more : more[v] \in {"done", "failed"} /\ row[v] = "claimed"
  BY <1>2, <1>4, <1>5
<1>7. CASE sync
  <2> DEFINE rows == row
  <2>1. rows \in [Urls -> States] /\ \A v \in DOMAIN more : more[v] \in {"done", "failed"} /\ rows[v] = "claimed"
    BY <1>4, <1>6
  <2>2. row = rows
    OBVIOUS
  <2> HIDE DEF rows
  <2>3. /\ WrittenRows(more) \in [Urls -> States]
        /\ \A v \in Urls : WrittenRows(more)[v] = IF v \in DOMAIN more THEN more[v] ELSE rows[v]
        /\ PendingIn(WrittenRows(more)) = PendingIn(rows)
    BY <1>6, <2>1, <2>2, WriteKeeps
  <2>4. row' = WrittenRows(more) /\ finished' = <<>> /\ DOMAIN finished' = {}
    BY <1>1, <1>7
  <2>5. /\ row' \in [Urls -> States] /\ PendingIn(row') = PendingIn(row)
        /\ \A v \in Urls : row'[v] = IF v \in DOMAIN more THEN more[v] ELSE row[v]
    BY <2>2, <2>3, <2>4
  <2>6. QueuesTyped'
    BY <1>1, <2>4, <2>5 DEF QueuesTyped
  <2>7. QueuesApart(H \ {u})'
    <3>1. \A v \in H \ {u} : v \notin DOMAIN more
      BY <1>2, <1>5
    <3> QED BY <1>1, <1>4, <1>5, <2>4, <2>5, <3>1 DEF QueuesApart
  <2>8. Counted'
    BY <1>1, <2>5 DEF Counted
  <2>9. \A v \in Urls : row[v] \in {"done", "failed"} => row'[v] = row[v]
    BY <1>6, <2>5
  <2>10. RowsGoOn({u})
    BY <1>2, <2>4, <2>5, <2>9 DEF RowsGoOn, DoneBy
  <2>11. state = "failed" => RowsGoOn({})
    BY <1>2, <2>4, <2>5, <2>9 DEF RowsGoOn, DoneBy
  <2>12. StillSettled /\ Settled(u)'
    BY <1>2, <1>6, <2>5, <2>9 DEF StillSettled, Settled
  <2>13. StillKnown
    BY <1>1, <1>6, <2>5 DEF StillKnown, Known
  <2>14. Cardinality(DOMAIN finished') < SyncEvery
    BY <2>4, FS_EmptySet, Bounds
  <2> QED BY <1>1, <2>6, <2>7, <2>8, <2>10, <2>11, <2>12, <2>13, <2>14
<1>8. CASE ~sync
  <2>1. row' = row /\ finished' = more
    BY <1>1, <1>8
  <2>2. QueuesTyped'
    BY <1>1, <1>6, <2>1 DEF QueuesTyped
  <2>3. QueuesApart(H \ {u})'
    BY <1>1, <1>2, <1>5, <2>1 DEF QueuesApart
  <2>4. Counted'
    BY <1>1, <2>1 DEF Counted
  <2>5. RowsGoOn({u}) /\ (state = "failed" => RowsGoOn({}))
    BY <1>2, <2>1 DEF RowsGoOn, DoneBy
  <2>6. StillSettled /\ Settled(u)'
    BY <1>2, <2>1 DEF StillSettled, Settled
  <2>7. StillKnown
    BY <1>1, <2>1 DEF StillKnown, Known
  <2> QED BY <1>1, <1>3, <1>8, <2>1, <2>2, <2>3, <2>4, <2>5, <2>6, <2>7
<1> QED BY <1>7, <1>8

\* The completions are written.
LEMMA SyncKeeps ==
  ASSUME QueuesTyped, NEW H, H \subseteq Urls, QueuesApart(H), Counted, Sync
  PROVE  /\ QueuesTyped' /\ QueuesApart(H)' /\ Counted'
         /\ RowsGoOn({}) /\ StillSettled /\ StillKnown
         /\ DOMAIN finished' = {}
         /\ UNCHANGED <<hostRow, clocks, seen>>
<1>1. /\ row' = WrittenRows(finished) /\ finished' = <<>>
      /\ UNCHANGED <<nextAt, tries, stage, hostRow, seen, pending, ready, deferred, clocks,
                     queued, idle>>
  BY DEF Sync
<1>2. row \in [Urls -> States] /\ ToSet(ready) \subseteq Urls /\ DOMAIN deferred \subseteq Urls
      /\ DOMAIN finished \subseteq Urls /\ \A v \in DOMAIN finished : finished[v] \in {"done", "failed"}
  BY DEF QueuesTyped, ToSet
<1>3. \A v \in DOMAIN finished : row[v] = "claimed"
  BY DEF QueuesApart
<1>4. /\ row' \in [Urls -> States] /\ PendingIn(row') = PendingIn(row)
      /\ \A v \in Urls : row'[v] = IF v \in DOMAIN finished THEN finished[v] ELSE row[v]
  <2> DEFINE rows == row
             completions == finished
  <2>1. rows \in [Urls -> States] /\ DOMAIN completions \subseteq Urls
        /\ \A v \in DOMAIN completions : completions[v] \in {"done", "failed"} /\ rows[v] = "claimed"
    BY <1>2, <1>3
  <2>2. row = rows /\ row' = WrittenRows(completions)
    BY <1>1
  <2> HIDE DEF rows, completions
  <2>3. /\ WrittenRows(completions) \in [Urls -> States]
        /\ \A v \in Urls : WrittenRows(completions)[v] = IF v \in DOMAIN completions THEN completions[v] ELSE rows[v]
        /\ PendingIn(WrittenRows(completions)) = PendingIn(rows)
    BY <2>1, <2>2, WriteKeeps
  <2> QED BY <2>2, <2>3 DEF rows, completions
<1>5. DOMAIN finished' = {}
  BY <1>1
<1>6. QueuesTyped'
  BY <1>1, <1>4, <1>5 DEF QueuesTyped
<1>7. QueuesApart(H)'
  BY <1>1, <1>2, <1>4, <1>5 DEF QueuesApart
<1>8. Counted'
  BY <1>1, <1>4 DEF Counted
<1>9. RowsGoOn({})
  BY <1>3, <1>4, <1>5 DEF RowsGoOn, DoneBy
<1>10. StillSettled
  BY <1>2, <1>4 DEF StillSettled, Settled
<1>11. StillKnown
  BY <1>1, <1>2, <1>4 DEF StillKnown, Known
<1> QED BY <1>1, <1>5, <1>6, <1>7, <1>8, <1>9, <1>10, <1>11

\* A URL is put back.
LEMMA PutBackKeeps ==
  ASSUME QueuesTyped, NEW H, H \subseteq Urls, QueuesApart(H), Counted,
         NEW u \in H, NEW when \in Nat, PutBack(u, when), UNCHANGED clocks,
         tries' = tries \/ tries' = [tries EXCEPT ![u] = @ + 1]
  PROVE  /\ QueuesTyped' /\ QueuesApart(H \ {u})' /\ Counted'
         /\ RowsGoOn({}) /\ StillSettled /\ StillKnown
         /\ UNCHANGED <<finished, hostRow, clocks, seen>>
<1>1. /\ row' = [row EXCEPT ![u] = "pending"] /\ nextAt' = [nextAt EXCEPT ![u] = when]
      /\ queued' = queued + 1 /\ stage' = stage /\ hostRow' = hostRow /\ seen' = seen /\ idle' = idle
      /\ pending' = pending /\ ready' = ready /\ deferred' = deferred /\ finished' = finished
  BY DEF PutBack, queue
<1>2. row \in [Urls -> States] /\ nextAt \in [Urls -> Nat] /\ tries \in [Urls -> Nat] /\ u \in Urls
      /\ ToSet(ready) \subseteq Urls /\ DOMAIN deferred \subseteq Urls /\ DOMAIN finished \subseteq Urls
      /\ Len(ready) \in Nat
  BY DEF QueuesTyped, ToSet
<1>3. /\ row' \in [Urls -> States] /\ nextAt' \in [Urls -> Nat] /\ tries' \in [Urls -> Nat]
      /\ \A v \in Urls : row'[v] = IF v = u THEN "pending" ELSE row[v]
  <2>1. tries[u] + 1 \in Nat
    BY <1>2
  <2>2. [tries EXCEPT ![u] = @ + 1] \in [Urls -> Nat]
    BY <1>2, <2>1
  <2>3. tries' \in [Urls -> Nat]
    BY <1>2, <2>2
  <2>4. row' \in [Urls -> States]
    BY <1>1, <1>2 DEF States
  <2>5. nextAt' \in [Urls -> Nat]
    BY <1>1, <1>2
  <2>6. \A v \in Urls : row'[v] = IF v = u THEN "pending" ELSE row[v]
    BY <1>1, <1>2
  <2> QED BY <2>3, <2>4, <2>5, <2>6
<1>4. row[u] = "claimed" /\ u \notin ToSet(ready) \union DOMAIN deferred \union DOMAIN finished
  BY DEF QueuesApart
<1>5. QueuesTyped'
  BY <1>1, <1>3 DEF QueuesTyped
<1>6. QueuesApart(H \ {u})'
  BY <1>1, <1>2, <1>3, <1>4 DEF QueuesApart
<1>7. Counted'
  <2>1. PendingIn(row') = PendingIn(row) \union {u} /\ PendingIn(row) \intersect {u} = {}
    BY <1>2, <1>3, <1>4 DEF PendingIn
  <2>2. PendingIn(row) \in SUBSET Urls /\ {u} \in SUBSET Urls /\ DOMAIN deferred \in SUBSET Urls
    BY <1>2 DEF PendingIn
  <2>3. Cardinality({u}) = 1
    BY FS_Singleton
  <2>4. Cardinality(PendingIn(row')) = Cardinality(PendingIn(row)) + 1
    BY <2>1, <2>2, <2>3, TwoParts
  <2>5. Cardinality(PendingIn(row)) \in Nat /\ Cardinality(DOMAIN deferred) \in Nat
    BY <2>2, PartCount
  <2> QED BY <1>1, <1>2, <2>4, <2>5 DEF Counted
<1>8. RowsGoOn({}) /\ StillSettled /\ StillKnown
  BY <1>1, <1>3, <1>4 DEF RowsGoOn, DoneBy, StillSettled, Settled, StillKnown, Known
<1> QED BY <1>1, <1>5, <1>6, <1>7, <1>8

\* The reservation is lengthened.
LEMMA HoldKeeps ==
  ASSUME ClocksTyped, NEW u \in Urls, NEW until \in Nat, HoldClaim(u, until)
  PROVE  /\ ClocksTyped' /\ WrittenHosts' = [WrittenHosts EXCEPT ![HostOf[u]] = until]
         /\ slot' = [slot EXCEPT ![HostOf[u]] = None] /\ slot[HostOf[u]] = u
         /\ UNCHANGED <<disk, seen, queue, queued, idle>>
<1>1. /\ setHostNextAt(HostOf[u], until, lru, dirty, None) /\ slot[HostOf[u]] = u
      /\ UNCHANGED <<disk, seen, queue, queued, idle>>
  BY DEF HoldClaim, HoldsClaim
<1> DEFINE h == HostOf[u]
           list == lru
           w == dirty
           o == None
<1>2. h \in Hosts
  BY Bounds
<1>3. list \in Seq(Hosts)
  BY DEF ClocksTyped
<1>4. w \in [Hosts -> Nat \union {None}]
  BY DEF ClocksTyped
<1>5. o \in Urls \union {None}
  OBVIOUS
<1>6. setHostNextAt(h, until, list, w, o)
  BY <1>1
<1>7. hostRow' \in [Hosts -> Nat]
  BY <1>1 DEF ClocksTyped, disk
<1>8. \A g \in Hosts : (IF w[g] # None THEN w[g] ELSE hostRow'[g]) = WrittenHosts[g]
  BY <1>1 DEF WrittenHosts, disk
<1> HIDE DEF h, list, w, o
<1>9. ClocksTyped' /\ WrittenHosts' = [WrittenHosts EXCEPT ![h] = until] /\ slot' = [slot EXCEPT ![h] = o]
  BY <1>2, <1>3, <1>4, <1>5, <1>6, <1>7, <1>8, ClockSet
<1> QED BY <1>1, <1>9 DEF h, o

-----------------------------------------------------------------------------
(* Open, close, kill, and time. *)

\* Time brings reservations and retries forward, and moves no URL.
LEMMA TickKeeps ==
  ASSUME QueuesTyped, NEW H, QueuesApart(H), Counted, FrontierTick
  PROVE  /\ QueuesTyped' /\ QueuesApart(H)' /\ Counted'
         /\ UNCHANGED <<row, stage, pending, seen, finished, slot>>
<1>1. /\ nextAt' = [u \in Urls |-> Less(nextAt[u])]
      /\ deferred' = [u \in DOMAIN deferred |-> Less(deferred[u])] /\ idle' = FALSE
      /\ UNCHANGED <<row, tries, stage, seen, pending, ready, finished, lru, slot, queued>>
  BY DEF FrontierTick
<1>2. \A n \in Nat : Less(n) \in Nat
  BY LessTyped
<1>3. \A u \in Urls : nextAt[u] \in Nat
  BY DEF QueuesTyped
<1>4. \A u \in DOMAIN deferred : deferred[u] \in Nat
  BY DEF QueuesTyped
<1>5. nextAt' \in [Urls -> Nat] /\ DOMAIN deferred' = DOMAIN deferred
      /\ \A u \in DOMAIN deferred' : deferred'[u] \in Nat
  BY <1>1, <1>2, <1>3, <1>4
<1>6. QueuesTyped'
  BY <1>1, <1>5 DEF QueuesTyped
<1> QED BY <1>1, <1>5, <1>6 DEF QueuesApart, Counted

\* A process has just begun, or ended: nothing is in a buffer.
Cleared == DOMAIN finished = {} /\ DOMAIN deferred = {} /\ ready = <<>> /\ pending = NoRows

\* What a process that starts makes of the tables: claimed rows are pending again, nothing is buffered.
LEMMA ResetKeeps ==
  ASSUME row' \in [Urls -> States], nextAt' \in [Urls -> Nat], tries' \in [Urls -> Nat],
         stage' \in [Urls -> Nat], Reset
  PROVE  /\ QueuesTyped' /\ QueuesApart({})' /\ Cleared'
         /\ seen' = [hot |-> {}, cold |-> {}] /\ Cardinality(DOMAIN finished') < SyncEvery
         /\ hostRow' \in [Hosts -> Nat] => ClocksTyped' /\ WrittenHosts' = hostRow'
         /\ queued' = Cardinality(PendingIn(row')) => Counted'
<1>1. /\ seen' = [hot |-> {}, cold |-> {}]
      /\ pending' = NoRows /\ ready' = <<>> /\ deferred' = <<>> /\ finished' = <<>>
      /\ lru' = <<>> /\ hot' = <<>>
      /\ dirty' = NoClocks /\ slot' = NoClocks /\ idle' = FALSE
  BY DEF Reset
<1>2. /\ DOMAIN deferred' = {} /\ DOMAIN finished' = {} /\ ToSet(ready') = {} /\ ready' \in Seq(Urls)
      /\ Len(ready') = 0 /\ Distinct(ready') /\ NoRows \in [Urls -> Nat]
      /\ seen' \in [hot : SUBSET Urls, cold : SUBSET Urls]
  BY <1>1 DEF ToSet, Distinct, NoRows
<1>3. QueuesTyped'
  BY <1>1, <1>2 DEF QueuesTyped
<1>4. QueuesApart({})'
  BY <1>2 DEF QueuesApart
<1>5. hostRow' \in [Hosts -> Nat] => ClocksTyped' /\ WrittenHosts' = hostRow'
  BY <1>1, ClocksNew
<1>6. Cardinality(DOMAIN finished') < SyncEvery /\ Cardinality(DOMAIN deferred') = 0
  BY <1>2, FS_EmptySet, Bounds
<1>7. Cardinality(PendingIn(row')) \in Nat
  <2>1. PendingIn(row') \in SUBSET Urls
    BY DEF PendingIn
  <2> QED BY <2>1, PartCount
<1>8. queued' = Cardinality(PendingIn(row')) => Counted'
  BY <1>2, <1>6, <1>7 DEF Counted
<1>9. Cleared'
  BY <1>1, <1>2 DEF Cleared, NoRows
<1> QED BY <1>1, <1>3, <1>4, <1>5, <1>6, <1>8, <1>9

\* The frontier is opened on tables that a process left in any state.
LEMMA OpenKeeps ==
  ASSUME QueuesTyped, ClocksTyped, Cleared, OpenFrontier
  PROVE  /\ QueuesTyped' /\ ClocksTyped' /\ QueuesApart({})' /\ Counted' /\ Cleared'
         /\ RowsGoOn({}) /\ StillSettled /\ StillKnown
         /\ seen' = [hot |-> {}, cold |-> {}] /\ Cardinality(DOMAIN finished') < SyncEvery
         /\ slot' = NoClocks
<1>1. /\ row' = [u \in Urls |-> IF row[u] = "claimed" THEN "pending" ELSE row[u]]
      /\ queued' = Cardinality({u \in Urls : row'[u] = "pending"})
      /\ Reset /\ UNCHANGED <<nextAt, tries, stage, hostRow>>
  BY DEF OpenFrontier
<1>2. /\ row \in [Urls -> States] /\ nextAt' \in [Urls -> Nat] /\ tries' \in [Urls -> Nat]
      /\ stage' \in [Urls -> Nat] /\ hostRow' \in [Hosts -> Nat]
  BY <1>1 DEF QueuesTyped, ClocksTyped
<1>3. /\ row' \in [Urls -> States]
      /\ \A u \in Urls : row'[u] = IF row[u] = "claimed" THEN "pending" ELSE row[u]
  BY <1>1, <1>2 DEF States
<1>4. /\ QueuesTyped' /\ QueuesApart({})' /\ Cleared'
      /\ seen' = [hot |-> {}, cold |-> {}] /\ Cardinality(DOMAIN finished') < SyncEvery
      /\ ClocksTyped' /\ WrittenHosts' = hostRow'
      /\ queued' = Cardinality(PendingIn(row')) => Counted'
  BY <1>1, <1>2, <1>3, ResetKeeps
<1>5. Counted'
  BY <1>1, <1>4 DEF PendingIn
<1>6. RowsGoOn({}) /\ StillSettled
  BY <1>3, <1>4 DEF RowsGoOn, DoneBy, StillSettled, Settled, Cleared
<1>7. StillKnown
  BY <1>1, <1>3 DEF StillKnown, Known, Cleared, NoRows
<1>8. slot' = NoClocks
  BY <1>1 DEF Reset
<1> QED BY <1>4, <1>5, <1>6, <1>7, <1>8

\* The frontier is closed: what is in a buffer is written or given back.
LEMMA CloseKeeps ==
  ASSUME QueuesTyped, ClocksTyped, NEW H, QueuesApart(H), Close
  PROVE  /\ QueuesTyped' /\ ClocksTyped' /\ QueuesApart({})' /\ Cleared'
         /\ RowsGoOn({}) /\ StillSettled /\ StillKnown
         /\ seen' = [hot |-> {}, cold |-> {}] /\ Cardinality(DOMAIN finished') < SyncEvery
<1> DEFINE written == WrittenRows(finished)
           merged == MergedRows(written, Staged)
<1>1. /\ row' = [u \in Urls |-> IF u \in ToSet(ready) \union DOMAIN deferred THEN "pending" ELSE merged[u]]
      /\ nextAt' = [u \in Urls |-> IF u \in DOMAIN deferred THEN deferred[u] ELSE nextAt[u]]
      /\ stage' = NoRows /\ hostRow' = WrittenHosts /\ Reset /\ UNCHANGED tries
  BY DEF Close
<1>2. /\ row \in [Urls -> States] /\ Staged \in [Urls -> Nat]
      /\ \A u \in Urls : stage[u] \in Nat /\ pending[u] \in Nat /\ Staged[u] = stage[u] + pending[u]
      /\ nextAt \in [Urls -> Nat] /\ \A u \in DOMAIN deferred : deferred[u] \in Nat
      /\ DOMAIN finished \subseteq Urls /\ \A v \in DOMAIN finished : finished[v] \in {"done", "failed"}
  BY DEF QueuesTyped, Staged
<1>3. /\ \A v \in ToSet(ready) \union DOMAIN deferred \union DOMAIN finished : row[v] = "claimed"
      /\ \A v \in DOMAIN finished : v \notin ToSet(ready) \union DOMAIN deferred
  BY DEF QueuesApart
<1>4. /\ written \in [Urls -> States]
      /\ \A v \in Urls : written[v] = IF v \in DOMAIN finished THEN finished[v] ELSE row[v]
  <2> DEFINE rows == row
             completions == finished
  <2>1. rows \in [Urls -> States] /\ DOMAIN completions \subseteq Urls
        /\ \A v \in DOMAIN completions : completions[v] \in {"done", "failed"} /\ rows[v] = "claimed"
    BY <1>2, <1>3
  <2>2. row = rows
    OBVIOUS
  <2> HIDE DEF rows, completions
  <2>3. /\ WrittenRows(completions) \in [Urls -> States]
        /\ \A v \in Urls : WrittenRows(completions)[v] = IF v \in DOMAIN completions THEN completions[v] ELSE rows[v]
    BY <2>1, <2>2, WriteKeeps
  <2> QED BY <2>2, <2>3 DEF rows, completions
<1> HIDE DEF written
<1>5. /\ merged \in [Urls -> States]
      /\ \A u \in Urls : written[u] # "absent" => merged[u] = written[u]
      /\ \A u \in Urls : merged[u] # written[u] => merged[u] = "pending"
      /\ \A u \in Urls : Staged[u] > 0 => merged[u] # "absent"
  BY <1>2, <1>4, Merged
<1> HIDE DEF merged
<1>6. /\ row' \in [Urls -> States]
      /\ \A u \in Urls : row'[u] = IF u \in ToSet(ready) \union DOMAIN deferred THEN "pending" ELSE merged[u]
  BY <1>1, <1>5 DEF States
<1>7. nextAt' \in [Urls -> Nat] /\ tries' \in [Urls -> Nat] /\ stage' \in [Urls -> Nat]
  BY <1>1, <1>2 DEF QueuesTyped, NoRows
<1>8. hostRow' \in [Hosts -> Nat]
  BY <1>1, ClockRead
<1>9. /\ QueuesTyped' /\ ClocksTyped' /\ QueuesApart({})' /\ Cleared'
      /\ seen' = [hot |-> {}, cold |-> {}] /\ Cardinality(DOMAIN finished') < SyncEvery
  BY <1>1, <1>6, <1>7, <1>8, ResetKeeps
<1>10. \A u \in Urls : row[u] \in {"done", "failed"} => row'[u] = row[u]
  <2> SUFFICES ASSUME NEW u \in Urls, row[u] \in {"done", "failed"} PROVE row'[u] = row[u]
    OBVIOUS
  <2>1. u \notin DOMAIN finished /\ u \notin ToSet(ready) \union DOMAIN deferred
    BY <1>3
  <2>2. written[u] = row[u]
    BY <1>4, <2>1
  <2> QED BY <1>5, <1>6, <2>1, <2>2
<1>11. \A u \in Urls : DoneBy(u)' => DoneBy(u)
  <2> SUFFICES ASSUME NEW u \in Urls, DoneBy(u)' PROVE DoneBy(u)
    OBVIOUS
  <2>1. row'[u] = "done"
    BY <1>9 DEF DoneBy, Cleared
  <2>2. written[u] = "done"
    BY <1>5, <1>6, <2>1
  <2> QED BY <1>4, <2>2 DEF DoneBy
<1>12. StillSettled
  <2> SUFFICES ASSUME NEW u \in Urls, u \in DOMAIN finished PROVE row'[u] \in {"done", "failed"}
    BY <1>10 DEF StillSettled, Settled
  <2>1. written[u] = finished[u] /\ finished[u] \in {"done", "failed"}
    BY <1>2, <1>4
  <2>2. u \notin ToSet(ready) \union DOMAIN deferred
    BY <1>3
  <2> QED BY <1>5, <1>6, <2>1, <2>2
<1>13. StillKnown
  <2> SUFFICES ASSUME NEW u \in Urls, Known(u) PROVE row'[u] # "absent"
    BY DEF StillKnown, Known
  <2>1. row[u] # "absent" \/ Staged[u] > 0
    BY <1>2 DEF Known
  <2>2. row[u] # "absent" => written[u] # "absent"
    BY <1>2, <1>4
  <2>3. merged[u] # "absent"
    BY <1>5, <2>1, <2>2
  <2> QED BY <1>6, <2>3
<1> QED BY <1>9, <1>10, <1>11, <1>12, <1>13 DEF RowsGoOn

\* The process is killed: the buffers are gone, the tables stay.
LEMMA KillKeeps ==
  ASSUME QueuesTyped, ClocksTyped, Kill
  PROVE  /\ QueuesTyped' /\ ClocksTyped' /\ QueuesApart({})' /\ Cleared'
         /\ RowsGoOn({}) /\ row' = row /\ stage' = stage
         /\ seen' = [hot |-> {}, cold |-> {}] /\ Cardinality(DOMAIN finished') < SyncEvery
<1>1. Reset /\ UNCHANGED <<row, nextAt, tries, stage, hostRow>>
  BY DEF Kill, disk
<1>2. /\ row' \in [Urls -> States] /\ nextAt' \in [Urls -> Nat] /\ tries' \in [Urls -> Nat]
      /\ stage' \in [Urls -> Nat] /\ hostRow' \in [Hosts -> Nat]
  BY <1>1 DEF QueuesTyped, ClocksTyped
<1>3. /\ QueuesTyped' /\ ClocksTyped' /\ QueuesApart({})' /\ Cleared'
      /\ seen' = [hot |-> {}, cold |-> {}] /\ Cardinality(DOMAIN finished') < SyncEvery
  BY <1>1, <1>2, ResetKeeps
<1>4. RowsGoOn({})
  BY <1>1, <1>3 DEF RowsGoOn, DoneBy, Cleared
<1> QED BY <1>1, <1>3, <1>4

-----------------------------------------------------------------------------
(* The invariant of the crawl. *)

\* The assumption on the constants of the crawler, its parts.
LEMMA CrawlBounds ==
  /\ IsFiniteSet(Workers) /\ Links \in [Urls -> SUBSET Urls] /\ Seeds \in Seq(Urls)
  /\ Retries \in Nat /\ RetryDelay \in Nat /\ SlowDelay \in Nat /\ SlowDelay > Delay
BY CrawlerAssumption

\* The places of a worker that counts itself in, that holds a URL, and all of them.
InProcess == {"robots", "wait", "request", "sent", "links"}
InHand == InProcess \union {"popped"}
Places == {"top", "pop", "empty", "free", "gone"} \union InHand

\* What the variables of the crawler may be.
CrawlTyped ==
  /\ phase \in {"down", "seeding", "running", "closing"} /\ seeding \in Seq(Urls)
  /\ at \in [Workers -> Places] /\ cur \in [Workers -> Urls \union {None}]
  /\ todo \in [Workers -> SUBSET Urls] /\ archive \in [Urls -> Nat] /\ kills \in Nat

\* Workers that count themselves in.
Inside == {w \in Workers : at[w] \in InProcess}

\* A worker holds a URL just while it works on it, and no two hold the same.
HandsHold ==
  /\ \A w \in Workers : at[w] \in InHand <=> cur[w] # None
  /\ \A w \in Workers : todo[w] # {} => at[w] = "links"
  /\ \A v, w \in Workers : cur[v] # None /\ cur[v] = cur[w] => v = w
  /\ phase # "running" => \A w \in Workers : at[w] = "gone"
  /\ inflight = Cardinality(Inside)

\* Why a URL may count as done.
Reason(u) == archive[u] > 0 \/ u \in refused \union silent \union dropped

\* What is in the archive, or counts as done, and why.
PagesKnown ==
  /\ \A u \in Urls : DoneBy(u) => Reason(u)
  /\ \A w \in Workers : at[w] = "links" => archive[cur[w]] > 0
  /\ \A u \in Urls : archive[u] > 1 => u \in lost
  /\ \A u \in Urls : archive[u] > 0 /\ u \notin lost =>
       Settled(u) \/ \E w \in Workers : at[w] = "links" /\ cur[w] = u
  /\ kills = 0 => \A u \in seen.hot \union seen.cold : Known(u)
  /\ kills = 0 =>
       \A u \in Urls : archive[u] > 0 => \A l \in Links[u] :
         Known(l) \/ \E w \in Workers : at[w] = "links" /\ cur[w] = u /\ l \in todo[w]

\* What the frontier keeps while H is in hands.
FrontierHolds(H) ==
  /\ QueuesTyped /\ ClocksTyped /\ QueuesApart(H) /\ Cardinality(DOMAIN finished) < SyncEvery
  /\ phase = "down" => Cleared /\ queued = 0
  /\ phase # "down" => Counted

\* The inductive invariant of the crawler.
CrawlInv == FrontierHolds(Held) /\ CrawlTyped /\ HandsHold /\ PagesKnown

\* Whoever has a place is in a run.
LEMMA Present ==
  ASSUME HandsHold, NEW w \in Workers, at[w] # "gone"
  PROVE  phase = "running"
BY DEF HandsHold

\* A worker that goes to another place changes the count of those inside by what it should.
LEMMA InsideCount ==
  ASSUME NEW w \in Workers, NEW p, at \in [Workers -> Places], at' = [at EXCEPT ![w] = p]
  PROVE  /\ IsFiniteSet(Inside) /\ Cardinality(Inside) \in Nat
         /\ Cardinality(Inside') = Cardinality(Inside) + (IF p \in InProcess THEN 1 ELSE 0)
                                     - (IF at[w] \in InProcess THEN 1 ELSE 0)
<1> DEFINE rest == {v \in Workers : v # w /\ at[v] \in InProcess}
<1>1. IsFiniteSet(rest) /\ Cardinality(rest) \in Nat
  <2>1. IsFiniteSet(Workers) /\ rest \subseteq Workers
    BY CrawlBounds
  <2> QED BY <2>1, FS_Subset, FS_CardinalityType
<1>2. w \notin rest /\ Inside = IF at[w] \in InProcess THEN rest \union {w} ELSE rest
  BY DEF Inside
<1>3. Inside' = IF p \in InProcess THEN rest \union {w} ELSE rest
  BY DEF Inside
<1> HIDE DEF rest
<1>4. IsFiniteSet(rest \union {w}) /\ Cardinality(rest \union {w}) = Cardinality(rest) + 1
  BY <1>1, <1>2, FS_AddElement
<1>5. IsFiniteSet(Inside) /\ Cardinality(Inside) \in Nat
      /\ Cardinality(Inside) = Cardinality(rest) + (IF at[w] \in InProcess THEN 1 ELSE 0)
  <2>1. CASE at[w] \in InProcess
    BY <1>1, <1>2, <1>4, <2>1
  <2>2. CASE at[w] \notin InProcess
    BY <1>1, <1>2, <2>2
  <2> QED BY <2>1, <2>2
<1>6. Cardinality(Inside') = Cardinality(rest) + (IF p \in InProcess THEN 1 ELSE 0)
  <2>1. CASE p \in InProcess
    BY <1>1, <1>3, <1>4, <2>1
  <2>2. CASE p \notin InProcess
    BY <1>1, <1>3, <2>2
  <2> QED BY <2>1, <2>2
<1>7. CASE at[w] \in InProcess
  BY <1>1, <1>5, <1>6, <1>7
<1>8. CASE at[w] \notin InProcess
  BY <1>1, <1>5, <1>6, <1>8
<1> QED BY <1>7, <1>8

\* One worker moves, with what it holds.
Moves(w, p, c, t) ==
  /\ at' = [at EXCEPT ![w] = p] /\ cur' = [cur EXCEPT ![w] = c] /\ todo' = [todo EXCEPT ![w] = t]
  /\ inflight' = inflight + (IF p \in InProcess THEN 1 ELSE 0)
                   - (IF at[w] \in InProcess THEN 1 ELSE 0)
  /\ phase' = phase /\ seeding' = seeding /\ kills' = kills

\* A worker goes to another place with a URL that nobody else holds, with its own, or with none.
LEMMA HandsMove ==
  ASSUME CrawlTyped, HandsHold, NEW w \in Workers, NEW p \in Places, NEW c \in Urls \union {None},
         NEW t \in SUBSET Urls, phase = "running", Moves(w, p, c, t),
         p \in InHand <=> c # None, t # {} => p = "links", c = cur[w] \/ c \notin Held,
         archive' \in [Urls -> Nat]
  PROVE  /\ CrawlTyped' /\ HandsHold'
         /\ Held' = (Held \ {cur[w]}) \union ({c} \ {None})
<1>1. /\ at' = [at EXCEPT ![w] = p] /\ cur' = [cur EXCEPT ![w] = c] /\ todo' = [todo EXCEPT ![w] = t]
      /\ inflight' = inflight + (IF p \in InProcess THEN 1 ELSE 0)
                       - (IF at[w] \in InProcess THEN 1 ELSE 0)
      /\ phase' = phase /\ seeding' = seeding /\ kills' = kills
  BY DEF Moves
<1>2. at \in [Workers -> Places] /\ cur \in [Workers -> Urls \union {None}]
      /\ todo \in [Workers -> SUBSET Urls]
  BY DEF CrawlTyped
<1>3. CrawlTyped'
  <2>1. at' \in [Workers -> Places]
    BY <1>1, <1>2
  <2>2. cur' \in [Workers -> Urls \union {None}]
    BY <1>1, <1>2
  <2>3. todo' \in [Workers -> SUBSET Urls]
    BY <1>1, <1>2
  <2> QED BY <1>1, <2>1, <2>2, <2>3 DEF CrawlTyped
<1>4. /\ \A v \in Workers : at'[v] = IF v = w THEN p ELSE at[v]
      /\ \A v \in Workers : cur'[v] = IF v = w THEN c ELSE cur[v]
      /\ \A v \in Workers : todo'[v] = IF v = w THEN t ELSE todo[v]
  BY <1>1, <1>2
<1>5. Held = {cur[v] : v \in Workers} \ {None} /\ Held' = {cur'[v] : v \in Workers} \ {None}
  BY DEF Held
<1>6. /\ \A v \in Workers : at[v] \in InHand <=> cur[v] # None
      /\ \A v \in Workers : todo[v] # {} => at[v] = "links"
      /\ \A v, x \in Workers : cur[v] # None /\ cur[v] = cur[x] => v = x
      /\ inflight = Cardinality(Inside)
  BY DEF HandsHold
<1>7. HandsHold'
  <2>1. \A v \in Workers : at'[v] \in InHand <=> cur'[v] # None
    BY <1>4, <1>6
  <2>2. \A v \in Workers : todo'[v] # {} => at'[v] = "links"
    BY <1>4, <1>6
  <2>3. \A v, x \in Workers : cur'[v] # None /\ cur'[v] = cur'[x] => v = x
    <3>1. \A v \in Workers : v # w /\ cur[v] # None => cur[v] # c
      BY <1>5, <1>6
    <3> QED BY <1>4, <1>6, <3>1
  <2>4. inflight' = Cardinality(Inside')
    BY <1>1, <1>2, <1>6, InsideCount
  <2> QED BY <1>1, <2>1, <2>2, <2>3, <2>4 DEF HandsHold
<1>8. Held' = (Held \ {cur[w]}) \union ({c} \ {None})
  <2>1. \A u : u \in Held' => u \in (Held \ {cur[w]}) \union ({c} \ {None})
    BY <1>4, <1>5, <1>6
  <2>2. \A u : u \in (Held \ {cur[w]}) \union ({c} \ {None}) => u \in Held'
    BY <1>4, <1>5
  <2> QED BY <2>1, <2>2
<1> QED BY <1>3, <1>7, <1>8

SettledUrls == {u \in Urls : Settled(u)}

\* A step that archives nothing keeps what is known of the pages.
LEMMA PagesStay ==
  ASSUME PagesKnown, CrawlTyped, HandsHold, NEW fresh \in SUBSET Urls, RowsGoOn(fresh),
         \A u \in Urls : Settled(u) => Settled(u)' \/ u \in lost',
         kills' = 0 => kills = 0 /\ StillKnown /\ \A u \in seen'.hot \union seen'.cold : Known(u)',
         archive' = archive, \A u \in Urls : Reason(u) => Reason(u)', \A u \in fresh : Reason(u)',
         lost \subseteq lost',
         \A v \in Workers : at'[v] = "links" => at[v] = "links" /\ cur'[v] = cur[v],
         \A v \in Workers : at[v] = "links" =>
            \/ at'[v] = "links" /\ cur'[v] = cur[v]
            \/ cur[v] \in SettledUrls' \union lost',
         kills' = 0 => \A v \in Workers : at[v] = "links" => \A l \in todo[v] :
            Known(l)' \/ (at'[v] = "links" /\ cur'[v] = cur[v] /\ l \in todo'[v])
  PROVE  PagesKnown'
<1>1. \A u \in Urls : DoneBy(u)' => Reason(u)'
  BY DEF PagesKnown, RowsGoOn
<1>2. \A v \in Workers : at'[v] = "links" => archive'[cur'[v]] > 0
  BY DEF PagesKnown
<1>3. \A u \in Urls : archive'[u] > 1 => u \in lost'
  BY DEF PagesKnown
<1>4. ASSUME NEW u \in Urls, archive'[u] > 0, u \notin lost'
      PROVE  Settled(u)' \/ \E v \in Workers : at'[v] = "links" /\ cur'[v] = u
  <2>1. Settled(u) \/ \E v \in Workers : at[v] = "links" /\ cur[v] = u
    BY <1>4 DEF PagesKnown
  <2>2. CASE Settled(u)
    BY <1>4, <2>2
  <2>3. CASE \E v \in Workers : at[v] = "links" /\ cur[v] = u
    <3>1. PICK v \in Workers : at[v] = "links" /\ cur[v] = u
      BY <2>3
    <3>2. CASE at'[v] = "links" /\ cur'[v] = cur[v]
      BY <3>1, <3>2
    <3>3. CASE cur[v] \in SettledUrls' \union lost'
      BY <1>4, <3>1, <3>3 DEF SettledUrls
    <3> QED BY <3>1, <3>2, <3>3
  <2> QED BY <2>1, <2>2, <2>3
<1>5. ASSUME kills' = 0, NEW u \in Urls, archive'[u] > 0, NEW l \in Links[u]
      PROVE  Known(l)' \/ \E v \in Workers : at'[v] = "links" /\ cur'[v] = u /\ l \in todo'[v]
  <2>1. l \in Urls /\ kills = 0
    BY <1>5, CrawlBounds
  <2>2. Known(l) \/ \E v \in Workers : at[v] = "links" /\ cur[v] = u /\ l \in todo[v]
    BY <1>5, <2>1 DEF PagesKnown
  <2>3. CASE Known(l)
    BY <1>5, <2>1, <2>3 DEF StillKnown
  <2>4. CASE \E v \in Workers : at[v] = "links" /\ cur[v] = u /\ l \in todo[v]
    BY <1>5, <2>4
  <2> QED BY <2>2, <2>3, <2>4
<1> QED BY <1>1, <1>2, <1>3, <1>4, <1>5 DEF PagesKnown

\* What is known to the seen cache stays known, as long as it is the same cache.
LEMMA SeenStays ==
  ASSUME PagesKnown, QueuesTyped, StillKnown, seen' = seen, kills = 0
  PROVE  \A u \in seen'.hot \union seen'.cold : Known(u)'
<1>1. seen.hot \subseteq Urls /\ seen.cold \subseteq Urls
  BY DEF QueuesTyped
<1> QED BY <1>1 DEF PagesKnown, StillKnown

\* Nothing happens to the frontier.
LEMMA Unmoved ==
  ASSUME UNCHANGED frontierVars
  PROVE  /\ QueuesTyped => QueuesTyped'
         /\ ClocksTyped => ClocksTyped'
         /\ \A H : QueuesApart(H) => QueuesApart(H)'
         /\ Counted => Counted'
         /\ Cleared => Cleared'
         /\ RowsGoOn({}) /\ StillSettled /\ StillKnown /\ WrittenHosts' = WrittenHosts
         /\ row' = row /\ finished' = finished /\ seen' = seen /\ queued' = queued /\ slot' = slot
         /\ tries' = tries
<1>1. UNCHANGED <<row, nextAt, tries, stage, hostRow, seen, pending, ready, deferred, finished,
                  lru, hot, dirty, slot, queued, idle>>
  BY DEF frontierVars, disk, mem, queue, clocks
<1>2. QueuesTyped => QueuesTyped'
  BY <1>1 DEF QueuesTyped
<1>3. WrittenHosts' = WrittenHosts
  BY <1>1 DEF WrittenHosts
<1>4. ClocksTyped => ClocksTyped'
  BY <1>1, <1>3 DEF ClocksTyped
<1>5. \A H : QueuesApart(H) => QueuesApart(H)'
  BY <1>1 DEF QueuesApart
<1>6. (Counted => Counted') /\ (Cleared => Cleared')
  BY <1>1 DEF Counted, Cleared, NoRows
<1>7. RowsGoOn({}) /\ StillSettled /\ StillKnown
  BY <1>1 DEF RowsGoOn, DoneBy, StillSettled, Settled, StillKnown, Known
<1> QED BY <1>1, <1>2, <1>3, <1>4, <1>5, <1>6, <1>7

\* Fewer are in hands.
LEMMA ApartOfLess ==
  ASSUME NEW H, NEW G, G \subseteq H, QueuesApart(H)
  PROVE  QueuesApart(G)
BY DEF QueuesApart

\* A step that goes on from the rows as they are unsettles nothing.
LEMMA SettledFromRows ==
  ASSUME NEW fresh, RowsGoOn(fresh)
  PROVE  SettledStays
BY DEF RowsGoOn, SettledStays

-----------------------------------------------------------------------------
(* The steps of a worker. *)

\* What a worker's step that archives and admits nothing has to keep.
LEMMA WorkerStays ==
  ASSUME CrawlInv, NEW w \in Workers, at[w] # "gone", NEW p \in Places,
         NEW c \in Urls \union {None}, NEW t \in SUBSET Urls, Moves(w, p, c, t),
         p \in InHand <=> c # None, t # {} => p = "links", c = cur[w] \/ c \notin Held,
         NEW H, H = (Held \ {cur[w]}) \union ({c} \ {None}),
         QueuesTyped', ClocksTyped', QueuesApart(H)', Counted', Cardinality(DOMAIN finished') < SyncEvery,
         NEW fresh \in SUBSET Urls, RowsGoOn(fresh), StillSettled, StillKnown, seen' = seen,
         archive' = archive, refused \subseteq refused', silent \subseteq silent',
         dropped \subseteq dropped', lost \subseteq lost', \A u \in fresh : Reason(u)',
         p = "links" => at[w] = "links" /\ c = cur[w],
         at[w] = "links" => p = "links" \/ cur[w] \in SettledUrls' \union lost',
         todo[w] \subseteq t
  PROVE  CrawlInv' /\ SettledStays
<1>1. /\ QueuesTyped /\ CrawlTyped /\ HandsHold /\ PagesKnown
      /\ at \in [Workers -> Places] /\ cur \in [Workers -> Urls \union {None}]
      /\ todo \in [Workers -> SUBSET Urls] /\ archive \in [Urls -> Nat]
  BY DEF CrawlInv, FrontierHolds, CrawlTyped
<1>2. phase = "running"
  BY <1>1, Present
<1>3. CrawlTyped' /\ HandsHold' /\ Held' = H
  BY <1>1, <1>2, HandsMove
<1>4. /\ \A v \in Workers : at'[v] = IF v = w THEN p ELSE at[v]
      /\ \A v \in Workers : cur'[v] = IF v = w THEN c ELSE cur[v]
      /\ \A v \in Workers : todo'[v] = IF v = w THEN t ELSE todo[v]
      /\ phase' = phase /\ kills' = kills
  BY <1>1 DEF Moves
<1>5. PagesKnown'
  <2>1. \A u \in Urls : Settled(u) => Settled(u)' \/ u \in lost'
    BY DEF StillSettled
  <2>2. kills' = 0 => kills = 0 /\ StillKnown /\ \A u \in seen'.hot \union seen'.cold : Known(u)'
    BY <1>1, <1>4, SeenStays
  <2>3. \A u \in Urls : Reason(u) => Reason(u)'
    BY DEF Reason
  <2>4. \A v \in Workers : at'[v] = "links" => at[v] = "links" /\ cur'[v] = cur[v]
    BY <1>4
  <2>5. \A v \in Workers : at[v] = "links" =>
            \/ at'[v] = "links" /\ cur'[v] = cur[v]
            \/ cur[v] \in SettledUrls' \union lost'
    BY <1>4
  <2>6. kills' = 0 => \A v \in Workers : at[v] = "links" => \A l \in todo[v] :
            Known(l)' \/ (at'[v] = "links" /\ cur'[v] = cur[v] /\ l \in todo'[v])
    BY <1>4
  <2> QED BY <1>1, <2>1, <2>2, <2>3, <2>4, <2>5, <2>6, PagesStay
<1>6. FrontierHolds(Held)'
  BY <1>2, <1>3, <1>4 DEF FrontierHolds, QueuesApart
<1> QED BY <1>3, <1>5, <1>6, SettledFromRows DEF CrawlInv

\* One that leaves the frontier alone.
LEMMA WorkerGoes ==
  ASSUME CrawlInv, NEW w \in Workers, at[w] # "gone", NEW p \in Places,
         NEW c \in {cur[w], None}, NEW t \in SUBSET Urls, Moves(w, p, c, t),
         p \in InHand <=> c # None, t # {} => p = "links",
         UNCHANGED frontierVars, archive' = archive, refused \subseteq refused',
         silent \subseteq silent', dropped \subseteq dropped', lost \subseteq lost',
         p = "links" => at[w] = "links" /\ c = cur[w],
         at[w] = "links" => p = "links" \/ cur[w] \in lost', todo[w] \subseteq t
  PROVE  CrawlInv' /\ SettledStays
<1>1. /\ QueuesTyped /\ ClocksTyped /\ QueuesApart(Held) /\ Cardinality(DOMAIN finished) < SyncEvery
      /\ (phase # "down" => Counted) /\ CrawlTyped /\ HandsHold
  BY DEF CrawlInv, FrontierHolds
<1>2. phase = "running" /\ cur[w] \in Urls \union {None}
  BY <1>1, Present DEF CrawlTyped
<1> DEFINE H == (Held \ {cur[w]}) \union ({c} \ {None})
<1>3. H \subseteq Held
  BY DEF Held
<1>4. QueuesApart(H)
  BY <1>1, <1>3, ApartOfLess
<1>5. /\ c \in Urls \union {None} /\ (c = cur[w] \/ c \notin Held)
  BY <1>2 DEF Held
<1>6. PICK G : G = H
  OBVIOUS
<1>7. QueuesApart(G)
  BY <1>4, <1>6 DEF QueuesApart
<1>8. /\ QueuesTyped' /\ ClocksTyped' /\ QueuesApart(G)' /\ Counted'
      /\ RowsGoOn({}) /\ StillSettled /\ StillKnown /\ seen' = seen /\ finished' = finished
  BY <1>1, <1>2, <1>7, Unmoved
<1>9. at[w] = "links" => p = "links" \/ cur[w] \in SettledUrls' \union lost'
  OBVIOUS
<1> QED BY <1>1, <1>5, <1>6, <1>8, <1>9, WorkerStays DEF H


\* A worker goes on with what it has.
LEMMA WorkerWalks ==
  ASSUME CrawlInv, NEW w \in Workers, at[w] # "gone", NEW p \in Places, at' = [at EXCEPT ![w] = p],
         UNCHANGED <<frontierVars, phase, seeding, cur, todo, kills, archive, refused, silent,
                     dropped, lost>>,
         p \in InHand <=> at[w] \in InHand, at[w] # "links" /\ p # "links",
         inflight' = inflight + (IF p \in InProcess THEN 1 ELSE 0)
                       - (IF at[w] \in InProcess THEN 1 ELSE 0)
  PROVE  CrawlInv' /\ SettledStays
<1>1. /\ cur \in [Workers -> Urls \union {None}] /\ todo \in [Workers -> SUBSET Urls]
      /\ HandsHold
  BY DEF CrawlInv, CrawlTyped
<1> DEFINE c == cur[w]
           t == todo[w]
<1>2. c \in {cur[w], None} /\ t \in SUBSET Urls
  BY <1>1
<1>3. Moves(w, p, c, t)
  BY <1>1 DEF Moves
<1>4. (p \in InHand <=> c # None) /\ t = {}
  BY <1>1 DEF HandsHold
<1>5. UNCHANGED frontierVars /\ archive' = archive /\ refused \subseteq refused'
      /\ silent \subseteq silent' /\ dropped \subseteq dropped' /\ lost \subseteq lost'
      /\ todo[w] \subseteq t
  OBVIOUS
<1> HIDE DEF c, t
<1> QED BY <1>2, <1>3, <1>4, <1>5, WorkerGoes

\* How many workers count themselves in is a number.
LEMMA InflightNumber ==
  ASSUME CrawlTyped, HandsHold
  PROVE  inflight \in Nat
<1>1. IsFiniteSet(Workers) /\ Inside \subseteq Workers
  BY CrawlBounds DEF Inside
<1>2. Cardinality(Inside) \in Nat
  BY <1>1, FS_Subset, FS_CardinalityType
<1> QED BY <1>2 DEF HandsHold

\* The step of a worker from a place outside a URL to another one.
LEMMA WorkerLooks ==
  ASSUME CrawlInv, NEW w \in Workers, at[w] \in {"top", "pop", "empty", "free"},
         NEW p \in {"top", "pop", "empty", "free", "gone"}, at' = [at EXCEPT ![w] = p],
         UNCHANGED <<frontierVars, phase, seeding, inflight, cur, todo, kills, archive, refused,
                     silent, dropped, lost>>
  PROVE  CrawlInv' /\ SettledStays
<1>1. inflight \in Nat
  BY InflightNumber DEF CrawlInv
<1>2. /\ at[w] # "gone" /\ p \in Places /\ (p \in InHand <=> at[w] \in InHand)
      /\ at[w] # "links" /\ p # "links"
  BY DEF Places, InHand, InProcess
<1>3. inflight' = inflight + (IF p \in InProcess THEN 1 ELSE 0)
                    - (IF at[w] \in InProcess THEN 1 ELSE 0)
  BY <1>1 DEF InProcess
<1> QED BY <1>2, <1>3, WorkerWalks

\* A worker looks at the frontier and gets nothing from it.
LEMMA LooksStay ==
  ASSUME CrawlInv, NEW w \in Workers,
         Top(w) \/ PopFails(w) \/ AskLen(w) \/ AskInflight(w)
  PROVE  CrawlInv' /\ SettledStays
<1>1. CASE Top(w)
  <2>1. PICK p \in {"gone", "pop"} : at' = [at EXCEPT ![w] = p]
    BY <1>1 DEF Top, Goto, Stop
  <2>2. /\ at[w] = "top"
        /\ UNCHANGED <<frontierVars, phase, seeding, inflight, cur, todo, kills, archive, refused,
                       silent, dropped, lost>>
    BY <1>1 DEF Top, world, counts
  <2> QED BY <2>1, <2>2, WorkerLooks
<1>2. CASE PopFails(w)
  <2>1. at' = [at EXCEPT ![w] = "gone"]
    BY <1>2 DEF PopFails, Goto, Stop
  <2>2. /\ at[w] = "pop"
        /\ UNCHANGED <<frontierVars, phase, seeding, inflight, cur, todo, kills, archive, refused,
                       silent, dropped, lost>>
    BY <1>2 DEF PopFails, world
  <2> QED BY <2>1, <2>2, WorkerLooks
<1>3. CASE AskLen(w)
  <2>1. PICK p \in {"free", "top"} : at' = [at EXCEPT ![w] = p]
    BY <1>3 DEF AskLen, Goto
  <2>2. /\ at[w] = "empty"
        /\ UNCHANGED <<frontierVars, phase, seeding, inflight, cur, todo, kills, archive, refused,
                       silent, dropped, lost>>
    BY <1>3 DEF AskLen, world, counts, run
  <2> QED BY <2>1, <2>2, WorkerLooks
<1>4. CASE AskInflight(w)
  <2>1. PICK p \in {"gone", "top"} : at' = [at EXCEPT ![w] = p]
    BY <1>4 DEF AskInflight, Goto, Stop
  <2>2. /\ at[w] = "free"
        /\ UNCHANGED <<frontierVars, phase, seeding, inflight, cur, todo, kills, archive, refused,
                       silent, dropped, lost>>
    BY <1>4 DEF AskInflight, world, counts
  <2> QED BY <2>1, <2>2, WorkerLooks
<1> QED BY <1>1, <1>2, <1>3, <1>4

\* The steps of a worker on a URL that leave the frontier alone.
LEMMA WalksStay ==
  ASSUME CrawlInv, NEW w \in Workers,
         Enter(w) \/ Allowed(w) \/ Request(w) \/ RequestWritten(w)
  PROVE  CrawlInv' /\ SettledStays
<1>0. inflight \in Nat
  BY InflightNumber DEF CrawlInv
<1>1. CASE Enter(w)
  <2>1. /\ at[w] = "popped" /\ at' = [at EXCEPT ![w] = "robots"] /\ inflight' = inflight + 1
        /\ UNCHANGED <<frontierVars, phase, seeding, cur, todo, kills, archive, refused,
                       silent, dropped, lost>>
    BY <1>1 DEF Enter, Goto, world, counts
  <2>2. inflight' = inflight + (IF "robots" \in InProcess THEN 1 ELSE 0)
                      - (IF at[w] \in InProcess THEN 1 ELSE 0)
    BY <1>0, <2>1 DEF InProcess
  <2>3. "robots" \in Places /\ ("robots" \in InHand <=> at[w] \in InHand)
    BY <2>1 DEF Places, InHand, InProcess
  <2> QED BY <2>1, <2>2, <2>3, WorkerWalks
<1>2. CASE Allowed(w) \/ Request(w) \/ RequestWritten(w)
  <2>1. PICK p \in {"wait", "request", "sent"} :
          /\ at[w] \in {"robots", "wait", "request"} /\ at' = [at EXCEPT ![w] = p]
          /\ UNCHANGED <<frontierVars, phase, seeding, inflight, cur, todo, kills, archive, refused,
                         silent, dropped, lost>>
    BY <1>2 DEF Allowed, Request, RequestWritten, Goto, world, counts, run
  <2>2. inflight' = inflight + (IF p \in InProcess THEN 1 ELSE 0)
                      - (IF at[w] \in InProcess THEN 1 ELSE 0)
    BY <1>0, <2>1 DEF InProcess
  <2>3. p \in Places /\ (p \in InHand <=> at[w] \in InHand)
    BY <2>1 DEF Places, InHand, InProcess
  <2> QED BY <2>1, <2>2, <2>3, WorkerWalks
<1> QED BY <1>1, <1>2

-----------------------------------------------------------------------------
(* The ends of a worker's work on a URL. *)

\* The URL in a worker's hands, and what the frontier keeps.
LEMMA HandedUrl ==
  ASSUME CrawlInv, NEW w \in Workers, at[w] \in InHand
  PROVE  /\ phase = "running" /\ cur[w] \in Urls /\ cur[w] \in Held /\ Held \subseteq Urls
         /\ QueuesTyped /\ ClocksTyped /\ QueuesApart(Held) /\ Counted
         /\ Cardinality(DOMAIN finished) < SyncEvery
         /\ (at[w] # "links" => todo[w] = {})
<1>1. /\ QueuesTyped /\ ClocksTyped /\ QueuesApart(Held) /\ Cardinality(DOMAIN finished) < SyncEvery
      /\ (phase # "down" => Counted) /\ CrawlTyped /\ HandsHold
  BY DEF CrawlInv, FrontierHolds
<1>2. at[w] # "gone"
  BY DEF InHand, InProcess
<1>3. phase = "running"
  BY <1>1, <1>2, Present
<1>4. cur \in [Workers -> Urls \union {None}] /\ cur[w] # None /\ (at[w] # "links" => todo[w] = {})
  BY <1>1 DEF CrawlTyped, HandsHold
<1> QED BY <1>1, <1>3, <1>4 DEF Held

\* A worker that leaves a URL is at the top of its loop, with empty hands.
LEMMA LeaveMoves ==
  ASSUME CrawlInv, NEW w \in Workers, at[w] \in InProcess, Leave(w), todo[w] = {}
  PROVE  Moves(w, "top", None, {})
<1>1. /\ inflight' = inflight - 1 /\ at' = [at EXCEPT ![w] = "top"] /\ cur' = [cur EXCEPT ![w] = None]
      /\ UNCHANGED <<phase, seeding, todo, kills>>
  BY DEF Leave, Goto
<1>2. inflight \in Nat
  BY InflightNumber DEF CrawlInv
<1>3. todo' = [todo EXCEPT ![w] = {}]
  BY <1>1 DEF CrawlInv, CrawlTyped
<1>4. inflight' = inflight + (IF "top" \in InProcess THEN 1 ELSE 0)
                    - (IF at[w] \in InProcess THEN 1 ELSE 0)
  <2>1. ~("top" \in InProcess)
    BY DEF InProcess
  <2> QED BY <1>1, <1>2, <2>1
<1> QED BY <1>1, <1>3, <1>4 DEF Moves

\* The URL a worker holds is finished, and the worker comes round.
LEMMA FinishStays ==
  ASSUME CrawlInv, NEW w \in Workers, at[w] \in InProcess, todo[w] = {}, NEW state \in {"done", "failed"},
         finish(cur[w], state), Leave(w), archive' = archive, refused \subseteq refused',
         silent \subseteq silent', dropped \subseteq dropped', lost \subseteq lost',
         state = "done" => archive[cur[w]] > 0 \/ cur[w] \in refused' \union silent' \union dropped'
  PROVE  CrawlInv' /\ SettledStays
<1>0. at[w] \in InHand /\ at[w] # "gone"
  BY DEF InHand, InProcess
<1>1. /\ phase = "running" /\ cur[w] \in Urls /\ cur[w] \in Held /\ Held \subseteq Urls
      /\ QueuesTyped /\ ClocksTyped /\ QueuesApart(Held) /\ Counted
      /\ Cardinality(DOMAIN finished) < SyncEvery
  BY <1>0, HandedUrl
<1>2. PICK u \in Urls : u = cur[w]
  BY <1>1
<1>3. PICK H \in SUBSET Urls : H = Held
  BY <1>1
<1>4. u \in H /\ QueuesApart(H) /\ finish(u, state)
  BY <1>1, <1>2, <1>3 DEF QueuesApart
<1>5. /\ QueuesTyped' /\ QueuesApart(H \ {u})' /\ Counted'
      /\ RowsGoOn({u}) /\ (state = "failed" => RowsGoOn({}))
      /\ StillSettled /\ Settled(u)' /\ StillKnown
      /\ Cardinality(DOMAIN finished') < SyncEvery
      /\ UNCHANGED <<hostRow, clocks, seen, tries>>
  BY <1>1, <1>4, FinishKeeps
<1>6. ClocksTyped'
  <2>1. UNCHANGED <<hostRow, lru, hot, dirty, slot>>
    BY <1>5 DEF clocks
  <2>2. WrittenHosts' = WrittenHosts
    BY <2>1 DEF WrittenHosts
  <2> QED BY <1>1, <2>1, <2>2 DEF ClocksTyped
<1>7. PICK G : G = H \ {u}
  OBVIOUS
<1>8. QueuesApart(G)' /\ G = (Held \ {cur[w]}) \union ({None} \ {None})
  BY <1>2, <1>3, <1>5, <1>7 DEF QueuesApart
<1>9. PICK fresh \in SUBSET Urls : fresh = IF state = "done" THEN {u} ELSE {}
  OBVIOUS
<1>10. RowsGoOn(fresh)
  BY <1>5, <1>9
<1>11. \A v \in fresh : Reason(v)'
  BY <1>2, <1>9 DEF Reason
<1>12. Moves(w, "top", None, {})
  BY LeaveMoves
<1>13. at[w] = "links" => "top" = "links" \/ cur[w] \in SettledUrls' \union lost'
  BY <1>2, <1>5 DEF SettledUrls
<1>14. "top" \in Places /\ ~("top" \in InHand) /\ None \in Urls \union {None} /\ None \notin Held
       /\ {} \in SUBSET Urls
  BY DEF Places, InHand, InProcess, Held
<1>15. seen' = seen
  BY <1>5
<1> DEFINE p == "top"
           c == None
           t == {}
<1>16. /\ p \in Places /\ c \in Urls \union {None} /\ t \in SUBSET Urls
       /\ (p \in InHand <=> c # None) /\ (t # {} => p = "links") /\ (c = cur[w] \/ c \notin Held)
       /\ (p = "links" => at[w] = "links" /\ c = cur[w]) /\ todo[w] \subseteq t
       /\ G = (Held \ {cur[w]}) \union ({c} \ {None})
       /\ (at[w] = "links" => p = "links" \/ cur[w] \in SettledUrls' \union lost')
  BY <1>8, <1>13, <1>14
<1>17. Moves(w, p, c, t)
  BY <1>12
<1> HIDE DEF p, c, t
<1> QED BY <1>0, <1>5, <1>6, <1>8, <1>10, <1>11, <1>15, <1>16, <1>17, WorkerStays

\* The URL a worker holds is put back, and the worker comes round.
LEMMA PutBackStays ==
  ASSUME CrawlInv, NEW w \in Workers, at[w] \in InProcess \ {"links"}, NEW when \in Nat,
         PutBack(cur[w], when), UNCHANGED clocks,
         tries' = tries \/ tries' = [tries EXCEPT ![cur[w]] = @ + 1],
         Leave(w), UNCHANGED <<archive, refused, silent, dropped, lost>>
  PROVE  CrawlInv' /\ SettledStays
<1>0. at[w] \in InHand /\ at[w] # "gone" /\ at[w] # "links" /\ at[w] \in InProcess
  BY DEF InHand, InProcess
<1>1. /\ phase = "running" /\ cur[w] \in Urls /\ cur[w] \in Held /\ Held \subseteq Urls
      /\ QueuesTyped /\ ClocksTyped /\ QueuesApart(Held) /\ Counted
      /\ Cardinality(DOMAIN finished) < SyncEvery /\ todo[w] = {}
  BY <1>0, HandedUrl
<1>2. PICK u \in Urls : u = cur[w]
  BY <1>1
<1>3. PICK H \in SUBSET Urls : H = Held
  BY <1>1
<1>4. u \in H /\ QueuesApart(H) /\ PutBack(u, when)
      /\ (tries' = tries \/ tries' = [tries EXCEPT ![u] = @ + 1])
  BY <1>1, <1>2, <1>3 DEF QueuesApart
<1>5. /\ QueuesTyped' /\ QueuesApart(H \ {u})' /\ Counted'
      /\ RowsGoOn({}) /\ StillSettled /\ StillKnown
      /\ UNCHANGED <<finished, hostRow, clocks, seen>>
  BY <1>1, <1>4, PutBackKeeps
<1>6. ClocksTyped'
  <2>1. UNCHANGED <<hostRow, lru, hot, dirty, slot>>
    BY <1>5 DEF clocks
  <2>2. WrittenHosts' = WrittenHosts
    BY <2>1 DEF WrittenHosts
  <2> QED BY <1>1, <2>1, <2>2 DEF ClocksTyped
<1>7. PICK G : G = H \ {u}
  OBVIOUS
<1>8. QueuesApart(G)' /\ G = (Held \ {cur[w]}) \union ({None} \ {None})
      /\ Cardinality(DOMAIN finished') < SyncEvery /\ seen' = seen
  BY <1>1, <1>2, <1>3, <1>5, <1>7 DEF QueuesApart
<1>9. Moves(w, "top", None, {})
  BY <1>0, <1>1, LeaveMoves
<1>10. "top" \in Places /\ ~("top" \in InHand) /\ None \in Urls \union {None} /\ None \notin Held
       /\ {} \in SUBSET Urls
  BY DEF Places, InHand, InProcess, Held
<1> DEFINE p == "top"
           c == None
           t == {}
<1>11. /\ p \in Places /\ c \in Urls \union {None} /\ t \in SUBSET Urls
       /\ (p \in InHand <=> c # None) /\ (t # {} => p = "links") /\ (c = cur[w] \/ c \notin Held)
       /\ (p = "links" => at[w] = "links" /\ c = cur[w]) /\ todo[w] \subseteq t
       /\ G = (Held \ {cur[w]}) \union ({c} \ {None})
       /\ (at[w] = "links" => p = "links" \/ cur[w] \in SettledUrls' \union lost')
  BY <1>0, <1>1, <1>8, <1>10
<1>12. Moves(w, p, c, t)
  BY <1>9
<1>13. /\ archive' = archive /\ refused \subseteq refused' /\ silent \subseteq silent'
       /\ dropped \subseteq dropped' /\ lost \subseteq lost'
       /\ {} \in SUBSET Urls /\ \A v \in {} : Reason(v)'
  OBVIOUS
<1> HIDE DEF p, c, t
<1> QED BY <1>0, <1>5, <1>6, <1>8, <1>11, <1>12, <1>13, WorkerStays

\* The pauses between attempts are numbers.
LEMMA BackoffType == \A n \in 0 .. Retries : Backoff[n] \in Nat
<1> DEFINE N == Retries
           e == RetryDelay
           step == [i \in 1 .. N |-> [x \in Nat |-> 2 * x]]
<1>1. N \in Nat /\ e \in Nat
  BY CrawlBounds
<1>2. step \in [1 .. N -> [Nat -> Nat]] /\ \A i \in 1 .. N : \A x \in Nat : step[i][x] = 2 * x
  OBVIOUS
<1> HIDE DEF step, N, e
<1>3. PICK f \in [0 .. N -> Nat] : f[0] = e /\ \A i \in 1 .. N : f[i] = step[i][f[i - 1]]
  <2> DEFINE S == Nat
  <2>1. N \in Nat /\ e \in S
    BY <1>1
  <2>2. step \in [1 .. N -> [S -> S]]
    BY <1>2
  <2> HIDE DEF S
  <2>3. \E f \in [0 .. N -> S] : f[0] = e /\ \A i \in 1 .. N : f[i] = step[i][f[i - 1]]
    BY <2>1, <2>2, RangeRecursion
  <2> QED BY <2>3 DEF S
<1>4. \A i \in 0 .. N : f[i] = IF i = 0 THEN e ELSE 2 * f[i - 1]
  <2> SUFFICES ASSUME NEW i \in 1 .. N PROVE f[i] = 2 * f[i - 1]
    BY <1>1, <1>3
  <2>1. f[i - 1] \in Nat
    BY <1>1, <1>3
  <2> QED BY <1>2, <1>3, <2>1
<1>5. f = [i \in 0 .. N |-> IF i = 0 THEN e ELSE 2 * f[i - 1]]
  BY <1>3, <1>4
<1>6. f = [i \in 0 .. Retries |-> IF i = 0 THEN RetryDelay ELSE 2 * f[i - 1]]
  BY <1>5, Zenon DEF N, e
<1>7. Backoff = [i \in 0 .. Retries |-> IF i = 0 THEN RetryDelay ELSE 2 * Backoff[i - 1]]
  BY <1>6, Zenon DEF Backoff
<1>8. \A i \in 0 .. N : Backoff[i] = IF i = 0 THEN e ELSE 2 * Backoff[i - 1]
  BY <1>7, Zenon DEF N, e
<1> DEFINE X == {i \in 0 .. N : Backoff[i] \in Nat}
<1>9. 0 \in X
  BY <1>1, <1>8
<1>10. \A i \in 1 .. N : i - 1 \in X => i \in X
  <2> SUFFICES ASSUME NEW i \in 1 .. N, i - 1 \in X PROVE i \in X
    OBVIOUS
  <2>1. Backoff[i] = 2 * Backoff[i - 1] /\ Backoff[i - 1] \in Nat
    BY <1>1, <1>8
  <2> QED BY <1>1, <2>1
<1>11. \A i \in 0 .. N : i \in X
  <2> HIDE DEF X
  <2> QED BY <1>1, <1>9, <1>10, RangeInduction
<1> QED BY <1>11 DEF N

\* The ways in which a worker is through with a URL.
LEMMA EndsStay ==
  ASSUME CrawlInv, NEW w \in Workers,
         Refused(w) \/ Unreachable(w) \/ Overtaken(w) \/ CancelledWaiting(w) \/ FetchFails(w) \/ PageDone(w)
  PROVE  CrawlInv' /\ SettledStays
<1>1. CASE Refused(w)
  <2>1. /\ at[w] \in InProcess \ {"links"} /\ at[w] \in InHand /\ finish(cur[w], "done") /\ Leave(w)
        /\ refused' = refused \union {cur[w]}
        /\ UNCHANGED <<archive, silent, dropped, lost>>
    BY <1>1 DEF Refused, InProcess, InHand
  <2>2. todo[w] = {}
    BY <2>1, HandedUrl
  <2> QED BY <2>1, <2>2, FinishStays
<1>2. CASE Unreachable(w)
  <2>1. /\ at[w] \in InProcess \ {"links"} /\ at[w] \in InHand /\ finish(cur[w], "done") /\ Leave(w)
        /\ silent \subseteq silent' /\ dropped \subseteq dropped' /\ cur[w] \in silent' \union dropped'
        /\ UNCHANGED <<archive, refused, lost>>
    BY <1>2 DEF Unreachable, InProcess, InHand
  <2>2. todo[w] = {}
    BY <2>1, HandedUrl
  <2> QED BY <2>1, <2>2, FinishStays
<1>3. CASE Overtaken(w)
  <2>1. /\ at[w] \in InProcess \ {"links"} /\ PutBack(cur[w], SlowDelay) /\ Leave(w)
        /\ tries' = tries /\ UNCHANGED clocks
        /\ UNCHANGED <<archive, refused, silent, dropped, lost>>
    BY <1>3 DEF Overtaken, Defer, InProcess, world
  <2> QED BY <2>1, CrawlBounds, PutBackStays
<1>4. CASE CancelledWaiting(w)
  <2>1. /\ at[w] \in InProcess \ {"links"} /\ PutBack(cur[w], 0) /\ Leave(w)
        /\ tries' = [tries EXCEPT ![cur[w]] = @ + 1] /\ UNCHANGED clocks
        /\ UNCHANGED <<archive, refused, silent, dropped, lost>>
    BY <1>4 DEF CancelledWaiting, Retry, InProcess, world
  <2> QED BY <2>1, PutBackStays
<1>5. CASE FetchFails(w)
  <2>1. /\ at[w] \in InProcess \ {"links"} /\ at[w] \in InHand /\ Leave(w)
        /\ UNCHANGED <<archive, refused, silent, dropped, lost>>
    BY <1>5 DEF FetchFails, InProcess, InHand, world
  <2>2. todo[w] = {} /\ cur[w] \in Urls /\ QueuesTyped
    BY <2>1, HandedUrl
  <2>3. CASE cancelled
    <3>1. PutBack(cur[w], 0) /\ tries' = [tries EXCEPT ![cur[w]] = @ + 1] /\ UNCHANGED clocks
      BY <1>5, <2>3 DEF FetchFails, Retry
    <3> QED BY <2>1, <3>1, PutBackStays
  <2>4. CASE ~cancelled /\ tries[cur[w]] < Retries
    <3> DEFINE when == Backoff[tries[cur[w]]]
    <3>1. PutBack(cur[w], when) /\ tries' = [tries EXCEPT ![cur[w]] = @ + 1] /\ UNCHANGED clocks
      BY <1>5, <2>4 DEF FetchFails, Retry
    <3>2. tries[cur[w]] \in 0 .. Retries
      BY <2>2, <2>4, CrawlBounds DEF QueuesTyped
    <3>3. when \in Nat
      BY <3>2, BackoffType
    <3> HIDE DEF when
    <3> QED BY <2>1, <3>1, <3>3, PutBackStays
  <2>5. CASE ~cancelled /\ ~(tries[cur[w]] < Retries)
    <3>1. finish(cur[w], "failed")
      BY <1>5, <2>5 DEF FetchFails
    <3> QED BY <2>1, <2>2, <3>1, FinishStays
  <2> QED BY <2>3, <2>4, <2>5
<1>6. CASE PageDone(w)
  <2>1. /\ at[w] = "links" /\ at[w] \in InProcess /\ todo[w] = {} /\ finish(cur[w], "done") /\ Leave(w)
        /\ UNCHANGED <<archive, refused, silent, dropped, lost>>
    BY <1>6 DEF PageDone, InProcess, world
  <2>2. archive[cur[w]] > 0
    BY <2>1 DEF CrawlInv, PagesKnown
  <2> QED BY <2>1, <2>2, FinishStays
<1> QED BY <1>1, <1>2, <1>3, <1>4, <1>5, <1>6

-----------------------------------------------------------------------------
(* The steps of a worker that take a URL or archive a page. *)

\* The archive cannot be written: the run ends, and the URL stays claimed.
LEMMA PageFailsStay ==
  ASSUME CrawlInv, NEW w \in Workers, PageFails(w)
  PROVE  CrawlInv' /\ SettledStays
<1>1. /\ at[w] \in InProcess /\ at[w] \in InHand /\ at[w] # "gone" /\ todo[w] = {}
      /\ inflight' = inflight - 1 /\ cur' = [cur EXCEPT ![w] = None] /\ at' = [at EXCEPT ![w] = "gone"]
      /\ lost' = lost \union {cur[w]}
      /\ UNCHANGED <<frontierVars, phase, seeding, archive, refused, silent, dropped, todo, kills>>
  BY DEF PageFails, Stop, Goto, InProcess, InHand
<1>2. inflight \in Nat /\ todo \in [Workers -> SUBSET Urls]
  BY InflightNumber DEF CrawlInv, CrawlTyped
<1> DEFINE p == "gone"
           c == None
           t == {}
<1>3. /\ p \in Places /\ p # "links" /\ p \notin InProcess /\ c \in {cur[w], None} /\ t \in SUBSET Urls
      /\ (p \in InHand <=> c # None) /\ (t # {} => p = "links")
      /\ (at[w] = "links" => p = "links" \/ cur[w] \in lost') /\ todo[w] \subseteq t
      /\ at' = [at EXCEPT ![w] = p] /\ cur' = [cur EXCEPT ![w] = c]
  BY <1>1 DEF Places, InHand, InProcess
<1>4. todo' = [todo EXCEPT ![w] = t]
  BY <1>1, <1>2
<1>5. archive' = archive /\ refused \subseteq refused' /\ silent \subseteq silent'
      /\ dropped \subseteq dropped' /\ lost \subseteq lost'
  BY <1>1
<1> HIDE DEF p, c, t
<1>6. Moves(w, p, c, t)
  <2>1. inflight' = inflight + (IF p \in InProcess THEN 1 ELSE 0)
                     - (IF at[w] \in InProcess THEN 1 ELSE 0)
    BY <1>1, <1>2, <1>3
  <2> QED BY <1>1, <1>3, <1>4, <2>1 DEF Moves
<1> QED BY <1>1, <1>3, <1>5, <1>6, WorkerGoes

\* A page is archived: only one that no archive holds, or that was lost before.
LEMMA FetchedStays ==
  ASSUME CrawlInv, NEW w \in Workers, Fetched(w)
  PROVE  CrawlInv' /\ SettledStays
<1>1. /\ at[w] = "sent" /\ at[w] \in InProcess /\ at[w] \in InHand /\ at[w] # "links"
      /\ archive' = [archive EXCEPT ![cur[w]] = @ + 1]
      /\ todo' = [todo EXCEPT ![w] = Links[cur[w]]] /\ at' = [at EXCEPT ![w] = "links"]
      /\ UNCHANGED <<frontierVars, phase, seeding, inflight, kills, refused, silent, dropped, lost, cur>>
  BY DEF Fetched, Goto, run, counts, InProcess, InHand
<1>2. /\ phase = "running" /\ cur[w] \in Urls /\ cur[w] \in Held /\ Held \subseteq Urls
      /\ QueuesTyped /\ ClocksTyped /\ QueuesApart(Held) /\ Counted
      /\ Cardinality(DOMAIN finished) < SyncEvery /\ todo[w] = {}
  BY <1>1, HandedUrl
<1>3. PICK u \in Urls : u = cur[w]
  BY <1>2
<1>4. /\ CrawlTyped /\ HandsHold /\ PagesKnown /\ inflight \in Nat
      /\ at \in [Workers -> Places] /\ cur \in [Workers -> Urls \union {None}]
      /\ todo \in [Workers -> SUBSET Urls] /\ archive \in [Urls -> Nat]
  BY InflightNumber DEF CrawlInv, CrawlTyped
<1>5. archive' \in [Urls -> Nat] /\ \A v \in Urls : archive'[v] = IF v = u THEN archive[u] + 1 ELSE archive[v]
  BY <1>1, <1>3, <1>4
<1> DEFINE p == "links"
           t == Links[u]
<1>6. /\ p \in Places /\ p \in InHand /\ u # None /\ t \in SUBSET Urls /\ u \in Urls \union {None}
      /\ u = cur[w]
  BY <1>3, Bounds, CrawlBounds DEF Places, InHand, InProcess
<1>7. Moves(w, p, u, t)
  <2>1. cur' = [cur EXCEPT ![w] = u]
    BY <1>1, <1>3, <1>4
  <2>2. inflight' = inflight + (IF p \in InProcess THEN 1 ELSE 0)
                     - (IF at[w] \in InProcess THEN 1 ELSE 0)
    BY <1>1, <1>4 DEF InProcess
  <2> QED BY <1>1, <1>3, <2>1, <2>2 DEF Moves
<1>8. p = "links"
  OBVIOUS
<1> HIDE DEF p, t
<1>9. CrawlTyped' /\ HandsHold' /\ Held' = (Held \ {cur[w]}) \union ({u} \ {None})
  <2>1. (p \in InHand <=> u # None) /\ (t # {} => p = "links") /\ (u = cur[w] \/ u \notin Held)
    BY <1>6, <1>8
  <2> QED BY <1>2, <1>4, <1>5, <1>6, <1>7, <2>1, HandsMove
<1>10. Held' = Held
  BY <1>2, <1>3, <1>6, <1>9
<1>11. PICK H : H = Held
  OBVIOUS
<1>12. QueuesApart(H) /\ phase' = phase
  BY <1>1, <1>2, <1>11 DEF QueuesApart
<1>13. /\ QueuesTyped' /\ ClocksTyped' /\ QueuesApart(H)' /\ Counted'
       /\ RowsGoOn({}) /\ StillSettled /\ StillKnown /\ seen' = seen /\ finished' = finished
  BY <1>1, <1>2, <1>12, Unmoved
<1>14. FrontierHolds(Held)'
  BY <1>2, <1>10, <1>11, <1>12, <1>13 DEF FrontierHolds, QueuesApart
<1>15. /\ \A v \in Workers : at'[v] = IF v = w THEN "links" ELSE at[v]
       /\ \A v \in Workers : cur'[v] = cur[v]
       /\ \A v \in Workers : todo'[v] = IF v = w THEN Links[u] ELSE todo[v]
  BY <1>1, <1>3, <1>4
<1>16. ~Settled(u)
  BY <1>2, <1>3 DEF Settled, QueuesApart
<1>17. \A v \in Workers : cur[v] = u => v = w
  BY <1>3, <1>6, <1>4 DEF HandsHold
<1>18. PagesKnown'
  <2>1. ASSUME NEW v \in Urls, DoneBy(v)' PROVE Reason(v)'
    <3>1. DoneBy(v)
      BY <1>13, <2>1 DEF RowsGoOn
    <3>2. Reason(v) /\ archive[v] \in Nat
      BY <1>4, <3>1 DEF PagesKnown
    <3> QED BY <1>1, <1>4, <1>5, <3>2 DEF Reason
  <2>2. ASSUME NEW v \in Workers, at'[v] = "links" PROVE archive'[cur'[v]] > 0
    <3>1. CASE v = w
      BY <1>3, <1>4, <1>5, <1>15, <3>1
    <3>2. CASE v # w
      <4>1. at[v] = "links" /\ archive[cur[v]] > 0 /\ cur[v] # u
        BY <1>4, <1>15, <1>17, <2>2, <3>2 DEF PagesKnown
      <4>2. cur[v] \in Urls
        BY <1>4, <4>1 DEF HandsHold, InHand, InProcess
      <4> QED BY <1>5, <1>15, <4>1, <4>2
    <3> QED BY <3>1, <3>2
  <2>3. ASSUME NEW v \in Urls, archive'[v] > 1 PROVE v \in lost'
    <3>1. CASE v # u
      BY <1>1, <1>4, <1>5, <2>3, <3>1 DEF PagesKnown
    <3>2. CASE v = u
      <4>1. archive[u] > 0
        BY <1>4, <1>5, <2>3, <3>2
      <4>2. u \notin lost => \E x \in Workers : at[x] = "links" /\ cur[x] = u
        BY <1>4, <1>16, <4>1 DEF PagesKnown
      <4>3. ~\E x \in Workers : at[x] = "links" /\ cur[x] = u
        BY <1>1, <1>17
      <4> QED BY <1>1, <3>2, <4>2, <4>3
    <3> QED BY <3>1, <3>2
  <2>4. ASSUME NEW v \in Urls, archive'[v] > 0, v \notin lost'
        PROVE  Settled(v)' \/ \E x \in Workers : at'[x] = "links" /\ cur'[x] = v
    <3>1. CASE v = u
      BY <1>3, <1>15, <3>1
    <3>2. CASE v # u
      <4>1. Settled(v) \/ \E x \in Workers : at[x] = "links" /\ cur[x] = v
        BY <1>1, <1>4, <1>5, <2>4, <3>2 DEF PagesKnown
      <4> QED BY <1>13, <1>15, <4>1 DEF StillSettled
    <3> QED BY <3>1, <3>2
  <2>5. kills' = 0 => \A v \in seen'.hot \union seen'.cold : Known(v)'
    BY <1>1, <1>2, <1>4, <1>13, SeenStays
  <2>6. ASSUME kills' = 0, NEW v \in Urls, archive'[v] > 0, NEW l \in Links[v]
        PROVE  Known(l)' \/ \E x \in Workers : at'[x] = "links" /\ cur'[x] = v /\ l \in todo'[x]
    <3>1. CASE v = u
      BY <1>3, <1>15, <2>6, <3>1
    <3>2. CASE v # u
      <4>1. Known(l) \/ \E x \in Workers : at[x] = "links" /\ cur[x] = v /\ l \in todo[x]
        BY <1>1, <1>4, <1>5, <2>6, <3>2 DEF PagesKnown
      <4>2. l \in Urls
        BY CrawlBounds
      <4> QED BY <1>1, <1>13, <1>15, <4>1, <4>2 DEF StillKnown
    <3> QED BY <3>1, <3>2
  <2> QED BY <2>1, <2>2, <2>3, <2>4, <2>5, <2>6 DEF PagesKnown
<1> QED BY <1>9, <1>13, <1>14, <1>18, SettledFromRows DEF CrawlInv

\* The robots rules ask for a longer pause: the host is kept longer, no URL moves.
LEMMA AllowedSlowlyStays ==
  ASSUME CrawlInv, NEW w \in Workers, AllowedSlowly(w)
  PROVE  CrawlInv' /\ SettledStays
<1>1. /\ at[w] = "robots" /\ at[w] \in InProcess /\ at[w] \in InHand /\ at[w] # "links" /\ at[w] # "gone"
      /\ HoldClaim(cur[w], SlowDelay) /\ at' = [at EXCEPT ![w] = "wait"]
      /\ UNCHANGED <<phase, seeding, inflight, kills, archive, refused, silent, dropped, lost, cur, todo>>
  BY DEF AllowedSlowly, Goto, run, counts, InProcess, InHand
<1>2. /\ phase = "running" /\ cur[w] \in Urls /\ cur[w] \in Held /\ Held \subseteq Urls
      /\ QueuesTyped /\ ClocksTyped /\ QueuesApart(Held) /\ Counted
      /\ Cardinality(DOMAIN finished) < SyncEvery /\ todo[w] = {}
  BY <1>1, HandedUrl
<1>3. PICK u \in Urls : u = cur[w]
  BY <1>2
<1>4. /\ inflight \in Nat /\ at \in [Workers -> Places] /\ cur \in [Workers -> Urls \union {None}]
      /\ todo \in [Workers -> SUBSET Urls]
  BY InflightNumber DEF CrawlInv, CrawlTyped
<1>5. ClocksTyped' /\ UNCHANGED <<disk, seen, queue, queued, idle>>
  <2> DEFINE until == SlowDelay
  <2>1. until \in Nat /\ HoldClaim(u, until)
    BY <1>1, <1>3, CrawlBounds
  <2> HIDE DEF until
  <2> QED BY <1>2, <2>1, HoldKeeps
<1>6. UNCHANGED <<row, nextAt, tries, stage, hostRow, seen, pending, ready, deferred, finished,
                  queued, idle>>
  BY <1>5 DEF disk, queue
<1>7. PICK H : H = Held
  OBVIOUS
<1>8. /\ QueuesTyped' /\ QueuesApart(H)' /\ Counted' /\ Cardinality(DOMAIN finished') < SyncEvery
      /\ RowsGoOn({}) /\ StillSettled /\ StillKnown /\ seen' = seen
  BY <1>2, <1>6, <1>7
  DEF QueuesTyped, QueuesApart, Counted, RowsGoOn, DoneBy, StillSettled, Settled, StillKnown, Known
<1> DEFINE p == "wait"
           t == {}
<1>9. /\ p \in Places /\ p \in InHand /\ p # "links" /\ u # None /\ t \in SUBSET Urls
      /\ u \in Urls \union {None} /\ (t # {} => p = "links")
  BY Bounds DEF Places, InHand, InProcess
<1>10. Moves(w, p, u, t)
  <2>1. cur' = [cur EXCEPT ![w] = u] /\ todo' = [todo EXCEPT ![w] = t]
    BY <1>1, <1>2, <1>3, <1>4
  <2>2. inflight' = inflight + (IF p \in InProcess THEN 1 ELSE 0)
                     - (IF at[w] \in InProcess THEN 1 ELSE 0)
    BY <1>1, <1>4 DEF InProcess
  <2> QED BY <1>1, <2>1, <2>2 DEF Moves
<1>11. H = (Held \ {cur[w]}) \union ({u} \ {None}) /\ todo[w] \subseteq t
       /\ (at[w] = "links" => p = "links" \/ cur[w] \in SettledUrls' \union lost')
       /\ (p \in InHand <=> u # None) /\ (u = cur[w] \/ u \notin Held)
       /\ {} \in SUBSET Urls /\ \A v \in {} : Reason(v)'
       /\ archive' = archive /\ refused \subseteq refused' /\ silent \subseteq silent'
       /\ dropped \subseteq dropped' /\ lost \subseteq lost'
  BY <1>1, <1>2, <1>3, <1>7, <1>9
<1> HIDE DEF p, t
<1> QED BY <1>1, <1>5, <1>8, <1>9, <1>10, <1>11, WorkerStays

\* A URL goes from the frontier to the hands of one worker.
LEMMA PoppedStays ==
  ASSUME CrawlInv, NEW w \in Workers, Popped(w)
  PROVE  CrawlInv' /\ SettledStays
<1>1. /\ at[w] = "pop" /\ at[w] # "gone" /\ at[w] # "links" /\ at[w] \notin InProcess /\ at[w] \notin InHand
      /\ UNCHANGED <<phase, seeding, inflight, kills, archive, refused, silent, dropped, lost, todo>>
  BY DEF Popped, run, counts, InProcess, InHand
<1>2. /\ QueuesTyped /\ ClocksTyped /\ QueuesApart(Held) /\ Cardinality(DOMAIN finished) < SyncEvery
      /\ (phase # "down" => Counted) /\ CrawlTyped /\ HandsHold
  BY DEF CrawlInv, FrontierHolds
<1>3. /\ phase = "running" /\ cur[w] = None /\ todo[w] = {} /\ inflight \in Nat
      /\ at \in [Workers -> Places] /\ cur \in [Workers -> Urls \union {None}]
      /\ todo \in [Workers -> SUBSET Urls] /\ Held \subseteq Urls
  BY <1>1, <1>2, Present, InflightNumber DEF HandsHold, CrawlTyped, Held
<1>4. PICK H \in SUBSET Urls : H = Held
  BY <1>3
<1>5. QueuesApart(H) /\ Counted
  BY <1>2, <1>3, <1>4 DEF QueuesApart
<1>6. /\ {} \in SUBSET Urls /\ \A v \in {} : Reason(v)'
      /\ archive' = archive /\ refused \subseteq refused' /\ silent \subseteq silent'
      /\ dropped \subseteq dropped' /\ lost \subseteq lost'
  BY <1>1
<1> DEFINE t == {}
<1>7. t \in SUBSET Urls /\ t = {} /\ todo' = [todo EXCEPT ![w] = t] /\ todo[w] \subseteq t
  BY <1>1, <1>3
<1> HIDE DEF t
<1>8. CASE \E u \in Urls : Pop(u) /\ cur' = [cur EXCEPT ![w] = u] /\ Goto(w, "popped")
  <2>1. PICK u \in Urls : Pop(u) /\ cur' = [cur EXCEPT ![w] = u] /\ at' = [at EXCEPT ![w] = "popped"]
    BY <1>8 DEF Goto
  <2>2. /\ QueuesTyped' /\ ClocksTyped' /\ u \notin H /\ QueuesApart(H \union {u})' /\ Counted'
        /\ RowsGoOn({}) /\ StillSettled /\ StillKnown /\ UNCHANGED <<finished, seen>>
    <3>1. CASE PopReady(u)
      BY <1>2, <1>5, <3>1, PopReadyKeeps
    <3>2. CASE PopRefilled(u)
      BY <1>2, <1>5, <3>2, PopRefilledKeeps
    <3> QED BY <2>1, <3>1, <3>2 DEF Pop
  <2>3. PICK G : G = H \union {u}
    OBVIOUS
  <2> DEFINE p == "popped"
  <2>4. p \in Places /\ p \in InHand /\ p # "links" /\ p \notin InProcess /\ u # None
        /\ u \in Urls \union {None} /\ at' = [at EXCEPT ![w] = p]
    BY <2>1, Bounds DEF Places, InHand, InProcess
  <2> HIDE DEF p
  <2>5. Moves(w, p, u, t)
    <3>1. inflight' = inflight + (IF p \in InProcess THEN 1 ELSE 0)
                       - (IF at[w] \in InProcess THEN 1 ELSE 0)
      BY <1>1, <1>3, <2>4
    <3> QED BY <1>1, <1>7, <2>1, <2>4, <3>1 DEF Moves
  <2>6. /\ QueuesApart(G)' /\ G = (Held \ {cur[w]}) \union ({u} \ {None})
        /\ Cardinality(DOMAIN finished') < SyncEvery /\ seen' = seen
        /\ (p \in InHand <=> u # None) /\ (t # {} => p = "links") /\ (u = cur[w] \/ u \notin Held)
    <3>1. QueuesApart(G)'
      BY <2>2, <2>3 DEF QueuesApart
    <3>2. None \notin Held
      BY DEF Held
    <3> QED BY <1>2, <1>3, <1>4, <1>7, <2>2, <2>3, <2>4, <3>1, <3>2
  <2> QED BY <1>1, <1>6, <1>7, <2>2, <2>4, <2>5, <2>6, WorkerStays
<1>9. CASE PopNothing /\ Goto(w, "empty") /\ UNCHANGED cur
  <2>1. /\ QueuesTyped' /\ ClocksTyped' /\ QueuesApart(H)' /\ Counted'
        /\ RowsGoOn({}) /\ StillSettled /\ StillKnown /\ UNCHANGED <<finished, seen>>
    BY <1>2, <1>5, <1>9, PopNothingKeeps
  <2> DEFINE p == "empty"
             c == None
  <2>2. p \in Places /\ p \notin InHand /\ p # "links" /\ p \notin InProcess
        /\ c \in Urls \union {None} /\ at' = [at EXCEPT ![w] = p]
    BY <1>9 DEF Places, InHand, InProcess, Goto
  <2>6. c = None /\ c = cur[w]
    BY <1>3
  <2>3. cur' = [cur EXCEPT ![w] = c]
    BY <1>3, <1>9
  <2> HIDE DEF p, c
  <2>4. Moves(w, p, c, t)
    <3>1. inflight' = inflight + (IF p \in InProcess THEN 1 ELSE 0)
                       - (IF at[w] \in InProcess THEN 1 ELSE 0)
      BY <1>1, <1>3, <2>2
    <3> QED BY <1>1, <1>7, <2>2, <2>3, <3>1 DEF Moves
  <2>5. /\ H = (Held \ {cur[w]}) \union ({c} \ {None})
        /\ Cardinality(DOMAIN finished') < SyncEvery /\ seen' = seen
        /\ (p \in InHand <=> c # None) /\ (t # {} => p = "links") /\ (c = cur[w] \/ c \notin Held)
    <3>1. None \notin Held
      BY DEF Held
    <3> QED BY <1>2, <1>3, <1>4, <1>7, <2>1, <2>2, <2>6, <3>1
  <2> QED BY <1>1, <1>6, <1>7, <2>1, <2>2, <2>4, <2>5, WorkerStays
<1> QED BY <1>8, <1>9 DEF Popped

\* A link is admitted: from now on it is known, and it was in nobody else's list.
LEMMA expandStays ==
  ASSUME CrawlInv, NEW w \in Workers, expand(w)
  PROVE  CrawlInv' /\ SettledStays
<1>1. /\ at[w] = "links" /\ at[w] \in InHand
      /\ UNCHANGED <<phase, seeding, inflight, kills, archive, refused, silent, dropped, lost, at, cur>>
  BY DEF expand, run, world, counts, InHand, InProcess
<1>2. PICK u \in todo[w] : Add(u) /\ todo' = [todo EXCEPT ![w] = @ \ {u}]
  BY DEF expand
<1>3. /\ phase = "running" /\ cur[w] \in Urls /\ cur[w] \in Held /\ Held \subseteq Urls
      /\ QueuesTyped /\ ClocksTyped /\ QueuesApart(Held) /\ Counted
      /\ Cardinality(DOMAIN finished) < SyncEvery
  BY <1>1, HandedUrl
<1>4. /\ CrawlTyped /\ HandsHold /\ PagesKnown
      /\ at \in [Workers -> Places] /\ cur \in [Workers -> Urls \union {None}]
      /\ todo \in [Workers -> SUBSET Urls] /\ archive \in [Urls -> Nat]
  BY DEF CrawlInv, CrawlTyped
<1>5. u \in Urls
  BY <1>4
<1>6. PICK H \in SUBSET Urls : H = Held
  BY <1>3
<1>7. QueuesApart(H)
  BY <1>3, <1>6 DEF QueuesApart
<1>8. /\ QueuesTyped' /\ QueuesApart(H)' /\ (Counted => Counted')
      /\ RowsGoOn({}) /\ StillSettled /\ StillKnown /\ UNCHANGED <<hostRow, clocks, finished>>
      /\ u \notin seen.hot \union seen.cold => Known(u)'
      /\ seen'.hot \union seen'.cold \subseteq seen.hot \union seen.cold \union {u}
  BY <1>2, <1>3, <1>5, <1>7, AddKeeps
<1>9. ClocksTyped'
  <2>1. UNCHANGED <<hostRow, lru, hot, dirty, slot>>
    BY <1>8 DEF clocks
  <2>2. WrittenHosts' = WrittenHosts
    BY <2>1 DEF WrittenHosts
  <2> QED BY <1>3, <2>1, <2>2 DEF ClocksTyped
<1>10. /\ \A v \in Workers : todo'[v] = IF v = w THEN todo[w] \ {u} ELSE todo[v]
       /\ todo' \in [Workers -> SUBSET Urls]
  BY <1>2, <1>4
<1>11. Held' = Held /\ FrontierHolds(Held)'
  <2>1. Held' = Held
    BY <1>1 DEF Held
  <2> QED BY <1>1, <1>3, <1>6, <1>8, <1>9, <2>1 DEF FrontierHolds, QueuesApart
<1>12. CrawlTyped' /\ HandsHold'
  <2>1. CrawlTyped'
    BY <1>1, <1>4, <1>10 DEF CrawlTyped
  <2>2. Inside' = Inside
    BY <1>1 DEF Inside
  <2>3. \A v \in Workers : todo'[v] # {} => at'[v] = "links"
    BY <1>1, <1>4, <1>10 DEF HandsHold
  <2> QED BY <1>1, <1>4, <2>1, <2>2, <2>3 DEF HandsHold
<1>13. kills = 0 => Known(u)'
  <2>1. kills = 0 /\ u \in seen.hot \union seen.cold => Known(u)
    BY <1>4 DEF PagesKnown
  <2> QED BY <1>5, <1>8, <2>1 DEF StillKnown
<1>14. PagesKnown'
  <2>1. \A v \in Urls : Settled(v) => Settled(v)' \/ v \in lost'
    BY <1>8 DEF StillSettled
  <2>2. kills' = 0 => kills = 0 /\ StillKnown /\ \A v \in seen'.hot \union seen'.cold : Known(v)'
    <3> SUFFICES ASSUME kills' = 0, NEW v \in seen'.hot \union seen'.cold PROVE Known(v)'
      BY <1>1, <1>8
    <3>1. kills = 0
      BY <1>1
    <3>2. CASE v = u
      BY <1>13, <3>1, <3>2
    <3>3. CASE v # u
      <4>1. v \in seen.hot \union seen.cold /\ v \in Urls
        BY <1>3, <1>8, <3>3 DEF QueuesTyped
      <4>2. Known(v)
        BY <1>4, <3>1, <4>1 DEF PagesKnown
      <4> QED BY <1>8, <4>1, <4>2 DEF StillKnown
    <3> QED BY <3>2, <3>3
  <2>3. archive' = archive /\ \A v \in Urls : Reason(v) => Reason(v)'
    BY <1>1 DEF Reason
  <2>4. \A v \in Workers : at'[v] = "links" => at[v] = "links" /\ cur'[v] = cur[v]
    BY <1>1
  <2>5. \A v \in Workers : at[v] = "links" =>
            \/ at'[v] = "links" /\ cur'[v] = cur[v]
            \/ cur[v] \in SettledUrls' \union lost'
    BY <1>1
  <2>6. kills' = 0 => \A v \in Workers : at[v] = "links" => \A l \in todo[v] :
            Known(l)' \/ (at'[v] = "links" /\ cur'[v] = cur[v] /\ l \in todo'[v])
    <3> SUFFICES ASSUME kills' = 0, NEW v \in Workers, at[v] = "links", NEW l \in todo[v], l \notin todo'[v]
                 PROVE  Known(l)'
      BY <1>1
    <3>1. l = u /\ kills = 0
      BY <1>1, <1>10
    <3> QED BY <1>13, <3>1
  <2>7. lost \subseteq lost' /\ {} \in SUBSET Urls /\ \A v \in {} : Reason(v)'
    BY <1>1
  <2> QED BY <1>4, <1>8, <2>1, <2>2, <2>3, <2>4, <2>5, <2>6, <2>7, PagesStay
<1> QED BY <1>8, <1>11, <1>12, <1>14, SettledFromRows DEF CrawlInv

-----------------------------------------------------------------------------
(* The steps of a run. *)

\* While no run goes on, nobody holds anything.
LEMMA HandsEmpty ==
  ASSUME CrawlTyped, HandsHold, \A w \in Workers : at[w] = "gone"
  PROVE  /\ Held = {} /\ inflight = 0
         /\ \A w \in Workers : cur[w] = None /\ todo[w] = {}
<1>1. \A w \in Workers : cur[w] = None /\ todo[w] = {}
  BY DEF HandsHold, InHand, InProcess
<1>2. Inside = {}
  BY DEF Inside, InProcess
<1>3. inflight = 0
  BY <1>2, FS_EmptySet DEF HandsHold
<1> QED BY <1>1, <1>3 DEF Held

\* Everyone is away before and after.
LEMMA HandsReset ==
  ASSUME CrawlTyped, at' = [w \in Workers |-> "gone"], cur' = [w \in Workers |-> None],
         todo' = [w \in Workers |-> {}], inflight' = 0, seeding' \in Seq(Urls),
         phase' \in {"down", "seeding", "running", "closing"}, archive' = archive, kills' \in Nat
  PROVE  CrawlTyped' /\ HandsHold' /\ Held' = {}
<1>1. CrawlTyped'
  BY DEF CrawlTyped, Places
<1>2. Inside' = {}
  BY DEF Inside, InProcess
<1>3. inflight' = Cardinality(Inside')
  BY <1>2, FS_EmptySet
<1>4. HandsHold'
  BY <1>3 DEF HandsHold, InHand, InProcess
<1> QED BY <1>1, <1>4 DEF Held

\* Everyone is away, and a step of the run keeps what the frontier holds.
LEMMA RunStays ==
  ASSUME CrawlInv, \A w \in Workers : at[w] = "gone",
         QueuesTyped', ClocksTyped', NEW H, H = {}, QueuesApart(H)', Cardinality(DOMAIN finished') < SyncEvery,
         phase' = "down" => Cleared' /\ queued' = 0, phase' # "down" => Counted',
         RowsGoOn({}), \A u \in Urls : Settled(u) => Settled(u)' \/ u \in lost',
         kills' = 0 => kills = 0 /\ StillKnown /\ \A u \in seen'.hot \union seen'.cold : Known(u)',
         CrawlTyped', HandsHold', Held' = {}, \A w \in Workers : at'[w] # "links",
         archive' = archive, refused \subseteq refused', silent \subseteq silent',
         dropped \subseteq dropped', lost \subseteq lost'
  PROVE  CrawlInv' /\ SettledStays
<1>1. CrawlTyped /\ HandsHold /\ PagesKnown
  BY DEF CrawlInv
<1>2. PagesKnown'
  <2>1. \A u \in Urls : Reason(u) => Reason(u)'
    BY DEF Reason
  <2>2. {} \in SUBSET Urls /\ \A u \in {} : Reason(u)'
    OBVIOUS
  <2>3. \A v \in Workers : at'[v] = "links" => at[v] = "links" /\ cur'[v] = cur[v]
    OBVIOUS
  <2>4. \A v \in Workers : at[v] = "links" =>
            \/ at'[v] = "links" /\ cur'[v] = cur[v]
            \/ cur[v] \in SettledUrls' \union lost'
    OBVIOUS
  <2>5. kills' = 0 => \A v \in Workers : at[v] = "links" => \A l \in todo[v] :
            Known(l)' \/ (at'[v] = "links" /\ cur'[v] = cur[v] /\ l \in todo'[v])
    OBVIOUS
  <2> QED BY <1>1, <2>1, <2>2, <2>3, <2>4, <2>5, PagesStay
<1>3. FrontierHolds(Held)'
  BY DEF FrontierHolds, QueuesApart
<1> QED BY <1>2, <1>3, SettledFromRows DEF CrawlInv

\* What holds when no worker is there.
LEMMA Alone ==
  ASSUME CrawlInv, \A w \in Workers : at[w] = "gone"
  PROVE  /\ QueuesTyped /\ ClocksTyped /\ Cardinality(DOMAIN finished) < SyncEvery
         /\ \A H : H = {} => QueuesApart(H)
         /\ (phase = "down" => Cleared /\ queued = 0) /\ (phase # "down" => Counted)
         /\ CrawlTyped /\ HandsHold /\ PagesKnown /\ Held = {} /\ inflight = 0
         /\ at = [w \in Workers |-> "gone"] /\ cur = [w \in Workers |-> None]
         /\ todo = [w \in Workers |-> {}]
<1>1. /\ QueuesTyped /\ ClocksTyped /\ QueuesApart(Held) /\ Cardinality(DOMAIN finished) < SyncEvery
      /\ (phase = "down" => Cleared /\ queued = 0) /\ (phase # "down" => Counted)
      /\ CrawlTyped /\ HandsHold /\ PagesKnown
  BY DEF CrawlInv, FrontierHolds
<1>2. Held = {} /\ inflight = 0 /\ \A w \in Workers : cur[w] = None /\ todo[w] = {}
  BY <1>1, HandsEmpty
<1>3. \A H : H = {} => QueuesApart(H)
  BY <1>1, <1>2 DEF QueuesApart
<1>4. /\ at = [w \in Workers |-> at[w]] /\ cur = [w \in Workers |-> cur[w]]
      /\ todo = [w \in Workers |-> todo[w]]
  BY <1>1 DEF CrawlTyped
<1>5. /\ at = [w \in Workers |-> "gone"] /\ cur = [w \in Workers |-> None]
      /\ todo = [w \in Workers |-> {}]
  BY <1>2, <1>4
<1> QED BY <1>1, <1>2, <1>3, <1>5

\* A run begins.
LEMMA OpenStays ==
  ASSUME CrawlInv, Open
  PROVE  CrawlInv' /\ SettledStays
<1>1. /\ phase = "down" /\ OpenFrontier /\ phase' = "seeding" /\ seeding' = Seeds
      /\ UNCHANGED <<at, cur, todo, inflight, archive, refused, silent, dropped, lost, kills>>
  BY DEF Open, workers
<1>2. \A w \in Workers : at[w] = "gone"
  BY <1>1 DEF CrawlInv, HandsHold
<1>3. /\ QueuesTyped /\ ClocksTyped /\ Cleared
      /\ CrawlTyped /\ HandsHold /\ PagesKnown /\ Held = {} /\ inflight = 0
      /\ at = [w \in Workers |-> "gone"] /\ cur = [w \in Workers |-> None]
      /\ todo = [w \in Workers |-> {}]
  BY <1>1, <1>2, Alone
<1>4. /\ QueuesTyped' /\ ClocksTyped' /\ QueuesApart({})' /\ Counted' /\ Cleared'
      /\ RowsGoOn({}) /\ StillSettled /\ StillKnown
      /\ seen' = [hot |-> {}, cold |-> {}] /\ Cardinality(DOMAIN finished') < SyncEvery
  BY <1>1, <1>3, OpenKeeps
<1>5. CrawlTyped' /\ HandsHold' /\ Held' = {}
  <2>1. seeding' \in Seq(Urls) /\ kills' \in Nat
    BY <1>1, <1>3, CrawlBounds DEF CrawlTyped
  <2> QED BY <1>1, <1>3, <2>1, HandsReset
<1>6. kills' = 0 => kills = 0 /\ StillKnown /\ \A u \in seen'.hot \union seen'.cold : Known(u)'
  BY <1>1, <1>4
<1>7. \A u \in Urls : Settled(u) => Settled(u)' \/ u \in lost'
  BY <1>4 DEF StillSettled
<1>8. PICK H : H = {}
  OBVIOUS
<1>9. QueuesApart(H)'
  BY <1>4, <1>8 DEF QueuesApart
<1>10. /\ (phase' = "down" => Cleared' /\ queued' = 0) /\ (phase' # "down" => Counted')
       /\ \A w \in Workers : at'[w] # "links"
       /\ archive' = archive /\ refused \subseteq refused' /\ silent \subseteq silent'
       /\ dropped \subseteq dropped' /\ lost \subseteq lost'
  BY <1>1, <1>2, <1>4
<1> QED BY <1>2, <1>4, <1>5, <1>6, <1>7, <1>8, <1>9, <1>10, RunStays

\* A seed is admitted.
LEMMA SeedStays ==
  ASSUME CrawlInv, Seed
  PROVE  CrawlInv' /\ SettledStays
<1>1. /\ phase = "seeding" /\ seeding # <<>> /\ Add(Head(seeding)) /\ seeding' = Tail(seeding)
      /\ UNCHANGED <<phase, at, cur, todo, inflight, archive, refused, silent, dropped, lost, kills>>
  BY DEF Seed, workers, world, counts
<1>2. \A w \in Workers : at[w] = "gone"
  BY <1>1 DEF CrawlInv, HandsHold
<1>3. /\ QueuesTyped /\ ClocksTyped /\ Counted /\ Cardinality(DOMAIN finished) < SyncEvery
      /\ CrawlTyped /\ HandsHold /\ PagesKnown /\ Held = {} /\ inflight = 0
      /\ at = [w \in Workers |-> "gone"] /\ cur = [w \in Workers |-> None]
      /\ todo = [w \in Workers |-> {}]
  BY <1>1, <1>2, Alone
<1>4. PICK H \in SUBSET Urls : H = {}
  OBVIOUS
<1>5. QueuesApart(H)
  BY <1>2, <1>4, Alone
<1>6. seeding \in Seq(Urls) /\ Head(seeding) \in Urls /\ Tail(seeding) \in Seq(Urls)
  BY <1>1, <1>3 DEF CrawlTyped
<1>7. PICK u \in Urls : u = Head(seeding)
  BY <1>6
<1>8. /\ QueuesTyped' /\ QueuesApart(H)' /\ (Counted => Counted')
      /\ RowsGoOn({}) /\ StillSettled /\ StillKnown /\ UNCHANGED <<hostRow, clocks, finished>>
      /\ u \notin seen.hot \union seen.cold => Known(u)'
      /\ seen'.hot \union seen'.cold \subseteq seen.hot \union seen.cold \union {u}
  BY <1>1, <1>3, <1>5, <1>7, AddKeeps
<1>9. ClocksTyped'
  <2>1. UNCHANGED <<hostRow, lru, hot, dirty, slot>>
    BY <1>8 DEF clocks
  <2>2. WrittenHosts' = WrittenHosts
    BY <2>1 DEF WrittenHosts
  <2> QED BY <1>3, <2>1, <2>2 DEF ClocksTyped
<1>10. CrawlTyped' /\ HandsHold' /\ Held' = {}
  <2>1. kills' \in Nat /\ phase' \in {"down", "seeding", "running", "closing"} /\ seeding' \in Seq(Urls)
    BY <1>1, <1>3, <1>6 DEF CrawlTyped
  <2> QED BY <1>1, <1>3, <2>1, HandsReset
<1>11. kills' = 0 => kills = 0 /\ StillKnown /\ \A v \in seen'.hot \union seen'.cold : Known(v)'
  <2> SUFFICES ASSUME kills = 0, NEW v \in seen'.hot \union seen'.cold PROVE Known(v)'
    BY <1>1, <1>8
  <2>1. CASE v \in seen.hot \union seen.cold
    <3>1. v \in Urls /\ Known(v)
      BY <1>3, <2>1 DEF QueuesTyped, PagesKnown
    <3> QED BY <1>8, <3>1 DEF StillKnown
  <2>2. CASE v \notin seen.hot \union seen.cold
    BY <1>8, <2>2
  <2> QED BY <2>1, <2>2
<1>12. \A v \in Urls : Settled(v) => Settled(v)' \/ v \in lost'
  BY <1>8 DEF StillSettled
<1>13. /\ (phase' = "down" => Cleared' /\ queued' = 0) /\ (phase' # "down" => Counted')
       /\ \A w \in Workers : at'[w] # "links" /\ Cardinality(DOMAIN finished') < SyncEvery
       /\ archive' = archive /\ refused \subseteq refused' /\ silent \subseteq silent'
       /\ dropped \subseteq dropped' /\ lost \subseteq lost'
  BY <1>1, <1>2, <1>3, <1>8
<1>14. Cardinality(DOMAIN finished') < SyncEvery
  BY <1>3, <1>8
<1> QED BY <1>2, <1>4, <1>8, <1>9, <1>10, <1>11, <1>12, <1>13, <1>14, RunStays

\* The workers start, their hands empty.
LEMMA StartStays ==
  ASSUME CrawlInv, Run
  PROVE  CrawlInv' /\ SettledStays
<1>1. /\ phase = "seeding" /\ Flush /\ phase' = "running" /\ at' = [w \in Workers |-> "top"]
      /\ UNCHANGED <<seeding, cur, todo, inflight, archive, refused, silent, dropped, lost, kills>>
  BY DEF Run, world, counts
<1>2. \A w \in Workers : at[w] = "gone"
  BY <1>1 DEF CrawlInv, HandsHold
<1>3. /\ QueuesTyped /\ ClocksTyped /\ Counted /\ Cardinality(DOMAIN finished) < SyncEvery
      /\ CrawlTyped /\ HandsHold /\ PagesKnown /\ Held = {} /\ inflight = 0
      /\ cur = [w \in Workers |-> None] /\ todo = [w \in Workers |-> {}]
  BY <1>1, <1>2, Alone
<1>4. PICK H \in SUBSET Urls : H = {}
  OBVIOUS
<1>5. QueuesApart(H)
  BY <1>2, <1>4, Alone
<1>6. /\ QueuesTyped' /\ QueuesApart(H)' /\ (Counted => Counted')
      /\ RowsGoOn({}) /\ StillSettled /\ StillKnown /\ UNCHANGED <<hostRow, clocks, seen>>
  BY <1>1, <1>3, <1>5, FlushKeeps
<1>7. finished' = finished
  BY <1>1 DEF Flush
<1>8. ClocksTyped'
  <2>1. UNCHANGED <<hostRow, lru, hot, dirty, slot>>
    BY <1>6 DEF clocks
  <2>2. WrittenHosts' = WrittenHosts
    BY <2>1 DEF WrittenHosts
  <2> QED BY <1>3, <2>1, <2>2 DEF ClocksTyped
<1>9. CrawlTyped' /\ HandsHold' /\ Held' = {}
  <2>1. CrawlTyped'
    BY <1>1, <1>3 DEF CrawlTyped, Places
  <2>2. Inside' = {}
    BY <1>1 DEF Inside, InProcess
  <2>3. inflight' = Cardinality(Inside')
    BY <1>1, <1>3, <2>2, FS_EmptySet
  <2>4. \A w \in Workers : at'[w] = "top" /\ cur'[w] = None /\ todo'[w] = {}
    BY <1>1, <1>3
  <2>5. HandsHold'
    BY <1>1, <2>3, <2>4 DEF HandsHold, InHand, InProcess
  <2> QED BY <2>1, <2>4, <2>5 DEF Held
<1>10. kills' = 0 => kills = 0 /\ StillKnown /\ \A v \in seen'.hot \union seen'.cold : Known(v)'
  BY <1>1, <1>3, <1>6, SeenStays
<1>11. \A v \in Urls : Settled(v) => Settled(v)' \/ v \in lost'
  BY <1>6 DEF StillSettled
<1>12. /\ (phase' = "down" => Cleared' /\ queued' = 0) /\ (phase' # "down" => Counted')
       /\ \A w \in Workers : at'[w] # "links"
       /\ archive' = archive /\ refused \subseteq refused' /\ silent \subseteq silent'
       /\ dropped \subseteq dropped' /\ lost \subseteq lost'
       /\ Cardinality(DOMAIN finished') < SyncEvery
  BY <1>1, <1>3, <1>6, <1>7
<1> QED BY <1>2, <1>4, <1>6, <1>8, <1>9, <1>10, <1>11, <1>12, RunStays

\* All workers are gone and the run closes.
LEMMA EndedStays ==
  ASSUME CrawlInv, Ended
  PROVE  CrawlInv' /\ SettledStays
<1>1. /\ phase = "running" /\ \A w \in Workers : at[w] = "gone"
      /\ Sync /\ phase' = "closing"
      /\ UNCHANGED <<seeding, at, cur, todo, inflight, archive, refused, silent, dropped, lost, kills>>
  BY DEF Ended, world, workers, counts
<1>3. /\ QueuesTyped /\ ClocksTyped /\ Counted
      /\ CrawlTyped /\ HandsHold /\ PagesKnown /\ Held = {} /\ inflight = 0
      /\ at = [w \in Workers |-> "gone"] /\ cur = [w \in Workers |-> None]
      /\ todo = [w \in Workers |-> {}]
  BY <1>1, Alone
<1>4. PICK H \in SUBSET Urls : H = {}
  OBVIOUS
<1>5. QueuesApart(H)
  BY <1>1, <1>4, Alone
<1>6. /\ QueuesTyped' /\ QueuesApart(H)' /\ Counted'
      /\ RowsGoOn({}) /\ StillSettled /\ StillKnown /\ DOMAIN finished' = {}
      /\ UNCHANGED <<hostRow, clocks, seen>>
  BY <1>1, <1>3, <1>5, SyncKeeps
<1>8. ClocksTyped'
  <2>1. UNCHANGED <<hostRow, lru, hot, dirty, slot>>
    BY <1>6 DEF clocks
  <2>2. WrittenHosts' = WrittenHosts
    BY <2>1 DEF WrittenHosts
  <2> QED BY <1>3, <2>1, <2>2 DEF ClocksTyped
<1>9. CrawlTyped' /\ HandsHold' /\ Held' = {}
  <2>1. kills' \in Nat /\ phase' \in {"down", "seeding", "running", "closing"} /\ seeding' \in Seq(Urls)
    BY <1>1, <1>3 DEF CrawlTyped
  <2> QED BY <1>1, <1>3, <2>1, HandsReset
<1>10. kills' = 0 => kills = 0 /\ StillKnown /\ \A v \in seen'.hot \union seen'.cold : Known(v)'
  BY <1>1, <1>3, <1>6, SeenStays
<1>11. \A v \in Urls : Settled(v) => Settled(v)' \/ v \in lost'
  BY <1>6 DEF StillSettled
<1>12. /\ (phase' = "down" => Cleared' /\ queued' = 0) /\ (phase' # "down" => Counted')
       /\ \A w \in Workers : at'[w] # "links"
       /\ archive' = archive /\ refused \subseteq refused' /\ silent \subseteq silent'
       /\ dropped \subseteq dropped' /\ lost \subseteq lost'
  BY <1>1, <1>6
<1>13. Cardinality(DOMAIN finished') < SyncEvery
  BY <1>6, FS_EmptySet, Bounds
<1> QED BY <1>1, <1>4, <1>6, <1>8, <1>9, <1>10, <1>11, <1>12, <1>13, RunStays

\* The process ends in order.
LEMMA CloseStays ==
  ASSUME CrawlInv, CloseCrawl
  PROVE  CrawlInv' /\ SettledStays
<1>1. /\ phase = "closing" /\ Close /\ phase' = "down"
      /\ inflight' = 0 /\ cur' = [w \in Workers |-> None] /\ todo' = [w \in Workers |-> {}]
      /\ UNCHANGED <<seeding, at, archive, refused, silent, dropped, lost, kills>>
  BY DEF CloseCrawl, world, counts
<1>2. \A w \in Workers : at[w] = "gone"
  BY <1>1 DEF CrawlInv, HandsHold
<1>3. /\ QueuesTyped /\ ClocksTyped /\ CrawlTyped /\ PagesKnown
      /\ at = [w \in Workers |-> "gone"]
  BY <1>2, Alone
<1>4. PICK H \in SUBSET Urls : H = {}
  OBVIOUS
<1>5. QueuesApart(H)
  BY <1>2, <1>4, Alone
<1>6. /\ QueuesTyped' /\ ClocksTyped' /\ QueuesApart({})' /\ Cleared'
      /\ RowsGoOn({}) /\ StillSettled /\ StillKnown
      /\ seen' = [hot |-> {}, cold |-> {}] /\ Cardinality(DOMAIN finished') < SyncEvery
  BY <1>1, <1>3, <1>5, CloseKeeps
<1>7. QueuesApart(H)' /\ queued' = 0
  BY <1>1, <1>4, <1>6 DEF QueuesApart, Close
<1>9. CrawlTyped' /\ HandsHold' /\ Held' = {}
  <2>1. kills' \in Nat /\ phase' \in {"down", "seeding", "running", "closing"} /\ seeding' \in Seq(Urls)
    BY <1>1, <1>3 DEF CrawlTyped
  <2> QED BY <1>1, <1>3, <2>1, HandsReset
<1>10. kills' = 0 => kills = 0 /\ StillKnown /\ \A v \in seen'.hot \union seen'.cold : Known(v)'
  BY <1>1, <1>6
<1>11. \A v \in Urls : Settled(v) => Settled(v)' \/ v \in lost'
  BY <1>6 DEF StillSettled
<1>12. /\ (phase' = "down" => Cleared' /\ queued' = 0) /\ (phase' # "down" => Counted')
       /\ \A w \in Workers : at'[w] # "links"
       /\ archive' = archive /\ refused \subseteq refused' /\ silent \subseteq silent'
       /\ dropped \subseteq dropped' /\ lost \subseteq lost'
  BY <1>1, <1>2, <1>6, <1>7
<1> QED BY <1>2, <1>4, <1>6, <1>7, <1>9, <1>10, <1>11, <1>12, RunStays

\* A kill takes what is in memory and in hands, and nothing else.
LEMMA KillStays ==
  ASSUME CrawlInv, KillCrawl
  PROVE  CrawlInv' /\ SettledStays
<1>1. /\ Kill /\ phase' = "down" /\ kills' = kills + 1 /\ seeding' = <<>> /\ inflight' = 0
      /\ at' = [w \in Workers |-> "gone"] /\ cur' = [w \in Workers |-> None]
      /\ todo' = [w \in Workers |-> {}]
      /\ lost' = lost \union DOMAIN finished \union {cur[w] : w \in Workers}
      /\ UNCHANGED <<archive, refused, silent, dropped>>
  BY DEF KillCrawl
<1>2. QueuesTyped /\ ClocksTyped /\ CrawlTyped /\ HandsHold /\ PagesKnown /\ kills \in Nat
  BY DEF CrawlInv, FrontierHolds, CrawlTyped
<1>3. /\ QueuesTyped' /\ ClocksTyped' /\ QueuesApart({})' /\ Cleared'
      /\ RowsGoOn({}) /\ row' = row /\ stage' = stage
      /\ seen' = [hot |-> {}, cold |-> {}] /\ Cardinality(DOMAIN finished') < SyncEvery
  BY <1>1, <1>2, KillKeeps
<1>4. CrawlTyped' /\ HandsHold' /\ Held' = {}
  <2>1. kills' \in Nat /\ phase' \in {"down", "seeding", "running", "closing"} /\ seeding' \in Seq(Urls)
    BY <1>1, <1>2
  <2> QED BY <1>1, <1>2, <2>1, HandsReset
<1>5. PagesKnown'
  <2>1. \A u \in Urls : Settled(u) => Settled(u)' \/ u \in lost'
    BY <1>1, <1>3 DEF Settled
  <2>2. kills' # 0
    BY <1>1, <1>2
  <2>3. \A u \in Urls : Reason(u) => Reason(u)'
    BY <1>1 DEF Reason
  <2>4. {} \in SUBSET Urls /\ \A u \in {} : Reason(u)'
    OBVIOUS
  <2>5. \A v \in Workers : at'[v] = "links" => at[v] = "links" /\ cur'[v] = cur[v]
    BY <1>1
  <2>6. \A v \in Workers : at[v] = "links" =>
            \/ at'[v] = "links" /\ cur'[v] = cur[v]
            \/ cur[v] \in SettledUrls' \union lost'
    BY <1>1
  <2>7. lost \subseteq lost' /\ archive' = archive
    BY <1>1
  <2> QED BY <1>2, <1>3, <2>1, <2>2, <2>3, <2>4, <2>5, <2>6, <2>7, PagesStay
<1>6. FrontierHolds(Held)'
  <2>1. queued' = 0
    BY <1>1 DEF Kill
  <2> QED BY <1>1, <1>3, <1>4, <2>1 DEF FrontierHolds, QueuesApart
<1> QED BY <1>3, <1>4, <1>5, <1>6, SettledFromRows DEF CrawlInv

\* A tick, a cancelled context, or nothing.
LEMMA TimeStays ==
  ASSUME CrawlInv, Tick \/ Cancel \/ UNCHANGED vars
  PROVE  CrawlInv' /\ SettledStays
<1>1. /\ QueuesTyped /\ ClocksTyped /\ QueuesApart(Held) /\ Cardinality(DOMAIN finished) < SyncEvery
      /\ (phase = "down" => Cleared /\ queued = 0) /\ (phase # "down" => Counted)
      /\ CrawlTyped /\ HandsHold /\ PagesKnown
  BY DEF CrawlInv, FrontierHolds
<1>2. UNCHANGED <<phase, seeding, at, cur, todo, inflight, archive, refused, silent, dropped, lost, kills>>
  BY DEF Tick, Cancel, vars, crawlVars, run, workers, world, counts
<1>3. PICK H : H = Held
  OBVIOUS
<1>4. QueuesApart(H)
  BY <1>1, <1>3 DEF QueuesApart
<1>5. /\ QueuesTyped' /\ ClocksTyped' /\ QueuesApart(H)' /\ (phase # "down" => Counted')
      /\ (phase = "down" => Cleared' /\ queued' = 0)
      /\ RowsGoOn({}) /\ StillSettled /\ StillKnown /\ seen' = seen /\ finished' = finished
  <2>1. CASE Tick
    <3>1. phase = "running" /\ FrontierTick
      BY <2>1 DEF Tick
    <3>2. /\ QueuesTyped' /\ QueuesApart(H)' /\ Counted'
          /\ UNCHANGED <<row, stage, pending, seen, finished, slot>>
      BY <1>1, <1>4, <3>1, TickKeeps
    <3>3. ClocksTyped'
      BY <1>1, <3>1, ClocksTick
    <3>4. RowsGoOn({}) /\ StillSettled /\ StillKnown
      BY <3>2 DEF RowsGoOn, DoneBy, StillSettled, Settled, StillKnown, Known
    <3> QED BY <3>1, <3>2, <3>3, <3>4
  <2>2. CASE Cancel \/ UNCHANGED vars
    <3>1. UNCHANGED frontierVars
      BY <2>2 DEF Cancel, vars
    <3> QED BY <1>1, <1>4, <3>1, Unmoved
  <2> QED BY <2>1, <2>2
<1>6. Held' = Held
  BY <1>2 DEF Held
<1>7. FrontierHolds(Held)'
  BY <1>1, <1>2, <1>3, <1>5, <1>6 DEF FrontierHolds, QueuesApart
<1>8. CrawlTyped' /\ HandsHold'
  <2>1. Inside' = Inside
    BY <1>2 DEF Inside
  <2> QED BY <1>1, <1>2, <2>1 DEF CrawlTyped, HandsHold
<1>9. PagesKnown'
  <2>1. \A u \in Urls : Settled(u) => Settled(u)' \/ u \in lost'
    BY <1>5 DEF StillSettled
  <2>2. kills' = 0 => kills = 0 /\ StillKnown /\ \A u \in seen'.hot \union seen'.cold : Known(u)'
    BY <1>1, <1>2, <1>5, SeenStays
  <2>3. \A u \in Urls : Reason(u) => Reason(u)'
    BY <1>2 DEF Reason
  <2>4. {} \in SUBSET Urls /\ \A u \in {} : Reason(u)'
    OBVIOUS
  <2>5. \A v \in Workers : at'[v] = "links" => at[v] = "links" /\ cur'[v] = cur[v]
    BY <1>2
  <2>6. \A v \in Workers : at[v] = "links" =>
            \/ at'[v] = "links" /\ cur'[v] = cur[v]
            \/ cur[v] \in SettledUrls' \union lost'
    BY <1>2
  <2>7. kills' = 0 => \A v \in Workers : at[v] = "links" => \A l \in todo[v] :
            Known(l)' \/ (at'[v] = "links" /\ cur'[v] = cur[v] /\ l \in todo'[v])
    BY <1>2
  <2>8. lost \subseteq lost' /\ archive' = archive
    BY <1>2
  <2> QED BY <1>1, <1>5, <2>1, <2>2, <2>3, <2>4, <2>5, <2>6, <2>7, <2>8, PagesStay
<1> QED BY <1>5, <1>7, <1>8, <1>9, SettledFromRows DEF CrawlInv

\* The invariant holds at first.
LEMMA CrawlInit == Init => CrawlInv
<1> SUFFICES ASSUME Init PROVE CrawlInv
  OBVIOUS
<1>1. FrontierInit /\ phase = "down" /\ seeding = <<>> /\ inflight = 0
      /\ at = [w \in Workers |-> "gone"] /\ cur = [w \in Workers |-> None]
      /\ todo = [w \in Workers |-> {}] /\ archive = NoRows /\ kills = 0
  BY DEF Init
<1>2. /\ row = [u \in Urls |-> "absent"]
      /\ nextAt = NoRows /\ tries = NoRows /\ stage = NoRows
      /\ hostRow = [h \in Hosts |-> 0] /\ seen = [hot |-> {}, cold |-> {}]
      /\ pending = NoRows /\ ready = <<>> /\ deferred = <<>> /\ finished = <<>>
      /\ lru = <<>> /\ hot = <<>> /\ dirty = NoClocks /\ slot = NoClocks
      /\ queued = 0 /\ idle = FALSE
  BY <1>1 DEF FrontierInit
<1>3. NoRows \in [Urls -> Nat] /\ NoClocks \in [Hosts -> {None}] /\ \A u \in Urls : NoRows[u] = 0
  BY DEF NoRows, NoClocks
<1>4. DOMAIN deferred = {} /\ DOMAIN finished = {} /\ DOMAIN hot = {} /\ ToSet(ready) = {}
      /\ ToSet(lru) = {} /\ Distinct(ready) /\ Len(lru) = 0
  BY <1>2 DEF ToSet, Distinct
<1>5. Held = {}
  BY <1>1 DEF Held
<1>6. FrontierHolds(Held)
  <2>1. QueuesTyped
    <3>1. row \in [Urls -> States] /\ seen \in [hot : SUBSET Urls, cold : SUBSET Urls]
      BY <1>2 DEF States
    <3>2. ready \in Seq(Urls)
      BY <1>2
    <3>4. idle \in BOOLEAN
      BY <1>2
    <3>3. /\ nextAt \in [Urls -> Nat] /\ tries \in [Urls -> Nat]
          /\ stage \in [Urls -> Nat] /\ pending \in [Urls -> Nat]
      BY <1>2, <1>3
    <3> QED BY <1>4, <3>1, <3>2, <3>3, <3>4 DEF QueuesTyped
  <2>2. ClocksTyped
    BY <1>2, <1>3, <1>4, Bounds DEF ClocksTyped
  <2>3. QueuesApart(Held)
    BY <1>4, <1>5 DEF QueuesApart
  <2>4. Cardinality(DOMAIN finished) < SyncEvery
    BY <1>4, FS_EmptySet, Bounds
  <2>5. Cleared
    BY <1>2, <1>4 DEF Cleared
  <2> QED BY <1>1, <1>2, <2>1, <2>2, <2>3, <2>4, <2>5 DEF FrontierHolds
<1>7. CrawlTyped
  BY <1>1, <1>3 DEF CrawlTyped, Places
<1>8. HandsHold
  <2>1. Inside = {}
    BY <1>1 DEF Inside, InProcess
  <2> QED BY <1>1, <2>1, FS_EmptySet DEF HandsHold, InHand, InProcess
<1>9. PagesKnown
  BY <1>1, <1>2, <1>3, <1>4 DEF PagesKnown, DoneBy
<1> QED BY <1>6, <1>7, <1>8, <1>9 DEF CrawlInv

\* Every step keeps the invariant, and unsettles no URL.
LEMMA CrawlStep ==
  ASSUME CrawlInv, [Next]_vars
  PROVE  CrawlInv' /\ SettledStays
<1>1. CASE Open BY <1>1, OpenStays
<1>2. CASE Seed BY <1>2, SeedStays
<1>3. CASE Run BY <1>3, StartStays
<1>4. CASE Ended BY <1>4, EndedStays
<1>5. CASE CloseCrawl BY <1>5, CloseStays
<1>6. CASE KillCrawl BY <1>6, KillStays
<1>7. CASE Tick \/ Cancel \/ UNCHANGED vars BY <1>7, TimeStays
<1>8. ASSUME NEW w \in Workers, Step(w) PROVE CrawlInv' /\ SettledStays
  <2>1. CASE Top(w) \/ PopFails(w) \/ AskLen(w) \/ AskInflight(w)
    BY <2>1, LooksStay
  <2>2. CASE Enter(w) \/ Allowed(w) \/ Request(w) \/ RequestWritten(w)
    BY <2>2, WalksStay
  <2>3. CASE Refused(w) \/ Unreachable(w) \/ Overtaken(w) \/ CancelledWaiting(w) \/ FetchFails(w) \/ PageDone(w)
    BY <2>3, EndsStay
  <2>4. CASE Popped(w) BY <2>4, PoppedStays
  <2>5. CASE AllowedSlowly(w) BY <2>5, AllowedSlowlyStays
  <2>6. CASE Fetched(w) BY <2>6, FetchedStays
  <2>7. CASE PageFails(w) BY <2>7, PageFailsStay
  <2>8. CASE expand(w) BY <2>8, expandStays
  <2> QED BY <1>8, <2>1, <2>2, <2>3, <2>4, <2>5, <2>6, <2>7, <2>8 DEF Step
<1> QED BY <1>1, <1>2, <1>3, <1>4, <1>5, <1>6, <1>7, <1>8 DEF Next

-----------------------------------------------------------------------------
(* The host clocks. *)

\* A clock that is set has run since, and whoever holds a reservation got it late enough.
ClocksInv ==
  /\ handedAge \in [Hosts -> Nat] /\ slotAge \in [Hosts -> Nat]
  /\ phase # "down" => \A h \in Hosts :
       /\ WrittenHosts[h] + handedAge[h] >= Delay
       /\ WrittenHosts[h] + slotAge[h] >= SlowDelay
       /\ slot[h] # None => slotAge[h] >= SlowDelay

\* The clocks are as they were.
ClocksStill == WrittenHosts' = WrittenHosts /\ slot' = slot /\ UNCHANGED <<handedAge, slotAge>>

\* No worker is given a URL, nor lengthens its hold of a host.
NoneGiven ==
  \A w \in Workers :
    /\ ~(at[w] = "pop" /\ at'[w] = "popped")
    /\ ~(at[w] = "robots" /\ at'[w] = "wait" /\ Robots[HostOf[cur[w]]] = "slow")

\* A step that leaves the clocks alone keeps what is known of them.
LEMMA ClocksStay ==
  ASSUME ClocksInv, ClocksStill, phase # "down" \/ phase' = "down"
  PROVE  ClocksInv'
BY DEF ClocksInv, ClocksStill

\* No URL is handed out and no host kept longer: there is nothing to space.
LEMMA NoneGivenSpaced ==
  ASSUME NoneGiven
  PROVE  HandoutsSpaced /\ SlowHostsRest
BY DEF NoneGiven, HandoutsSpaced, SlowHostsRest

\* What a step of the frontier leaves alone is the clocks.
LEMMA ClocksUntouched ==
  ASSUME UNCHANGED <<hostRow, clocks>>
  PROVE  WrittenHosts' = WrittenHosts /\ slot' = slot
<1>1. UNCHANGED <<hostRow, dirty, slot>>
  BY DEF clocks
<1> QED BY <1>1 DEF WrittenHosts

\* A URL is handed out of a host that rested for its delay, and its clock is set.
LEMMA PopSpaced ==
  ASSUME CrawlInv, ClocksInv, NEW w \in Workers, Popped(w)
  PROVE  ClocksInv' /\ HandoutsSpaced /\ SlowHostsRest
<1>1. /\ at[w] = "pop" /\ at[w] # "gone" /\ UNCHANGED <<phase, slotAge>>
      /\ \/ \E u \in Urls :
              /\ Pop(u) /\ cur' = [cur EXCEPT ![w] = u] /\ Goto(w, "popped")
              /\ handedAge' = [handedAge EXCEPT ![HostOf[u]] = 0]
         \/ PopNothing /\ Goto(w, "empty") /\ UNCHANGED <<cur, handedAge>>
  BY DEF Popped, run
<1>2. /\ QueuesTyped /\ ClocksTyped /\ QueuesApart(Held)
      /\ (phase # "down" => Counted) /\ CrawlTyped /\ HandsHold
  BY DEF CrawlInv, FrontierHolds
<1>3. /\ phase = "running" /\ at \in [Workers -> Places] /\ cur \in [Workers -> Urls \union {None}]
      /\ Held \subseteq Urls
  BY <1>1, <1>2, Present DEF CrawlTyped, Held
<1>4. PICK H \in SUBSET Urls : H = Held
  BY <1>3
<1>5. QueuesApart(H) /\ Counted
  BY <1>2, <1>3, <1>4 DEF QueuesApart
<1>6. CASE \E u \in Urls :
              /\ Pop(u) /\ cur' = [cur EXCEPT ![w] = u] /\ Goto(w, "popped")
              /\ handedAge' = [handedAge EXCEPT ![HostOf[u]] = 0]
  <2>1. PICK u \in Urls :
              /\ Pop(u) /\ cur' = [cur EXCEPT ![w] = u] /\ at' = [at EXCEPT ![w] = "popped"]
              /\ handedAge' = [handedAge EXCEPT ![HostOf[u]] = 0]
    BY <1>6 DEF Goto
  <2>2. /\ WrittenHosts[HostOf[u]] = 0 /\ WrittenHosts' = [WrittenHosts EXCEPT ![HostOf[u]] = Delay]
        /\ slot' = [slot EXCEPT ![HostOf[u]] = u]
    <3>1. CASE PopReady(u)
      BY <1>2, <1>5, <3>1, PopReadyKeeps
    <3>2. CASE PopRefilled(u)
      BY <1>2, <1>5, <3>2, PopRefilledKeeps
    <3> QED BY <2>1, <3>1, <3>2 DEF Pop
  <2>3. PICK h \in Hosts : h = HostOf[u]
    BY Bounds
  <2>4. /\ WrittenHosts \in [Hosts -> Nat] /\ slot \in [Hosts -> Urls \union {None}]
        /\ handedAge \in [Hosts -> Nat] /\ slotAge \in [Hosts -> Nat]
        /\ Delay \in Nat /\ SlowDelay \in Nat
    BY <1>2, ClockRead, Bounds, CrawlBounds DEF ClocksTyped, ClocksInv
  <2>5. /\ \A g \in Hosts : WrittenHosts'[g] = IF g = h THEN Delay ELSE WrittenHosts[g]
        /\ \A g \in Hosts : slot'[g] = IF g = h THEN u ELSE slot[g]
        /\ \A g \in Hosts : handedAge'[g] = IF g = h THEN 0 ELSE handedAge[g]
        /\ handedAge' \in [Hosts -> Nat] /\ slotAge' = slotAge /\ phase' = phase
    BY <1>1, <2>1, <2>2, <2>3, <2>4
  <2>6. \A g \in Hosts :
          /\ WrittenHosts[g] + handedAge[g] >= Delay
          /\ WrittenHosts[g] + slotAge[g] >= SlowDelay
          /\ slot[g] # None => slotAge[g] >= SlowDelay
    BY <1>3 DEF ClocksInv
  <2>7. handedAge[h] >= Delay /\ slotAge[h] >= SlowDelay
    BY <2>2, <2>3, <2>4, <2>6
  <2>8. ClocksInv'
    <3> SUFFICES ASSUME NEW g \in Hosts
                 PROVE  /\ WrittenHosts'[g] + handedAge'[g] >= Delay
                        /\ WrittenHosts'[g] + slotAge'[g] >= SlowDelay
                        /\ slot'[g] # None => slotAge'[g] >= SlowDelay
      BY <2>4, <2>5 DEF ClocksInv
    <3>1. CASE g = h
      BY <2>4, <2>5, <2>7, <3>1
    <3>2. CASE g # h
      BY <2>4, <2>5, <2>6, <3>2
    <3> QED BY <3>1, <3>2
  <2>9. HandoutsSpaced
    <3> SUFFICES ASSUME NEW v \in Workers, at[v] = "pop", at'[v] = "popped"
                 PROVE  handedAge[HostOf[cur'[v]]] >= Delay
      BY DEF HandoutsSpaced
    <3>1. v = w
      BY <1>3, <2>1
    <3>2. cur'[v] = u
      BY <1>3, <2>1, <3>1
    <3> QED BY <2>3, <2>7, <3>2
  <2>10. SlowHostsRest
    BY <1>1, <1>3, <2>1 DEF SlowHostsRest
  <2> QED BY <2>8, <2>9, <2>10
<1>7. CASE PopNothing /\ Goto(w, "empty") /\ UNCHANGED <<cur, handedAge>>
  <2>1. WrittenHosts' = WrittenHosts /\ slot' = slot
    BY <1>2, <1>5, <1>7, PopNothingKeeps
  <2>2. ClocksInv'
    BY <1>1, <1>3, <1>7, <2>1, ClocksStay DEF ClocksStill
  <2>3. NoneGiven
    BY <1>1, <1>3, <1>7 DEF NoneGiven, Goto
  <2> QED BY <2>2, <2>3, NoneGivenSpaced
<1> QED BY <1>1, <1>6, <1>7

\* A host with a longer pause is kept for it, counted from now.
LEMMA SlowSpaced ==
  ASSUME CrawlInv, ClocksInv, NEW w \in Workers, AllowedSlowly(w)
  PROVE  ClocksInv' /\ HandoutsSpaced /\ SlowHostsRest
<1>1. /\ at[w] = "robots" /\ HoldClaim(cur[w], SlowDelay) /\ at' = [at EXCEPT ![w] = "wait"]
      /\ slotAge' = [slotAge EXCEPT ![HostOf[cur[w]]] = 0] /\ UNCHANGED <<phase, handedAge>>
  BY DEF AllowedSlowly, Goto, run
<1>2. at[w] \in InHand
  BY <1>1 DEF InHand, InProcess
<1>3. phase = "running" /\ cur[w] \in Urls /\ ClocksTyped
  BY <1>2, HandedUrl
<1>4. PICK u \in Urls : u = cur[w]
  BY <1>3
<1>5. PICK h \in Hosts : h = HostOf[u]
  BY Bounds
<1>6. /\ WrittenHosts' = [WrittenHosts EXCEPT ![HostOf[u]] = SlowDelay]
      /\ slot' = [slot EXCEPT ![HostOf[u]] = None] /\ slot[HostOf[u]] = u
  <2> DEFINE until == SlowDelay
  <2>1. until \in Nat /\ HoldClaim(u, until)
    BY <1>1, <1>4, CrawlBounds
  <2> HIDE DEF until
  <2>2. /\ WrittenHosts' = [WrittenHosts EXCEPT ![HostOf[u]] = until]
        /\ slot' = [slot EXCEPT ![HostOf[u]] = None] /\ slot[HostOf[u]] = u
    BY <1>3, <2>1, HoldKeeps
  <2> QED BY <2>2 DEF until
<1>7. /\ WrittenHosts \in [Hosts -> Nat] /\ slot \in [Hosts -> Urls \union {None}]
      /\ handedAge \in [Hosts -> Nat] /\ slotAge \in [Hosts -> Nat]
      /\ Delay \in Nat /\ SlowDelay \in Nat /\ SlowDelay > Delay /\ u # None
  BY <1>3, ClockRead, Bounds, CrawlBounds DEF ClocksTyped, ClocksInv
<1>8. /\ \A g \in Hosts : WrittenHosts'[g] = IF g = h THEN SlowDelay ELSE WrittenHosts[g]
      /\ \A g \in Hosts : slot'[g] = IF g = h THEN None ELSE slot[g]
      /\ \A g \in Hosts : slotAge'[g] = IF g = h THEN 0 ELSE slotAge[g]
      /\ slotAge' \in [Hosts -> Nat] /\ handedAge' = handedAge /\ phase' = phase /\ slot[h] = u
  BY <1>1, <1>4, <1>5, <1>6, <1>7
<1>9. \A g \in Hosts :
        /\ WrittenHosts[g] + handedAge[g] >= Delay
        /\ WrittenHosts[g] + slotAge[g] >= SlowDelay
        /\ slot[g] # None => slotAge[g] >= SlowDelay
  BY <1>3 DEF ClocksInv
<1>10. slotAge[h] >= SlowDelay
  BY <1>7, <1>8, <1>9
<1>11. ClocksInv'
  <2> SUFFICES ASSUME NEW g \in Hosts
               PROVE  /\ WrittenHosts'[g] + handedAge'[g] >= Delay
                      /\ WrittenHosts'[g] + slotAge'[g] >= SlowDelay
                      /\ slot'[g] # None => slotAge'[g] >= SlowDelay
    BY <1>7, <1>8 DEF ClocksInv
  <2>1. CASE g = h
    BY <1>7, <1>8, <2>1
  <2>2. CASE g # h
    BY <1>7, <1>8, <1>9, <2>2
  <2> QED BY <2>1, <2>2
<1>12. at \in [Workers -> Places]
  BY DEF CrawlInv, CrawlTyped
<1>13. HandoutsSpaced
  BY <1>1, <1>12 DEF HandoutsSpaced
<1>14. SlowHostsRest
  <2> SUFFICES ASSUME NEW v \in Workers, at[v] = "robots", at'[v] = "wait"
               PROVE  slotAge[HostOf[cur[v]]] >= SlowDelay
    BY DEF SlowHostsRest
  <2>1. v = w
    BY <1>1, <1>12
  <2> QED BY <1>4, <1>5, <1>10, <2>1
<1> QED BY <1>11, <1>13, <1>14

\* Time passes: a clock loses what the ages gain.
LEMMA TickSpaced ==
  ASSUME CrawlInv, ClocksInv, Tick
  PROVE  ClocksInv' /\ HandoutsSpaced /\ SlowHostsRest
<1>1. /\ phase = "running" /\ FrontierTick /\ slotAge' = Older(slotAge) /\ handedAge' = Older(handedAge)
      /\ UNCHANGED <<phase, at, cur>>
  BY DEF Tick, run, workers
<1>2. ClocksTyped
  BY DEF CrawlInv, FrontierHolds
<1>3. /\ WrittenHosts \in [Hosts -> Nat] /\ WrittenHosts' \in [Hosts -> Nat]
      /\ \A h \in Hosts : WrittenHosts'[h] >= WrittenHosts[h] - 1
  BY <1>1, <1>2, ClocksTick, ClockRead
<1>4. slot' = slot
  BY <1>1 DEF FrontierTick
<1>5. /\ handedAge \in [Hosts -> Nat] /\ slotAge \in [Hosts -> Nat]
      /\ Delay \in Nat /\ SlowDelay \in Nat /\ SlowDelay > Delay
  BY Bounds, CrawlBounds DEF ClocksInv
<1>6. ASSUME NEW age \in [Hosts -> Nat]
      PROVE  /\ Older(age) \in [Hosts -> Nat]
             /\ \A h \in Hosts : Older(age)[h] \in {SlowDelay, age[h] + 1} /\ Older(age)[h] <= SlowDelay
                                  /\ Older(age)[h] <= age[h] + 1
  <2>1. Older(age) = [h \in Hosts |-> Min({SlowDelay, age[h] + 1})]
    BY DEF Older
  <2>2. ASSUME NEW h \in Hosts
        PROVE  /\ Min({SlowDelay, age[h] + 1}) \in {SlowDelay, age[h] + 1}
               /\ Min({SlowDelay, age[h] + 1}) <= SlowDelay /\ Min({SlowDelay, age[h] + 1}) <= age[h] + 1
               /\ Min({SlowDelay, age[h] + 1}) \in Nat
    <3> DEFINE a == SlowDelay
               c == age[h] + 1
    <3>1. a \in Int /\ c \in Int /\ a \in Nat /\ c \in Nat
      BY <1>5
    <3> HIDE DEF a, c
    <3>2. Min({a, c}) \in {a, c} /\ Min({a, c}) <= a /\ Min({a, c}) <= c
      BY <3>1, LeastOfTwo
    <3>3. Min({a, c}) \in Nat
      BY <3>1, <3>2
    <3> QED BY <3>2, <3>3 DEF a, c
  <2> QED BY <2>1, <2>2
<1>7. slotAge' \in [Hosts -> Nat] /\ handedAge' \in [Hosts -> Nat]
  BY <1>1, <1>5, <1>6
<1>8. \A h \in Hosts :
        /\ WrittenHosts[h] + handedAge[h] >= Delay
        /\ WrittenHosts[h] + slotAge[h] >= SlowDelay
        /\ slot[h] # None => slotAge[h] >= SlowDelay
  BY <1>1 DEF ClocksInv
<1>9. ASSUME NEW h \in Hosts
      PROVE  /\ WrittenHosts'[h] + handedAge'[h] >= Delay
             /\ WrittenHosts'[h] + slotAge'[h] >= SlowDelay
             /\ slot'[h] # None => slotAge'[h] >= SlowDelay
  <2>1. /\ handedAge'[h] \in {SlowDelay, handedAge[h] + 1} /\ slotAge'[h] \in {SlowDelay, slotAge[h] + 1}
        /\ slotAge'[h] <= SlowDelay
    BY <1>1, <1>5, <1>6
  <2>2. /\ WrittenHosts[h] \in Nat /\ WrittenHosts'[h] \in Nat /\ WrittenHosts'[h] >= WrittenHosts[h] - 1
        /\ handedAge[h] \in Nat /\ slotAge[h] \in Nat
    BY <1>3, <1>5
  <2>3. WrittenHosts'[h] + handedAge'[h] >= Delay
    BY <1>5, <1>8, <2>1, <2>2
  <2>4. WrittenHosts'[h] + slotAge'[h] >= SlowDelay
    BY <1>5, <1>8, <2>1, <2>2
  <2>5. slot'[h] # None => slotAge'[h] >= SlowDelay
    BY <1>4, <1>5, <1>8, <2>1, <2>2
  <2> QED BY <2>3, <2>4, <2>5
<1>10. ClocksInv'
  BY <1>7, <1>9 DEF ClocksInv
<1>11. NoneGiven
  BY <1>1 DEF NoneGiven
<1> QED BY <1>10, <1>11, NoneGivenSpaced

\* A run begins with every clock at rest.
LEMMA OpenSpaced ==
  ASSUME CrawlInv, ClocksInv, Open
  PROVE  ClocksInv' /\ HandoutsSpaced /\ SlowHostsRest
<1>1. /\ phase = "down" /\ OpenFrontier /\ UNCHANGED <<at, cur>>
      /\ slotAge' = since' /\ handedAge' = since' /\ since' = [h \in Hosts |-> SlowDelay]
  BY DEF Open, workers
<1>2. QueuesTyped /\ ClocksTyped /\ Cleared
  BY <1>1 DEF CrawlInv, FrontierHolds
<1>3. ClocksTyped' /\ slot' = NoClocks
  BY <1>1, <1>2, OpenKeeps
<1>4. WrittenHosts' \in [Hosts -> Nat]
  <2>1. hostRow' \in [Hosts -> Nat] /\ dirty' \in [Hosts -> Nat \union {None}]
    BY <1>3 DEF ClocksTyped
  <2>2. WrittenHosts' = [h \in Hosts |-> IF dirty'[h] # None THEN dirty'[h] ELSE hostRow'[h]]
    BY DEF WrittenHosts
  <2> QED BY <2>1, <2>2
<1>5. /\ Delay \in Nat /\ SlowDelay \in Nat /\ SlowDelay > Delay
      /\ slotAge' \in [Hosts -> Nat] /\ handedAge' \in [Hosts -> Nat]
      /\ \A h \in Hosts : slotAge'[h] = SlowDelay /\ handedAge'[h] = SlowDelay /\ slot'[h] = None
  BY <1>1, <1>3, Bounds, CrawlBounds DEF NoClocks
<1>6. ClocksInv'
  BY <1>4, <1>5 DEF ClocksInv
<1>7. NoneGiven
  BY <1>1 DEF NoneGiven
<1> QED BY <1>6, <1>7, NoneGivenSpaced

\* A step of a worker that is not handed a URL and keeps no host.
LEMMA StillSpaced ==
  ASSUME CrawlInv, ClocksInv, NEW w \in Workers, Step(w), ~Popped(w), ~AllowedSlowly(w)
  PROVE  ClocksInv' /\ HandoutsSpaced /\ SlowHostsRest
<1>1. at \in [Workers -> Places] /\ HandsHold
  BY DEF CrawlInv, CrawlTyped
<1>2. UNCHANGED <<hostRow, clocks, handedAge, slotAge, phase>>
  <2>1. CASE Top(w) \/ PopFails(w) \/ AskLen(w) \/ AskInflight(w) \/ Enter(w) \/ Allowed(w)
             \/ Request(w) \/ RequestWritten(w) \/ Fetched(w) \/ PageFails(w)
    <3>1. UNCHANGED <<frontierVars, handedAge, slotAge, phase>>
      BY <2>1 DEF Top, PopFails, AskLen, AskInflight, Enter, Allowed, Request, RequestWritten,
                  Fetched, PageFails, world, ages, run
    <3> QED BY <3>1 DEF frontierVars, disk, mem
  <2>2. CASE Refused(w) \/ Unreachable(w) \/ PageDone(w)
    BY <2>2 DEF Refused, Unreachable, PageDone, finish, Leave, world, ages
  <2>3. CASE Overtaken(w) \/ CancelledWaiting(w)
    BY <2>3 DEF Overtaken, CancelledWaiting, Defer, Retry, PutBack, Leave, world, ages
  <2>4. CASE FetchFails(w)
    <3>1. UNCHANGED <<handedAge, slotAge, phase>>
      BY <2>4 DEF FetchFails, Leave, world, ages
    <3>2. UNCHANGED <<hostRow, clocks>>
      <4>1. \/ \E when : Retry(cur[w], when)
            \/ finish(cur[w], "failed")
        BY <2>4 DEF FetchFails
      <4>2. CASE \E when : Retry(cur[w], when)
        BY <4>2 DEF Retry, PutBack
      <4>3. CASE finish(cur[w], "failed")
        BY <4>3 DEF finish
      <4> QED BY <4>1, <4>2, <4>3
    <3> QED BY <3>1, <3>2
  <2>5. CASE expand(w)
    BY <2>5 DEF expand, Add, run, world, ages
  <2> QED BY <2>1, <2>2, <2>3, <2>4, <2>5 DEF Step
<1>3. at[w] # "gone"
  BY DEF Step, Top, Popped, PopFails, AskLen, AskInflight, Enter, Refused, Unreachable, Allowed,
         AllowedSlowly, Overtaken, Request, RequestWritten, CancelledWaiting, FetchFails, Fetched,
         PageFails, expand, PageDone
<1>4. phase # "down"
  BY <1>1, <1>3, Present
<1>5. ClocksInv'
  BY <1>2, <1>4, ClocksUntouched, ClocksStay DEF ClocksStill
<1>6. NoneGiven
  <2>1. \/ at' = at
        \/ \E p : at' = [at EXCEPT ![w] = p] /\ p # "popped" /\ p # "wait"
        \/ at' = [at EXCEPT ![w] = "wait"] /\ Robots[HostOf[cur[w]]] = "open"
    <3>1. CASE Top(w) \/ PopFails(w) \/ AskLen(w) \/ AskInflight(w) \/ Enter(w)
               \/ Request(w) \/ RequestWritten(w) \/ Fetched(w) \/ PageFails(w)
      BY <3>1 DEF Top, PopFails, AskLen, AskInflight, Enter, Request, RequestWritten, Fetched,
                  PageFails, Goto, Stop
    <3>2. CASE Refused(w) \/ Unreachable(w) \/ PageDone(w) \/ Overtaken(w) \/ CancelledWaiting(w)
               \/ FetchFails(w)
      BY <3>2 DEF Refused, Unreachable, PageDone, Overtaken, CancelledWaiting, FetchFails, Leave, Goto
    <3>3. CASE Allowed(w)
      BY <3>3 DEF Allowed, Goto
    <3>4. CASE expand(w)
      BY <3>4 DEF expand
    <3> QED BY <3>1, <3>2, <3>3, <3>4 DEF Step
  <2> QED BY <1>1, <2>1 DEF NoneGiven
<1> QED BY <1>5, <1>6, NoneGivenSpaced

\* The steps of a run that leave the clocks alone, or end with the process.
LEMMA RunSpaced ==
  ASSUME CrawlInv, ClocksInv, Seed \/ Run \/ Ended \/ CloseCrawl \/ KillCrawl \/ Cancel \/ UNCHANGED vars
  PROVE  ClocksInv' /\ HandoutsSpaced /\ SlowHostsRest
<1>1. UNCHANGED <<handedAge, slotAge>>
  BY DEF Seed, Run, Ended, CloseCrawl, KillCrawl, Cancel, vars, crawlVars, world, ages
<1>2. ClocksInv'
  <2>1. CASE Seed \/ Run \/ Ended \/ Cancel \/ UNCHANGED vars
    <3>1. phase # "down" \/ phase' = "down"
      BY <2>1 DEF Seed, Run, Ended, Cancel, vars, crawlVars, run
    <3>2. UNCHANGED <<hostRow, clocks>>
      BY <2>1 DEF Seed, Run, Ended, Cancel, Add, Flush, Sync, vars, frontierVars, disk, mem
    <3>3. ClocksStill
      BY <1>1, <3>2, ClocksUntouched DEF ClocksStill
    <3> QED BY <3>1, <3>3, ClocksStay
  <2>2. CASE CloseCrawl \/ KillCrawl
    <3>1. phase' = "down"
      BY <2>2 DEF CloseCrawl, KillCrawl
    <3> QED BY <1>1, <3>1 DEF ClocksInv
  <2> QED BY <2>1, <2>2
<1>3. NoneGiven
  <2>1. at' = at \/ at' = [w \in Workers |-> "top"] \/ at' = [w \in Workers |-> "gone"]
    BY DEF Seed, Run, Ended, CloseCrawl, KillCrawl, Cancel, vars, crawlVars, workers
  <2> QED BY <2>1 DEF NoneGiven
<1> QED BY <1>2, <1>3, NoneGivenSpaced

\* Every step keeps what is known of the clocks, and spaces what is handed out.
LEMMA ClocksStep ==
  ASSUME CrawlInv, ClocksInv, [Next]_vars
  PROVE  ClocksInv' /\ HandoutsSpaced /\ SlowHostsRest
<1>1. CASE Open
  BY <1>1, OpenSpaced
<1>2. CASE Seed \/ Run \/ Ended \/ CloseCrawl \/ KillCrawl \/ Cancel \/ UNCHANGED vars
  BY <1>2, RunSpaced
<1>3. CASE Tick
  BY <1>3, TickSpaced
<1>4. ASSUME NEW w \in Workers, Step(w)
      PROVE  ClocksInv' /\ HandoutsSpaced /\ SlowHostsRest
  <2>1. CASE Popped(w)
    BY <2>1, PopSpaced
  <2>2. CASE AllowedSlowly(w)
    BY <2>2, SlowSpaced
  <2>3. CASE ~Popped(w) /\ ~AllowedSlowly(w)
    BY <1>4, <2>3, StillSpaced
  <2> QED BY <2>1, <2>2, <2>3
<1> QED BY <1>1, <1>2, <1>3, <1>4 DEF Next

\* The clocks at first.
LEMMA ClocksInit == Init => ClocksInv
<1> SUFFICES ASSUME Init PROVE ClocksInv
  OBVIOUS
<1>1. /\ phase = "down" /\ since = [h \in Hosts |-> SlowDelay] /\ slotAge = since /\ handedAge = since
  BY DEF Init
<1> QED BY <1>1, CrawlBounds DEF ClocksInv

\* The invariant implies the property.
LEMMA KeptIfInv ==
  ASSUME CrawlInv
  PROVE  UrlsKept
<1>1. /\ QueuesTyped /\ ClocksTyped /\ QueuesApart(Held) /\ Cardinality(DOMAIN finished) < SyncEvery
      /\ (phase = "down" => Cleared /\ queued = 0) /\ (phase # "down" => Counted)
      /\ CrawlTyped /\ HandsHold /\ PagesKnown
  BY DEF CrawlInv, FrontierHolds
<1>2. queued \in Nat
  BY <1>1, CountedType
<1>3. TypeOK
  <2>1. inflight \in 0 .. Cardinality(Workers)
    <3>1. IsFiniteSet(Workers) /\ Inside \subseteq Workers
      BY CrawlBounds DEF Inside
    <3>2. /\ Cardinality(Inside) \in Nat /\ Cardinality(Workers) \in Nat
          /\ Cardinality(Inside) <= Cardinality(Workers)
      BY <3>1, FS_Subset, FS_CardinalityType
    <3>3. inflight = Cardinality(Inside)
      BY <1>1 DEF HandsHold
    <3> QED BY <3>2, <3>3
  <2>2. /\ row \in [Urls -> {"absent", "pending", "claimed", "done", "failed"}]
        /\ {nextAt, tries, stage, pending} \subseteq [Urls -> Nat] /\ hostRow \in [Hosts -> Nat]
        /\ seen \in [hot : SUBSET Urls, cold : SUBSET Urls]
        /\ ready \in Seq(Urls) /\ DOMAIN deferred \subseteq Urls /\ DOMAIN finished \subseteq Urls
        /\ Len(lru) <= HotHosts /\ DOMAIN hot = ToSet(lru)
        /\ dirty \in [Hosts -> Nat \union {None}] /\ slot \in [Hosts -> Urls \union {None}]
    BY <1>1 DEF QueuesTyped, ClocksTyped, States
  <2>3. idle \in BOOLEAN
    BY <1>1 DEF QueuesTyped
  <2>4. at \in [Workers -> {"top", "pop", "empty", "free", "popped", "robots", "wait", "request",
                            "sent", "links", "gone"}]
    <3>1. Places = {"top", "pop", "empty", "free", "popped", "robots", "wait", "request",
                    "sent", "links", "gone"}
      BY DEF Places, InHand, InProcess
    <3> QED BY <1>1, <3>1 DEF CrawlTyped
  <2>5. /\ phase \in {"down", "seeding", "running", "closing"}
        /\ cur \in [Workers -> Urls \union {None}] /\ todo \in [Workers -> SUBSET Urls]
    BY <1>1 DEF CrawlTyped
  <2> QED BY <1>2, <2>1, <2>2, <2>3, <2>4, <2>5 DEF TypeOK
<1>4. QueuedIsExact
  BY <1>1 DEF QueuedIsExact, Working, Counted, PendingIn
<1>5. HandedToOne
  BY <1>1 DEF HandedToOne, HandsHold, QueuesApart
<1>6. LinksKept
  <2> SUFFICES ASSUME kills = 0, NEW u \in Urls, archive[u] > 0, DoneBy(u), NEW l \in Links[u]
               PROVE  Known(l)
    BY DEF LinksKept, DoneBy
  <2>1. Known(l) \/ \E w \in Workers : at[w] = "links" /\ cur[w] = u /\ l \in todo[w]
    BY <1>1 DEF PagesKnown
  <2>2. ~\E w \in Workers : at[w] = "links" /\ cur[w] = u
    <3> SUFFICES ASSUME NEW w \in Workers, at[w] = "links", cur[w] = u PROVE FALSE
      OBVIOUS
    <3>1. u \in Held
      BY <1>1 DEF HandsHold, InHand, InProcess, Held
    <3>2. row[u] = "claimed" /\ u \notin DOMAIN finished
      BY <1>1, <3>1 DEF QueuesApart
    <3> QED BY <3>2 DEF DoneBy
  <2> QED BY <2>1, <2>2
<1>7. DoneHasReason
  BY <1>1 DEF DoneHasReason, PagesKnown, DoneBy, Reason
<1>8. RefetchOnlyLost
  BY <1>1 DEF RefetchOnlyLost, PagesKnown
<1> QED BY <1>3, <1>4, <1>5, <1>6, <1>7, <1>8 DEF UrlsKept

\* No URL is lost and none is fetched twice, whatever the number of workers, URLs, hosts and
\* buffers and wherever the process is closed or killed (frontier.go Pop, Ack, Nack, Close and
\* the workers of crawlrun.go): a URL in the hands of a worker is claimed on disk and nobody
\* else's, the counter that the workers end on counts what is left, what counts as done was
\* archived or has a reason not to be, and a page is archived again only if a kill or a failed
\* page lost its URL.
THEOREM UrlsAreKept == Spec => []UrlsKept
<1>1. Init => CrawlInv
  BY CrawlInit
<1>2. CrawlInv /\ [Next]_vars => CrawlInv'
  BY CrawlStep
<1>3. CrawlInv => UrlsKept
  BY KeptIfInv
<1> QED BY <1>1, <1>2, <1>3, PTL DEF Spec

\* Every step of every run: a URL is handed out only when its host has rested for its delay
\* since the last one, also when its clock fell out of the cache of hot hosts or the claim was
\* made long before (frontier.go hostNextAt, HoldClaim); a host that asked for a longer pause
\* gets it; and a URL that is done or failed never comes back.
THEOREM HostsDoRest == Spec => HostsRest
<1>1. Init => CrawlInv /\ ClocksInv
  BY CrawlInit, ClocksInit
<1>2. CrawlInv /\ ClocksInv /\ [Next]_vars =>
        /\ CrawlInv' /\ ClocksInv' /\ HandoutsSpaced /\ SlowHostsRest /\ SettledStays
  BY CrawlStep, ClocksStep
<1>3. CrawlInv /\ ClocksInv /\ [Next]_vars => (CrawlInv /\ ClocksInv)'
  BY <1>2
<1>4. CrawlInv /\ ClocksInv /\ [Next]_vars => [HandoutsSpaced /\ SlowHostsRest /\ SettledStays]_vars
  BY <1>2
<1> QED BY <1>1, <1>3, <1>4, PTL DEF Spec, HostsRest
=============================================================================
