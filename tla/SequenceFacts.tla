---------------------------- MODULE SequenceFacts ----------------------------
(***************************************************************************)
(* What the proofs of several components need of numbers and sequences:    *)
(* induction over the numbers up to a bound, sequences put end to end and  *)
(* the places in them, sums, that what has distinct numbers can be put in  *)
(* their order, and where in a record an element is.                       *)
(***************************************************************************)
EXTENDS Integers, Sequences, SequencesExt, FiniteSets, RecordLayout, SequenceTheorems, FiniteSetTheorems,
        WellFoundedInduction, TLAPS

------------------------------------------------------------------------------
(* Induction *)

\* A set of numbers has a least one.
LEMMA LeastNumber ==
  ASSUME NEW S \in SUBSET Nat, S # {}
  PROVE  \E x \in S : \A y \in S : x <= y
<1>1. PICK x \in S : \A y \in S : ~(<<y, x>> \in OpToRel(<, Nat))
  BY NatLessThanWellFounded, WFMin
<1>2. \A y \in S : ~(y < x)
  BY <1>1 DEF OpToRel
<1> QED
  BY <1>2

\* What holds of 0, and of m + 1 with m up to a bound, holds up to the bound.
LEMMA UpTo ==
  ASSUME NEW n \in Nat, NEW S, 0 \in S, \A m \in 0..(n - 1) : m \in S => m + 1 \in S
  PROVE  \A m \in 0..n : m \in S
<1> DEFINE Bad == {m \in 0..n : m \notin S}
<1>1. SUFFICES ASSUME Bad # {} PROVE FALSE
  OBVIOUS
<1>2. PICK m \in Bad : \A y \in Bad : m <= y
  <2>1. Bad \in SUBSET Nat
    OBVIOUS
  <2> HIDE DEF Bad
  <2> QED
    BY <1>1, <2>1, LeastNumber
<1>3. m \in 1..n /\ m - 1 \in 0..(n - 1) /\ m - 1 \notin Bad
  <2>1. m \in 0..n /\ m # 0
    BY <1>2
  <2>2. m - 1 \in 0..(n - 1) /\ ~(m <= m - 1)
    BY <2>1
  <2> QED
    BY <1>2, <2>1, <2>2
<1>4. m - 1 \in S /\ (m - 1) + 1 = m
  BY <1>3
<1> QED
  BY <1>2, <1>3, <1>4

------------------------------------------------------------------------------
(* Sequences end to end *)

\* FlattenSeq as a function of its own, for a sequence that is not empty.
LEMMA FlatExists ==
  ASSUME NEW s, NEW n \in Nat
  PROVE  \E f : f = [i \in 1..n |-> IF i = 1 THEN s[i] ELSE f[i - 1] \o s[i]]
<1> DEFINE Good(m) == \E f : f = [i \in 1..m |-> IF i = 1 THEN s[i] ELSE f[i - 1] \o s[i]]
           S == {m \in Nat : Good(m)}
<1>1. Good(0)
  <2> DEFINE f == [i \in 1..0 |-> s[i]]
  <2>1. f = [i \in 1..0 |-> IF i = 1 THEN s[i] ELSE f[i - 1] \o s[i]]
    OBVIOUS
  <2> QED
    BY <2>1
<1>2. ASSUME NEW m \in Nat, Good(m) PROVE Good(m + 1)
  <2>1. PICK f : f = [i \in 1..m |-> IF i = 1 THEN s[i] ELSE f[i - 1] \o s[i]]
    BY <1>2
  <2> HIDE DEF Good, S
  <2> DEFINE g == [i \in 1..(m + 1) |-> IF i = 1 THEN s[i]
                                        ELSE IF i = m + 1 THEN f[m] \o s[i] ELSE f[i]]
  <2>2. ASSUME NEW i \in 1..(m + 1)
        PROVE  g[i] = IF i = 1 THEN s[i] ELSE g[i - 1] \o s[i]
    <3>1. CASE i = 1
      BY <3>1
    <3>2. CASE i # 1 /\ i = m + 1
      <4>1. m \in 1..(m + 1) /\ m # m + 1 /\ i - 1 = m
        BY <3>2
      <4>2. g[m] = f[m]
        <5>1. m = 1 => f[m] = s[m]
          BY <2>1, <4>1
        <5> QED
          BY <4>1, <5>1
      <4>3. g[i] = f[m] \o s[i]
        BY <3>2
      <4> QED
        BY <3>2, <4>1, <4>2, <4>3
    <3>3. CASE i \in 2..m
      <4>1. i \in 1..m /\ i - 1 \in 1..(m + 1) /\ i # 1 /\ i # m + 1 /\ i - 1 # m + 1 /\ i - 1 \in 1..m
        BY <3>3
      <4>2. f[i] = f[i - 1] \o s[i]
        BY <2>1, <4>1
      <4>3. g[i - 1] = f[i - 1]
        <5>1. i - 1 = 1 => f[i - 1] = s[i - 1]
          BY <2>1, <4>1
        <5> QED
          BY <4>1, <5>1
      <4>4. g[i] = f[i]
        BY <4>1
      <4> QED
        BY <4>1, <4>2, <4>3, <4>4
    <3> QED
      BY <3>1, <3>2, <3>3
  <2>3. g = [i \in 1..(m + 1) |-> IF i = 1 THEN s[i] ELSE g[i - 1] \o s[i]]
    BY <2>2
  <2> HIDE DEF g
  <2> QED
    BY <2>3 DEF Good
<1> HIDE DEF Good
<1>3. 0 \in S /\ \A m \in 0..(n - 1) : m \in S => m + 1 \in S
  BY <1>1, <1>2
<1> HIDE DEF S
<1>4. n \in S
  BY <1>3, UpTo
<1>5. Good(n)
  BY <1>4 DEF S
<1> QED
  BY <1>5 DEF Good

\* What is put together of one part more.
LEMMA FlatStep ==
  ASSUME NEW s, Len(s) \in Nat \ {0}
  PROVE  \E f : /\ FlattenSeq(s) = f[Len(s)]
                /\ f[1] = s[1]
                /\ \A i \in 2..Len(s) : f[i] = f[i - 1] \o s[i]
<1> DEFINE f == CHOOSE f : f = [i \in 1..Len(s) |-> IF i = 1 THEN s[i] ELSE f[i - 1] \o s[i]]
<1>1. f = [i \in 1..Len(s) |-> IF i = 1 THEN s[i] ELSE f[i - 1] \o s[i]]
  BY FlatExists
<1>2. FlattenSeq(s) = f[Len(s)]
  BY DEF FlattenSeq
<1> HIDE DEF f
<1>3. f[1] = s[1] /\ \A i \in 2..Len(s) : f[i] = f[i - 1] \o s[i]
  <2>1. 1 \in 1..Len(s) /\ \A i \in 2..Len(s) : i \in 1..Len(s) /\ i # 1
    OBVIOUS
  <2> QED
    BY <1>1, <2>1
<1> QED
  BY <1>2, <1>3

\* One sequence is itself.
LEMMA FlatOne == ASSUME NEW s PROVE FlattenSeq(<<s>>) = s
<1> DEFINE t == <<s>>
<1>1. Len(t) = 1 /\ t[1] = s
  OBVIOUS
<1> HIDE DEF t
<1>2. PICK f : FlattenSeq(t) = f[Len(t)] /\ f[1] = t[1]
  <2>1. Len(t) \in Nat \ {0}
    BY <1>1
  <2> QED
    BY <2>1, FlatStep
<1>3. FlattenSeq(t) = s
  BY <1>1, <1>2
<1> QED
  BY <1>3 DEF t

\* Sequences of a kind, end to end, are a sequence of it.
LEMMA FlatType ==
  ASSUME NEW T, NEW s, DOMAIN s = 1..Len(s), Len(s) \in Nat \ {0}, \A i \in DOMAIN s : s[i] \in Seq(T)
  PROVE  FlattenSeq(s) \in Seq(T)
<1> DEFINE n == Len(s)
<1>1. PICK f : FlattenSeq(s) = f[n] /\ f[1] = s[1] /\ \A i \in 2..n : f[i] = f[i - 1] \o s[i]
  BY FlatStep
<1> DEFINE S == {m \in Nat : f[m + 1] \in Seq(T)}
<1>2. n \in Nat \ {0} /\ 1 \in DOMAIN s
  OBVIOUS
<1>3. 0 \in S
  BY <1>1, <1>2
<1>4. ASSUME NEW m \in 0..((n - 1) - 1), m \in S PROVE m + 1 \in S
  <2> DEFINE i == m + 2
  <2>1. i \in 2..n /\ i - 1 = m + 1 /\ (m + 1) + 1 = i /\ i \in DOMAIN s /\ m + 1 \in Nat
    BY <1>2
  <2>2. f[i] = f[m + 1] \o s[i]
    BY <1>1, <2>1
  <2>3. f[m + 1] \in Seq(T) /\ s[i] \in Seq(T)
    BY <1>4, <2>1
  <2>4. f[i] \in Seq(T)
    BY <2>2, <2>3, ConcatProperties
  <2> QED
    BY <2>1, <2>4
<1> HIDE DEF S
<1>5. n - 1 \in Nat /\ n - 1 \in 0..(n - 1)
  BY <1>2
<1>6. \A m \in 0..(n - 1) : m \in S
  BY <1>3, <1>4, <1>5, UpTo
<1>7. f[(n - 1) + 1] \in Seq(T)
  BY <1>5, <1>6 DEF S
<1>8. (n - 1) + 1 = n
  BY <1>2
<1> QED
  BY <1>1, <1>7, <1>8

------------------------------------------------------------------------------
(* Order *)

\* Distinct numbers can be put in order.
LEMMA SortingPermutation ==
  ASSUME NEW n \in Nat, NEW num \in [1..n -> Int], \A i, j \in 1..n : num[i] = num[j] => i = j
  PROVE  \E p \in [1..n -> 1..n] : /\ \A i, j \in 1..n : i < j => num[p[i]] < num[p[j]]
                                   /\ \A k \in 1..n : \E i \in 1..n : p[i] = k
<1> DEFINE Below(i) == {j \in 1..n : num[j] < num[i]}
           rank == [i \in 1..n |-> Cardinality(Below(i)) + 1]
<1>1. IsFiniteSet(1..n) /\ Cardinality(1..n) = n
  BY FS_Interval
<1>2. ASSUME NEW i \in 1..n
      PROVE  /\ IsFiniteSet(Below(i)) /\ Cardinality(Below(i)) \in Nat /\ Cardinality(Below(i)) < n
  <2>1. Below(i) \in SUBSET (1..n) /\ i \notin Below(i)
    OBVIOUS
  <2> HIDE DEF Below
  <2>2. IsFiniteSet(Below(i)) /\ Cardinality(Below(i)) <= Cardinality(1..n)
        /\ (Cardinality(1..n) = Cardinality(Below(i)) => 1..n = Below(i))
    BY <1>1, <2>1, FS_Subset
  <2>3. Cardinality(Below(i)) \in Nat
    BY <2>2, FS_CardinalityType
  <2> QED
    BY <1>1, <2>1, <2>2, <2>3
<1>3. ASSUME NEW i \in 1..n, NEW j \in 1..n
      PROVE  /\ num[i] <= num[j] => Cardinality(Below(i)) <= Cardinality(Below(j))
             /\ num[i] < num[j] => Cardinality(Below(i)) < Cardinality(Below(j))
  <2>1. num[i] <= num[j] => Below(i) \in SUBSET Below(j)
    <3>1. num[i] \in Int /\ num[j] \in Int /\ \A k \in 1..n : num[k] \in Int
      OBVIOUS
    <3> QED
      BY <3>1
  <2>2. num[i] < num[j] => i \in Below(j) /\ i \notin Below(i)
    OBVIOUS
  <2>3. num[i] < num[j] => num[i] <= num[j]
    OBVIOUS
  <2> HIDE DEF Below
  <2>4. num[i] <= num[j] => /\ Cardinality(Below(i)) <= Cardinality(Below(j))
                            /\ Cardinality(Below(j)) = Cardinality(Below(i)) => Below(j) = Below(i)
    BY <1>2, <2>1, FS_Subset
  <2> QED
    BY <1>2, <2>2, <2>3, <2>4
<1> HIDE DEF Below
<1>4. rank \in [1..n -> 1..n]
  BY <1>2
<1>5. \A i \in 1..n : rank[i] = Cardinality(Below(i)) + 1
  OBVIOUS
<1> HIDE DEF rank
<1>6. ASSUME NEW i \in 1..n, NEW j \in 1..n
      PROVE  rank[i] < rank[j] <=> num[i] < num[j]
  <2>1. num[i] \in Int /\ num[j] \in Int /\ Cardinality(Below(i)) \in Nat /\ Cardinality(Below(j)) \in Nat
    BY <1>2
  <2>2. num[j] <= num[i] => Cardinality(Below(j)) <= Cardinality(Below(i))
    BY <1>3
  <2>3. num[i] < num[j] => Cardinality(Below(i)) < Cardinality(Below(j))
    BY <1>3
  <2> QED
    BY <1>5, <2>1, <2>2, <2>3
<1>7. \A i, j \in 1..n : rank[i] = rank[j] => i = j
  <2> SUFFICES ASSUME NEW i \in 1..n, NEW j \in 1..n, rank[i] = rank[j] PROVE i = j
    OBVIOUS
  <2>1. ~(num[i] < num[j]) /\ ~(num[j] < num[i])
    <3>1. rank[i] \in Int /\ rank[j] \in Int
      BY <1>4
    <3> QED
      BY <1>6, <3>1
  <2>2. num[i] \in Int /\ num[j] \in Int
    OBVIOUS
  <2> QED
    BY <2>1, <2>2
<1>8. rank \in Surjection(1..n, 1..n)
  <2>1. rank \in Injection(1..n, 1..n)
    BY <1>4, <1>7 DEF Injection, IsInjective
  <2> QED
    BY <1>1, <2>1, FS_Injection
<1>9. \A r \in 1..n : \E i \in 1..n : rank[i] = r
  BY <1>8 DEF Surjection
<1> DEFINE p == [r \in 1..n |-> CHOOSE i \in 1..n : rank[i] = r]
<1>10. \A r \in 1..n : p[r] \in 1..n /\ rank[p[r]] = r
  BY <1>9
<1>11. p \in [1..n -> 1..n]
  BY <1>10
<1> HIDE DEF p
<1>12. \A i, j \in 1..n : i < j => num[p[i]] < num[p[j]]
  BY <1>6, <1>10
<1>13. \A k \in 1..n : \E i \in 1..n : p[i] = k
  BY <1>4, <1>7, <1>10
<1> QED
  BY <1>11, <1>12, <1>13

------------------------------------------------------------------------------
(* Sums *)

\* The running sums of the first n numbers are a function.
LEMMA SumExists ==
  ASSUME NEW s, NEW n \in Nat
  PROVE  \E f : f = [i \in 0..n |-> IF i = 0 THEN 0 ELSE f[i - 1] + s[i]]
<1> DEFINE Good(m) == \E f : f = [i \in 0..m |-> IF i = 0 THEN 0 ELSE f[i - 1] + s[i]]
           S == {m \in Nat : Good(m)}
<1>1. Good(0)
  <2> DEFINE f == [i \in 0..0 |-> 0]
  <2>1. f = [i \in 0..0 |-> IF i = 0 THEN 0 ELSE f[i - 1] + s[i]]
    OBVIOUS
  <2> HIDE DEF f
  <2> QED
    BY <2>1
<1>2. ASSUME NEW m \in Nat, Good(m) PROVE Good(m + 1)
  <2>1. PICK f : f = [i \in 0..m |-> IF i = 0 THEN 0 ELSE f[i - 1] + s[i]]
    BY <1>2
  <2> HIDE DEF Good, S
  <2> DEFINE g == [i \in 0..(m + 1) |-> IF i = m + 1 THEN f[m] + s[i] ELSE f[i]]
  <2>2. ASSUME NEW i \in 0..(m + 1)
        PROVE  g[i] = IF i = 0 THEN 0 ELSE g[i - 1] + s[i]
    <3>1. CASE i = 0
      <4>1. 0 \in 0..m /\ 0 # m + 1
        OBVIOUS
      <4>2. f[0] = 0
        BY <2>1, <4>1
      <4> QED
        BY <3>1, <4>1, <4>2
    <3>2. CASE i = m + 1
      <4>1. m \in 0..(m + 1) /\ m # m + 1 /\ i - 1 = m /\ i # 0
        BY <3>2
      <4>2. g[m] = f[m] /\ g[i] = f[m] + s[i]
        BY <3>2, <4>1
      <4> QED
        BY <4>1, <4>2
    <3>3. CASE i \in 1..m
      <4>1. i \in 0..m /\ i - 1 \in 0..(m + 1) /\ i # 0 /\ i # m + 1 /\ i - 1 # m + 1 /\ i - 1 \in 0..m
        BY <3>3
      <4>2. f[i] = f[i - 1] + s[i]
        BY <2>1, <4>1
      <4>3. g[i - 1] = f[i - 1] /\ g[i] = f[i]
        BY <4>1
      <4> QED
        BY <4>1, <4>2, <4>3
    <3>4. i = 0 \/ i = m + 1 \/ i \in 1..m
      OBVIOUS
    <3> QED
      BY <3>1, <3>2, <3>3, <3>4
  <2>3. g = [i \in 0..(m + 1) |-> IF i = 0 THEN 0 ELSE g[i - 1] + s[i]]
    BY <2>2
  <2> HIDE DEF g
  <2> QED
    BY <2>3 DEF Good
<1> HIDE DEF Good
<1>3. 0 \in S /\ \A m \in 0..(n - 1) : m \in S => m + 1 \in S
  BY <1>1, <1>2
<1> HIDE DEF S
<1>4. n \in S
  BY <1>3, UpTo
<1>5. Good(n)
  BY <1>4 DEF S
<1> QED
  BY <1>5 DEF Good

\* A sum as a function of its own.
LEMMA SumStep ==
  ASSUME NEW s, NEW n \in Nat, Len(s) = n
  PROVE  \E f : Total(s) = f[n] /\ f[0] = 0 /\ \A i \in 1..n : f[i] = f[i - 1] + s[i]
<1> DEFINE f == CHOOSE f : f = [i \in 0..n |-> IF i = 0 THEN 0 ELSE f[i - 1] + s[i]]
<1>1. f = [i \in 0..n |-> IF i = 0 THEN 0 ELSE f[i - 1] + s[i]]
  BY SumExists
<1>2. Total(s) = f[n]
  BY Zenon DEF Total
<1> HIDE DEF f
<1>3. f[0] = 0 /\ \A i \in 1..n : f[i] = f[i - 1] + s[i]
  <2>1. 0 \in 0..n /\ \A i \in 1..n : i \in 0..n /\ i # 0
    OBVIOUS
  <2> QED
    BY <1>1, <2>1
<1> QED
  BY <1>2, <1>3

\* Of no numbers it is 0.
LEMMA TotalNone == ASSUME NEW s, Len(s) = 0 PROVE Total(s) = 0
<1>1. PICK f : Total(s) = f[0] /\ f[0] = 0
  BY SumStep
<1> QED
  BY <1>1

\* Of one number it is that.
LEMMA TotalOne == ASSUME NEW s, Len(s) = 1, s[1] \in Int PROVE Total(s) = s[1]
<1>1. PICK f : Total(s) = f[1] /\ f[0] = 0 /\ \A i \in 1..1 : f[i] = f[i - 1] + s[i]
  <2>1. 1 \in Nat
    OBVIOUS
  <2> QED
    BY <2>1, SumStep
<1>2. f[1] = f[0] + s[1]
  <2>1. 1 \in 1..1 /\ 1 - 1 = 0
    OBVIOUS
  <2> QED
    BY <1>1, <2>1
<1> QED
  BY <1>1, <1>2

\* One number more is added.
LEMMA TotalOneMore ==
  ASSUME NEW s, NEW t, NEW n \in Nat, Len(s) = n, Len(t) = n + 1, \A i \in 1..n : t[i] = s[i]
  PROVE  Total(t) = Total(s) + t[n + 1]
<1>1. PICK f : Total(s) = f[n] /\ f[0] = 0 /\ \A i \in 1..n : f[i] = f[i - 1] + s[i]
  BY SumStep
<1>2. PICK g : Total(t) = g[n + 1] /\ g[0] = 0 /\ \A i \in 1..(n + 1) : g[i] = g[i - 1] + t[i]
  <2>1. n + 1 \in Nat
    OBVIOUS
  <2> QED
    BY <2>1, SumStep
<1> DEFINE S == {m \in Nat : g[m] = f[m]}
<1>3. 0 \in S
  BY <1>1, <1>2
<1>4. ASSUME NEW m \in 0..(n - 1), m \in S PROVE m + 1 \in S
  <2>1. m + 1 \in 1..n /\ m + 1 \in 1..(n + 1) /\ (m + 1) - 1 = m /\ m + 1 \in Nat
    OBVIOUS
  <2>2. f[m + 1] = f[m] + s[m + 1] /\ g[m + 1] = g[m] + t[m + 1] /\ t[m + 1] = s[m + 1]
    BY <1>1, <1>2, <2>1
  <2> QED
    BY <1>4, <2>1, <2>2
<1> HIDE DEF S
<1>5. n \in S
  <2>1. \A m \in 0..(n - 1) : m \in S => m + 1 \in S
    BY <1>4
  <2>2. \A m \in 0..n : m \in S
    BY <1>3, <2>1, UpTo
  <2> QED
    BY <2>2
<1>6. g[n] = f[n] /\ n + 1 \in 1..(n + 1) /\ (n + 1) - 1 = n
  BY <1>5 DEF S
<1> QED
  BY <1>1, <1>2, <1>6

\* The same, for the sequence with the number in it.
LEMMA TotalMore ==
  ASSUME NEW s, NEW t, NEW m \in Nat \ {0}, Len(s) = m - 1, Len(t) = m,
         \A i \in 1..(m - 1) : t[i] = s[i]
  PROVE  Total(t) = Total(s) + t[m]
<1>1. PICK n \in Nat : n = m - 1
  OBVIOUS
<1>2. m = n + 1
  BY <1>1
<1>3. Len(s) = n /\ Len(t) = n + 1 /\ \A i \in 1..n : t[i] = s[i]
  BY <1>1, <1>2
<1>4. Total(t) = Total(s) + t[n + 1]
  BY <1>3, TotalOneMore, Zenon
<1> QED
  BY <1>2, <1>4

\* It is that of the same numbers in another form.
LEMMA TotalSame ==
  ASSUME NEW s, NEW t, NEW n \in Nat, Len(s) = n, Len(t) = n, \A i \in 1..n : t[i] = s[i]
  PROVE  Total(t) = Total(s)
<1>1. PICK f : Total(s) = f[n] /\ f[0] = 0 /\ \A i \in 1..n : f[i] = f[i - 1] + s[i]

  BY SumStep
<1>2. PICK g : Total(t) = g[n] /\ g[0] = 0 /\ \A i \in 1..n : g[i] = g[i - 1] + t[i]

  BY SumStep
<1> DEFINE S == {m \in Nat : g[m] = f[m]}
<1>3. 0 \in S
  BY <1>1, <1>2
<1>4. ASSUME NEW m \in 0..(n - 1), m \in S PROVE m + 1 \in S
  <2>1. m + 1 \in 1..n /\ (m + 1) - 1 = m /\ m + 1 \in Nat
    OBVIOUS
  <2>2. f[m + 1] = f[m] + s[m + 1] /\ g[m + 1] = g[m] + t[m + 1] /\ t[m + 1] = s[m + 1]
    BY <1>1, <1>2, <2>1
  <2> QED
    BY <1>4, <2>1, <2>2
<1> HIDE DEF S
<1>5. n \in S
  <2>1. \A m \in 0..(n - 1) : m \in S => m + 1 \in S
    BY <1>4
  <2>2. \A m \in 0..n : m \in S
    BY <1>3, <2>1, UpTo
  <2> QED
    BY <2>2
<1> QED
  BY <1>1, <1>2, <1>5 DEF S

\* Natural numbers have a natural sum.
LEMMA TotalNat ==
  ASSUME NEW s, NEW n \in Nat, Len(s) = n, \A i \in 1..n : s[i] \in Nat
  PROVE  Total(s) \in Nat
<1>1. PICK f : Total(s) = f[n] /\ f[0] = 0 /\ \A i \in 1..n : f[i] = f[i - 1] + s[i]

  BY SumStep
<1> DEFINE S == {m \in Nat : f[m] \in Nat}
<1>3. 0 \in S
  BY <1>1
<1>4. ASSUME NEW m \in 0..(n - 1), m \in S PROVE m + 1 \in S
  <2>1. m + 1 \in 1..n /\ (m + 1) - 1 = m /\ m + 1 \in Nat
    OBVIOUS
  <2>2. f[m + 1] = f[m] + s[m + 1] /\ s[m + 1] \in Nat
    BY <1>1, <2>1
  <2> QED
    BY <1>4, <2>1, <2>2
<1> HIDE DEF S
<1>5. n \in S
  <2>1. \A m \in 0..(n - 1) : m \in S => m + 1 \in S
    BY <1>4
  <2>2. \A m \in 0..n : m \in S
    BY <1>3, <2>1, UpTo
  <2> QED
    BY <2>2
<1> QED
  BY <1>1, <1>5 DEF S

\* Each multiplied by a number, so is the sum.
LEMMA TotalTimes ==
  ASSUME NEW s, NEW t, NEW n \in Nat, NEW k \in Nat, Len(s) = n, Len(t) = n,
         \A i \in 1..n : s[i] \in Nat /\ t[i] = k * s[i]
  PROVE  Total(t) = k * Total(s)
<1>1. PICK f : Total(s) = f[n] /\ f[0] = 0 /\ \A i \in 1..n : f[i] = f[i - 1] + s[i]

  BY SumStep
<1>2. PICK g : Total(t) = g[n] /\ g[0] = 0 /\ \A i \in 1..n : g[i] = g[i - 1] + t[i]

  BY SumStep
<1> DEFINE S == {m \in Nat : f[m] \in Nat /\ g[m] = k * f[m]}
<1>3. 0 \in S
  BY <1>1, <1>2
<1>4. ASSUME NEW m \in 0..(n - 1), m \in S PROVE m + 1 \in S
  <2>1. m + 1 \in 1..n /\ (m + 1) - 1 = m /\ m + 1 \in Nat
    OBVIOUS
  <2>2. f[m + 1] = f[m] + s[m + 1] /\ g[m + 1] = g[m] + t[m + 1]
        /\ s[m + 1] \in Nat /\ t[m + 1] = k * s[m + 1]
    BY <1>1, <1>2, <2>1
  <2>3. f[m] \in Nat /\ g[m] = k * f[m]
    BY <1>4
  <2>4. k * (f[m] + s[m + 1]) = k * f[m] + k * s[m + 1]
    BY <2>2, <2>3
  <2> QED
    BY <2>1, <2>2, <2>3, <2>4
<1> HIDE DEF S
<1>5. n \in S
  <2>1. \A m \in 0..(n - 1) : m \in S => m + 1 \in S
    BY <1>4
  <2>2. \A m \in 0..n : m \in S
    BY <1>3, <2>1, UpTo
  <2> QED
    BY <2>2
<1> QED
  BY <1>1, <1>2, <1>5 DEF S
------------------------------------------------------------------------------
(* Places in sequences put end to end *)

\* The lengths of the first k sequences.
LengthsTo(s, k) == [j \in 1..k |-> Len(s[j])]

\* n sequences of elements of T, and what is put together of them, part by part.
SeqsOf(T, s, n) == n \in Nat \ {0} /\ Len(s) = n /\ \A i \in 1..n : s[i] \in Seq(T)
JoinedAs(T, s, n, f) ==
  /\ FlattenSeq(s) = f[n] /\ f[1] = s[1]
  /\ \A i \in 2..n : f[i] = f[i - 1] \o s[i]
  /\ \A i \in 1..n : f[i] \in Seq(T) /\ Len(f[i]) = Total(LengthsTo(s, i))

\* What is put together, part by part, as long as its parts.
LEMMA FlatParts ==
  ASSUME NEW T, NEW s, NEW n, SeqsOf(T, s, n)
  PROVE  \E f : JoinedAs(T, s, n, f)
<1>0. n \in Nat \ {0} /\ Len(s) = n /\ \A i \in 1..n : s[i] \in Seq(T)
  BY DEF SeqsOf
<1>1. PICK f : FlattenSeq(s) = f[n] /\ f[1] = s[1] /\ \A i \in 2..n : f[i] = f[i - 1] \o s[i]
  <2>1. Len(s) \in Nat \ {0}
    BY <1>0
  <2>2. PICK f : FlattenSeq(s) = f[Len(s)] /\ f[1] = s[1] /\ \A i \in 2..Len(s) : f[i] = f[i - 1] \o s[i]
    BY <2>1, FlatStep
  <2>3. FlattenSeq(s) = f[n] /\ f[1] = s[1] /\ \A i \in 2..n : f[i] = f[i - 1] \o s[i]
    BY <1>0, <2>2, Zenon
  <2> QED
    BY <2>3, Zenon
<1> DEFINE S == {m \in Nat : f[m + 1] \in Seq(T) /\ Len(f[m + 1]) = Total(LengthsTo(s, m + 1))}
<1>2. \A m \in Nat : Len(LengthsTo(s, m)) = m /\ \A j \in 1..m : LengthsTo(s, m)[j] = Len(s[j])
  BY DEF LengthsTo
<1>3. 0 \in S
  <2>1. 1 \in 1..n /\ s[1] \in Seq(T)
    BY <1>0
  <2>2. Total(LengthsTo(s, 0)) = 0
    BY <1>2, TotalNone
  <2>3. Total(LengthsTo(s, 1)) = LengthsTo(s, 1)[1]
    <3>1. Len(LengthsTo(s, 1)) = 1 /\ LengthsTo(s, 1)[1] \in Int
      BY <2>1 DEF LengthsTo
    <3> QED
      BY <3>1, TotalOne
  <2>4. LengthsTo(s, 1)[1] = Len(s[1]) /\ Len(s[1]) \in Nat
    BY <1>2, <2>1
  <2>5. f[0 + 1] \in Seq(T) /\ Len(f[0 + 1]) = Total(LengthsTo(s, 0 + 1))
    BY <1>1, <2>1, <2>2, <2>3, <2>4
  <2> QED
    BY <2>5
<1>4. ASSUME NEW m \in 0..((n - 1) - 1), m \in S PROVE m + 1 \in S
  <2> DEFINE i == m + 2
  <2>1. i \in 2..n /\ i - 1 = m + 1 /\ (m + 1) + 1 = i /\ i \in 1..n /\ m + 1 \in Nat
    BY <1>0
  <2>2. f[i] = f[m + 1] \o s[i]
    BY <1>0, <1>1, <2>1
  <2>3. f[m + 1] \in Seq(T) /\ s[i] \in Seq(T) /\ Len(f[m + 1]) = Total(LengthsTo(s, m + 1))
    BY <1>0, <1>4, <2>1
  <2>4. f[i] \in Seq(T) /\ Len(f[i]) = Len(f[m + 1]) + Len(s[i])
    <3> DEFINE a == f[m + 1]  b == s[i]
    <3>1. a \in Seq(T) /\ b \in Seq(T)
      BY <2>3
    <3> HIDE DEF a, b, i
    <3>2. a \o b \in Seq(T) /\ Len(a \o b) = Len(a) + Len(b)
      BY <3>1
    <3> QED
      BY <2>2, <3>2 DEF a, b
  <2>5. Total(LengthsTo(s, i)) = Total(LengthsTo(s, m + 1)) + Len(s[i])
    <3>1. /\ Len(LengthsTo(s, m + 1)) = i - 1 /\ Len(LengthsTo(s, i)) = i /\ i \in Nat \ {0}
          /\ \A j \in 1..(i - 1) : LengthsTo(s, i)[j] = LengthsTo(s, m + 1)[j]
          /\ LengthsTo(s, i)[i] = Len(s[i])
      BY <1>2, <2>1
    <3> HIDE DEF i
    <3> QED
      BY <3>1, TotalMore
  <2> HIDE DEF i
  <2>6. f[(m + 1) + 1] \in Seq(T) /\ Len(f[(m + 1) + 1]) = Total(LengthsTo(s, (m + 1) + 1))
    BY <2>1, <2>3, <2>4, <2>5
  <2> QED
    BY <2>1, <2>6
<1>5. \A m \in 0..(n - 1) : m \in S
  <2> HIDE DEF S
  <2>1. \A m \in 0..((n - 1) - 1) : m \in S => m + 1 \in S
    BY <1>4
  <2>2. n - 1 \in Nat
    BY <1>0
  <2> QED
    BY <1>3, <2>1, <2>2, UpTo
<1>6. \A i \in 1..n : f[i] \in Seq(T) /\ Len(f[i]) = Total(LengthsTo(s, i))
  <2> TAKE i \in 1..n
  <2>1. i - 1 \in 0..(n - 1) /\ (i - 1) + 1 = i
    BY <1>0
  <2>2. i - 1 \in S
    BY <1>5, <2>1
  <2>3. f[(i - 1) + 1] \in Seq(T) /\ Len(f[(i - 1) + 1]) = Total(LengthsTo(s, (i - 1) + 1))
    BY <2>2
  <2> QED
    BY <2>1, <2>3
<1> QED
  BY <1>1, <1>6 DEF JoinedAs

\* As long as the parts together.
LEMMA FlatLength ==
  ASSUME NEW T, NEW s, NEW n, SeqsOf(T, s, n)
  PROVE  /\ FlattenSeq(s) \in Seq(T)
         /\ Len(FlattenSeq(s)) = Total(LengthsTo(s, n))
<1>1. PICK f : JoinedAs(T, s, n, f)
  BY FlatParts
<1>2. n \in 1..n
  BY DEF SeqsOf
<1> QED
  BY <1>1, <1>2 DEF JoinedAs, LengthsTo

\* A part begins where the ones before it end.
LEMMA FlatPlace ==
  ASSUME NEW T, NEW s, NEW n, SeqsOf(T, s, n),
         NEW k \in 1..n, NEW p \in 1..Len(s[k])
  PROVE  LET at == Total(LengthsTo(s, k - 1)) + p
         IN  at \in 1..Len(FlattenSeq(s)) /\ FlattenSeq(s)[at] = s[k][p]
<1>0. n \in Nat \ {0} /\ Len(s) = n /\ \A i \in 1..n : s[i] \in Seq(T)
  BY DEF SeqsOf
<1>1. PICK f : /\ FlattenSeq(s) = f[n] /\ f[1] = s[1]
               /\ \A i \in 2..n : f[i] = f[i - 1] \o s[i]
               /\ \A i \in 1..n : f[i] \in Seq(T) /\ Len(f[i]) = Total(LengthsTo(s, i))
  <2>1. PICK f : JoinedAs(T, s, n, f)
    BY FlatParts
  <2> QED
    BY <2>1 DEF JoinedAs
<1> DEFINE at == Total(LengthsTo(s, k - 1)) + p
           S == {m \in Nat : at \in 1..Len(f[k + m]) /\ f[k + m][at] = s[k][p]}
<1>2. s[k] \in Seq(T) /\ Len(s[k]) \in Nat /\ p \in Nat \ {0} /\ p <= Len(s[k])
  BY <1>0
<1>3. at \in 1..Len(f[k]) /\ f[k][at] = s[k][p]
  <2>1. CASE k = 1
    <3>1. Total(LengthsTo(s, k - 1)) = 0
      <4>1. Len(LengthsTo(s, k - 1)) = 0
        BY <2>1 DEF LengthsTo
      <4> QED
        BY <4>1, TotalNone
    <3> QED
      BY <1>1, <1>2, <2>1, <3>1
  <2>2. CASE k # 1
    <3>1. k \in 2..n /\ k - 1 \in 1..n
      BY <1>0, <2>2
    <3>2. /\ f[k] = f[k - 1] \o s[k] /\ f[k - 1] \in Seq(T)
          /\ Len(f[k - 1]) = Total(LengthsTo(s, k - 1))
      BY <1>1, <3>1, Zenon
    <3>3. at = Len(f[k - 1]) + p /\ Len(f[k - 1]) \in Nat
      BY <3>2
    <3> DEFINE a == f[k - 1]  b == s[k]
    <3>4. a \in Seq(T) /\ b \in Seq(T) /\ at = Len(a) + p /\ p \in 1..Len(b)
      BY <1>2, <3>2, <3>3
    <3> HIDE DEF a, b, at
    <3>5. at \in 1..Len(a \o b) /\ (a \o b)[at] = b[p]
      BY <3>4
    <3> QED
      BY <3>2, <3>5 DEF a, b
  <2> QED
    BY <2>1, <2>2
<1> HIDE DEF at
<1>4. 0 \in S
  BY <1>3
<1>5. ASSUME NEW m \in 0..((n - k) - 1), m \in S PROVE m + 1 \in S
  <2>1. k + (m + 1) \in 2..n /\ (k + (m + 1)) - 1 = k + m /\ k + m \in 1..n /\ k + (m + 1) \in 1..n
    BY <1>0
  <2>2. f[k + (m + 1)] = f[k + m] \o s[k + (m + 1)]
    BY <1>0, <1>1, <2>1
  <2>3. f[k + m] \in Seq(T) /\ s[k + (m + 1)] \in Seq(T)
    BY <1>0, <1>1, <2>1
  <2>4. at \in 1..Len(f[k + m]) /\ f[k + m][at] = s[k][p]
    BY <1>5
  <2>5. at \in 1..Len(f[k + (m + 1)]) /\ f[k + (m + 1)][at] = s[k][p]
    <3> DEFINE a == f[k + m]  b == s[k + (m + 1)]
    <3>1. a \in Seq(T) /\ b \in Seq(T) /\ at \in 1..Len(a)
      BY <2>3, <2>4
    <3> HIDE DEF a, b
    <3>2. at \in 1..Len(a \o b) /\ (a \o b)[at] = a[at]
      BY <3>1, ConcatProperties
    <3> QED
      BY <2>2, <2>4, <3>2 DEF a, b
  <2> QED
    BY <2>5
<1> HIDE DEF S
<1>6. n - k \in S
  <2>1. n - k \in Nat
    BY <1>0
  <2>2. \A m \in 0..((n - k) - 1) : m \in S => m + 1 \in S
    BY <1>5
  <2>3. \A m \in 0..(n - k) : m \in S
    BY <1>4, <2>1, <2>2, UpTo
  <2> QED
    BY <2>1, <2>3
<1>7. k + (n - k) = n
  BY <1>0
<1>8. at \in 1..Len(f[n]) /\ f[n][at] = s[k][p]
  BY <1>6, <1>7 DEF S
<1> QED
  BY <1>1, <1>8 DEF at

------------------------------------------------------------------------------
(* Records laid out cell by cell *)

\* Columns as files declare them.
ColumnSeqs == Seq([name : STRING, size : Nat \ {0}])

CellType == Int \X (STRING \cup {"gap"}) \X Int

\* A column has a name and takes at least a cell.
LEMMA ColumnFields ==
  ASSUME NEW columns \in ColumnSeqs
  PROVE  /\ Len(columns) \in Nat /\ DOMAIN columns = 1..Len(columns)
         /\ \A k \in 1..Len(columns) : columns[k].name \in STRING /\ columns[k].size \in Nat \ {0}
<1>1. columns \in Seq([name : STRING, size : Nat \ {0}])
  BY DEF ColumnSeqs
<1>2. \A k \in 1..Len(columns) : columns[k] \in [name : STRING, size : Nat \ {0}]
  BY <1>1, ElementOfSeq
<1>3. Len(columns) \in Nat /\ DOMAIN columns = 1..Len(columns)
  BY <1>1, LenProperties
<1> QED
  BY <1>2, <1>3

\* Dividing undoes multiplying.
LEMMA DivOf ==
  ASSUME NEW q \in Int, NEW d \in Nat \ {0}, NEW r \in 0..(d - 1)
  PROVE  (q * d + r) \div d = q /\ (q * d + r) % d = r
<1>1. PICK t \in Int : t = (q * d + r) \div d
  OBVIOUS
<1>2. t * d <= q * d + r /\ q * d + r < t * d + d
  BY <1>1
<1>3. ~(t < q)
  <2>1. t < q => t * d + d <= q * d
    <3>1. t < q => (t + 1) * d <= q * d /\ (t + 1) * d = t * d + d
      OBVIOUS
    <3> QED
      BY <3>1
  <2> QED
    BY <1>2, <2>1
<1>4. ~(q < t)
  <2>1. q < t => q * d + d <= t * d
    <3>1. q < t => (q + 1) * d <= t * d /\ (q + 1) * d = q * d + d
      OBVIOUS
    <3> QED
      BY <3>1
  <2> QED
    BY <1>2, <2>1
<1>5. (q * d + r) \div d = q
  BY <1>1, <1>3, <1>4
<1>6. (q * d + r) % d = (q * d + r) - ((q * d + r) \div d) * d
  OBVIOUS
<1> QED
  BY <1>5, <1>6

\* Aligning goes up, never down.
LEMMA Aligned ==
  ASSUME NEW x \in Nat, NEW a \in Nat \ {0}
  PROVE  AlignUp(x, a) \in Nat /\ AlignUp(x, a) >= x
<1> DEFINE q == (x + a - 1) \div a
<1>1. q \in Nat /\ x + a - 1 < q * a + a
  OBVIOUS
<1> HIDE DEF q
<1>2. q * a \in Nat /\ q * a >= x
  BY <1>1
<1> QED
  BY <1>2 DEF AlignUp, q

\* A gap of n cells.
LEMMA GapCells == ASSUME NEW n \in Nat PROVE Gap(n) \in Seq(CellType) /\ Len(Gap(n)) = n
<1>1. << -1, "gap", 0 >> \in CellType
  <2>1. -1 \in Int /\ 0 \in Int
    OBVIOUS
  <2>2. "gap" \in STRING \cup {"gap"}
    OBVIOUS
  <2> QED
    BY <2>1, <2>2, Zenon DEF CellType
<1> QED
  BY <1>1 DEF Gap

\* The columns of a row are so many cells.
LEMMA RowCellsType == ASSUME NEW columns \in ColumnSeqs PROVE RowCells(columns) \in Nat
<1> DEFINE n == Len(columns)
           s == [k \in DOMAIN columns |-> columns[k].size]
<1>1. n \in Nat /\ Len(s) = n /\ \A k \in 1..n : s[k] \in Nat
  BY ColumnFields
<1> HIDE DEF n, s
<1>2. Total(s) \in Nat
  BY <1>1, TotalNat
<1> QED
  BY <1>2 DEF RowCells, s

\* The cells of a column in a record.
LEMMA ColumnLength ==
  ASSUME NEW c, c.name \in STRING, c.size \in Nat \ {0}, NEW m \in Nat, NEW first \in Int
  PROVE  /\ ColumnCells(c, m, first) \in Seq(CellType)
         /\ Len(ColumnCells(c, m, first)) = m * c.size
<1>0. PICK n \in Nat : n = m * c.size
  OBVIOUS
<1>1. m * c.size \in Nat
  OBVIOUS
<1>2. ASSUME NEW i \in 1..n
      PROVE  << first + ((i - 1) \div c.size), c.name, (i - 1) % c.size >> \in CellType
  <2>1. (i - 1) \div c.size \in Int /\ (i - 1) % c.size \in Int
    BY <1>1
  <2> QED
    BY <2>1 DEF CellType
<1>3. ColumnCells(c, m, first)
        = [i \in 1..n |-> << first + ((i - 1) \div c.size), c.name, (i - 1) % c.size >>]
  BY <1>0 DEF ColumnCells
<1> HIDE DEF CellType
<1>4. ColumnCells(c, m, first) \in Seq(CellType) /\ Len(ColumnCells(c, m, first)) = n
  BY <1>2, <1>3
<1> QED
  BY <1>0, <1>4

\* The element of row i of the column is at these cells.
LEMMA ElementInColumn ==
  ASSUME NEW c, c.size \in Nat \ {0}, NEW m \in Nat, NEW first \in Int,
         NEW i \in 1..m, NEW p \in 1..c.size
  PROVE  /\ (i - 1) * c.size + p \in 1..(m * c.size)
         /\ ColumnCells(c, m, first)[(i - 1) * c.size + p] = << first + i - 1, c.name, p - 1 >>
<1> DEFINE at == (i - 1) * c.size + p
<1>0. PICK z \in Nat \ {0} : z = c.size
  OBVIOUS
<1>1. (i - 1) * z \in Nat /\ i * z = (i - 1) * z + z /\ m * z = i * z + (m - i) * z
      /\ (m - i) * z \in Nat /\ m * z \in Nat
  BY <1>0
<1>2. at \in 1..(m * z)
  BY <1>0, <1>1
<1>3. (at - 1) \div z = i - 1 /\ (at - 1) % z = p - 1
  <2>1. at - 1 = (i - 1) * z + (p - 1) /\ p - 1 \in 0..(z - 1)
    BY <1>0, <1>1
  <2>2. i - 1 \in Int /\ z \in Nat \ {0}
    BY <1>0
  <2>3. ((i - 1) * z + (p - 1)) \div z = i - 1 /\ ((i - 1) * z + (p - 1)) % z = p - 1
    BY <2>1, <2>2, DivOf
  <2> HIDE DEF at
  <2> QED
    BY <2>1, <2>3
<1> HIDE DEF at
<1>4. ColumnCells(c, m, first)[at] = << first + ((at - 1) \div z), c.name, (at - 1) % z >>
  BY <1>0, <1>2 DEF ColumnCells
<1>5. first + (i - 1) = first + i - 1
  OBVIOUS
<1> QED
  BY <1>0, <1>2, <1>3, <1>4, <1>5 DEF at

\* The columns of a record, one after the other.
LEMMA BodyParts ==
  ASSUME NEW columns \in ColumnSeqs, columns # << >>, NEW m \in Nat, NEW first \in Int
  PROVE  LET s == [k \in DOMAIN columns |-> ColumnCells(columns[k], m, first)]
             n == Len(columns)
         IN  /\ SeqsOf(CellType, s, n)
             /\ \A k \in 1..n : Len(s[k]) = m * columns[k].size
<1> DEFINE s == [k \in DOMAIN columns |-> ColumnCells(columns[k], m, first)]
<1>1. /\ Len(columns) \in Nat \ {0} /\ DOMAIN columns = 1..Len(columns)
      /\ \A k \in 1..Len(columns) : columns[k].name \in STRING /\ columns[k].size \in Nat \ {0}
  <2>1. Len(columns) # 0
    BY EmptySeq DEF ColumnSeqs
  <2> QED
    BY <2>1, ColumnFields
<1>2. \A k \in 1..Len(columns) : s[k] \in Seq(CellType) /\ Len(s[k]) = m * columns[k].size
  BY <1>1, ColumnLength
<1>3. Len(s) = Len(columns)
  BY <1>1
<1> HIDE DEF s
<1>4. SeqsOf(CellType, s, Len(columns)) /\ \A k \in 1..Len(columns) : Len(s[k]) = m * columns[k].size
  BY <1>1, <1>2, <1>3 DEF SeqsOf
<1> QED
  BY <1>4 DEF s

LEMMA BodyLength ==
  ASSUME NEW columns \in ColumnSeqs, columns # << >>, NEW m \in Nat, NEW first \in Int
  PROVE  /\ BodyCells(columns, m, first) \in Seq(CellType)
         /\ Len(BodyCells(columns, m, first)) = m * RowCells(columns)
<1> DEFINE n == Len(columns)
           s == [k \in DOMAIN columns |-> ColumnCells(columns[k], m, first)]
           sizes == [k \in DOMAIN columns |-> columns[k].size]
<1>1. n \in Nat /\ Len(sizes) = n /\ \A k \in 1..n : sizes[k] \in Nat
  BY ColumnFields
<1>2. SeqsOf(CellType, s, n) /\ \A k \in 1..n : Len(s[k]) = m * sizes[k]
  <2>1. \A k \in 1..n : sizes[k] = columns[k].size
    BY ColumnFields
  <2> HIDE DEF sizes
  <2> QED
    BY <2>1, BodyParts
<1> HIDE DEF s, sizes, n
<1>3. FlattenSeq(s) \in Seq(CellType) /\ Len(FlattenSeq(s)) = Total(LengthsTo(s, n))
  BY <1>2, FlatLength
<1>4. Total(LengthsTo(s, n)) = m * Total(sizes)
  <2>1. Len(LengthsTo(s, n)) = n /\ \A k \in 1..n : LengthsTo(s, n)[k] = m * sizes[k]
    BY <1>1, <1>2 DEF LengthsTo
  <2>2. \A k \in 1..n : sizes[k] \in Nat /\ LengthsTo(s, n)[k] = m * sizes[k]
    BY <1>1, <2>1
  <2> QED
    BY <1>1, <2>1, <2>2, TotalTimes, Zenon
<1> QED
  BY <1>3, <1>4 DEF BodyCells, RowCells, s, sizes

\* What is not there adds nothing.
LEMMA TotalUpTo ==
  ASSUME NEW s, NEW n \in Nat, Len(s) = n, \A i \in 1..n : s[i] \in Nat,
         NEW k \in 0..n
  PROVE  Total([i \in 1..n |-> IF i <= k THEN s[i] ELSE 0]) = Total([i \in 1..k |-> s[i]])
<1> DEFINE t(j) == [i \in 1..j |-> IF i <= k THEN s[i] ELSE 0]
           S == {d \in Nat : Total(t(k + d)) = Total(t(k))}
<1>1. \A j \in Nat : Len(t(j)) = j
  OBVIOUS
<1>2. 0 \in S
  BY <1>1
<1>3. ASSUME NEW d \in 0..((n - k) - 1), d \in S PROVE d + 1 \in S
  <2> DEFINE j == k + d + 1
  <2>1. /\ j \in Nat \ {0} /\ Len(t(j)) = j /\ Len(t(j - 1)) = j - 1
        /\ \A i \in 1..(j - 1) : t(j)[i] = t(j - 1)[i]
        /\ t(j)[j] = 0 /\ \A i \in 1..(j - 1) : t(j - 1)[i] \in Nat
    OBVIOUS
  <2>2. j - 1 = k + d /\ k + (d + 1) = j
    OBVIOUS
  <2> HIDE DEF j, t
  <2>3. Total(t(j)) = Total(t(j - 1)) + t(j)[j]
    BY <2>1, TotalMore
  <2>4. Total(t(j - 1)) \in Nat
    <3>1. j - 1 \in Nat
      BY <2>1
    <3> QED
      BY <2>1, <3>1, TotalNat
  <2> QED
    BY <1>3, <2>1, <2>2, <2>3, <2>4
<1> HIDE DEF S
<1>4. n - k \in S
  <2>1. n - k \in Nat /\ \A d \in 0..((n - k) - 1) : d \in S => d + 1 \in S
    BY <1>3
  <2>2. \A d \in 0..(n - k) : d \in S
    BY <1>2, <2>1, UpTo
  <2> QED
    BY <2>1, <2>2
<1>5. Total(t(k + (n - k))) = Total(t(k)) /\ k + (n - k) = n
  BY <1>4 DEF S
<1>6. t(k) = [i \in 1..k |-> s[i]]
  OBVIOUS
<1> HIDE DEF t
<1>7. Total(t(n)) = Total([i \in 1..k |-> s[i]])
  BY <1>5, <1>6
<1> QED
  BY <1>7 DEF t

\* Where the part p of the element of row i of column k is in a body, and what is there.
InBody(columns, m, first, k, i, p) ==
  LET prefix == Total([j \in 1..(k - 1) |-> columns[j].size])
      at == m * prefix + (i - 1) * columns[k].size + p
  IN  /\ at \in 1..Len(BodyCells(columns, m, first))
      /\ BodyCells(columns, m, first)[at] = << first + i - 1, columns[k].name, p - 1 >>

LEMMA ElementInBody ==
  ASSUME NEW columns \in ColumnSeqs, columns # << >>, NEW m \in Nat, NEW first \in Int,
         NEW k \in 1..Len(columns), NEW i \in 1..m, NEW p \in 1..columns[k].size
  PROVE  InBody(columns, m, first, k, i, p)
<1> DEFINE n == Len(columns)
           s == [j \in DOMAIN columns |-> ColumnCells(columns[j], m, first)]
           sizes == [j \in 1..(k - 1) |-> columns[j].size]
           z == columns[k].size
           q == (i - 1) * z + p
<1>1. n \in Nat /\ \A j \in 1..n : columns[j].size \in Nat \ {0}
  BY ColumnFields
<1>2. SeqsOf(CellType, s, n) /\ \A j \in 1..n : Len(s[j]) = m * columns[j].size
  BY BodyParts
<1>3. k \in DOMAIN columns /\ s[k] = ColumnCells(columns[k], m, first)
  BY ColumnFields
<1>4. q \in 1..(m * z) /\ ColumnCells(columns[k], m, first)[q] = << first + i - 1, columns[k].name, p - 1 >>
  <2>1. columns[k].size \in Nat \ {0}
    BY <1>1
  <2>2. /\ (i - 1) * columns[k].size + p \in 1..(m * columns[k].size)
        /\ ColumnCells(columns[k], m, first)[(i - 1) * columns[k].size + p]
             = << first + i - 1, columns[k].name, p - 1 >>
    <3>1. PICK c : c = columns[k]
      OBVIOUS
    <3>2. c.size \in Nat \ {0} /\ p \in 1..c.size
      BY <2>1, <3>1
    <3> HIDE DEF s, n, sizes, z, q
    <3>3. /\ (i - 1) * c.size + p \in 1..(m * c.size)
          /\ ColumnCells(c, m, first)[(i - 1) * c.size + p] = << first + i - 1, c.name, p - 1 >>
      BY <3>2, ElementInColumn
    <3> QED
      BY <3>1, <3>3
  <2> QED
    BY <2>2
<1>5. Len(sizes) = k - 1 /\ k - 1 \in Nat /\ \A j \in 1..(k - 1) : sizes[j] \in Nat
  BY <1>1
<1>6. \A j \in 1..(k - 1) : Len(s[j]) = m * sizes[j]
  <2>1. \A j \in 1..(k - 1) : j \in 1..n /\ sizes[j] = columns[j].size
    BY <1>1
  <2> HIDE DEF s, sizes
  <2> QED
    BY <1>2, <2>1
<1>7. q \in 1..Len(s[k])
  BY <1>2, <1>4
<1>8. (i - 1) * z \in Int /\ p \in Int
  BY <1>1
<1>9. z \in Int /\ q = (i - 1) * z + p
  BY <1>1
<1> HIDE DEF s, n, sizes, q, z
<1>10. Total(LengthsTo(s, k - 1)) = m * Total(sizes)
  <2>1. Len(LengthsTo(s, k - 1)) = k - 1 /\ \A j \in 1..(k - 1) : LengthsTo(s, k - 1)[j] = m * sizes[j]
    BY <1>5, <1>6 DEF LengthsTo
  <2>2. \A j \in 1..(k - 1) : sizes[j] \in Nat /\ LengthsTo(s, k - 1)[j] = m * sizes[j]
    BY <1>5, <2>1
  <2> QED
    BY <1>5, <2>1, <2>2, TotalTimes, Zenon
<1>11. Total(sizes) \in Nat
  BY <1>5, TotalNat
<1>12. /\ Total(LengthsTo(s, k - 1)) + q \in 1..Len(FlattenSeq(s))
       /\ FlattenSeq(s)[Total(LengthsTo(s, k - 1)) + q] = s[k][q]
  <2>1. k \in 1..n
    BY DEF n
  <2> QED
    BY <1>2, <1>7, <2>1, FlatPlace
<1>13. m * Total(sizes) + (i - 1) * z + p = Total(LengthsTo(s, k - 1)) + q
  <2>1. m * Total(sizes) \in Int
    BY <1>11
  <2> QED
    BY <1>8, <1>9, <1>10, <2>1
<1>14. BodyCells(columns, m, first) = FlattenSeq(s)
  BY DEF BodyCells, s
<1>15. /\ m * Total(sizes) + (i - 1) * z + p \in 1..Len(BodyCells(columns, m, first))
       /\ BodyCells(columns, m, first)[m * Total(sizes) + (i - 1) * z + p]
            = << first + i - 1, columns[k].name, p - 1 >>
  BY <1>3, <1>4, <1>12, <1>13, <1>14
<1> QED
  BY <1>15 DEF InBody, sizes, z

\* A body is not longer than the room it is given.
LEMMA BodyFits ==
  ASSUME NEW columns \in ColumnSeqs, columns # << >>, NEW m \in Nat, NEW first \in Int,
         NEW align \in Nat \ {0}
  PROVE  /\ BodyRoom(columns, m, align) \in Nat /\ Len(BodyCells(columns, m, first)) \in Nat
         /\ BodyRoom(columns, m, align) >= Len(BodyCells(columns, m, first))
<1>1. RowCells(columns) \in Nat
  BY RowCellsType
<1>2. m * RowCells(columns) \in Nat
  BY <1>1
<1> QED
  BY <1>1, <1>2, Aligned, BodyLength DEF BodyRoom

\* Three sequences, one after the other.
LEMMA ThreeLong ==
  ASSUME NEW T, NEW a \in Seq(T), NEW b \in Seq(T), NEW c \in Seq(T)
  PROVE  a \o b \o c \in Seq(T) /\ Len(a \o b \o c) = Len(a) + Len(b) + Len(c)
  OBVIOUS

LEMMA ThreeMiddle ==
  ASSUME NEW T, NEW a \in Seq(T), NEW b \in Seq(T), NEW c \in Seq(T)
  PROVE  \A i \in 1..Len(b) : (a \o b \o c)[Len(a) + i] = b[i]
  OBVIOUS

\* A record is a header and the room of its body.
LEMMA RecordLength ==
  ASSUME NEW columns \in ColumnSeqs, columns # << >>, NEW m \in Nat, NEW first \in Int,
         NEW header \in Nat, NEW align \in Nat \ {0}
  PROVE  /\ LaidOut(columns, m, first, header, align) \in Seq(CellType)
         /\ Len(LaidOut(columns, m, first, header, align)) = BodyRoom(columns, m, align) + header
<1> DEFINE a == Gap(header)
           b == BodyCells(columns, m, first)
           c == Gap(BodyRoom(columns, m, align) - Len(BodyCells(columns, m, first)))
<1>1. a \in Seq(CellType) /\ Len(a) = header
  BY GapCells
<1>2. b \in Seq(CellType) /\ Len(b) \in Nat
  BY BodyLength, BodyFits
<1>3. BodyRoom(columns, m, align) \in Nat
  BY BodyFits
<1>4. c \in Seq(CellType) /\ Len(c) = BodyRoom(columns, m, align) - Len(b)
  <2>1. BodyRoom(columns, m, align) - Len(BodyCells(columns, m, first)) \in Nat
    BY BodyFits
  <2> QED
    BY <2>1, GapCells
<1>5. LaidOut(columns, m, first, header, align) = a \o b \o c
  BY DEF LaidOut
<1> HIDE DEF a, b, c
<1>6. a \o b \o c \in Seq(CellType) /\ Len(a \o b \o c) = Len(a) + Len(b) + Len(c)
  BY <1>1, <1>2, <1>4, ThreeLong
<1>7. Len(a) + Len(b) + Len(c) = BodyRoom(columns, m, align) + header
  BY <1>1, <1>2, <1>3, <1>4
<1> QED
  BY <1>5, <1>6, <1>7

\* The same of all of them at once.
LEMMA RecordLengths ==
  \A columns \in ColumnSeqs, m \in Nat, first \in Int, header \in Nat, align \in Nat \ {0} :
    columns # << >> =>
      Len(LaidOut(columns, m, first, header, align)) = BodyRoom(columns, m, align) + header
  BY RecordLength

\* The body is behind the header.
LEMMA RecordBody ==
  ASSUME NEW columns \in ColumnSeqs, columns # << >>, NEW m \in Nat, NEW first \in Int,
         NEW header \in Nat, NEW align \in Nat \ {0}
  PROVE  \A i \in 1..Len(BodyCells(columns, m, first)) :
           LaidOut(columns, m, first, header, align)[header + i] = BodyCells(columns, m, first)[i]
<1> DEFINE a == Gap(header)
           b == BodyCells(columns, m, first)
           c == Gap(BodyRoom(columns, m, align) - Len(BodyCells(columns, m, first)))
<1>1. a \in Seq(CellType) /\ Len(a) = header
  BY GapCells
<1>2. b \in Seq(CellType)
  BY BodyLength
<1>3. c \in Seq(CellType)
  <2>1. BodyRoom(columns, m, align) - Len(BodyCells(columns, m, first)) \in Nat
    BY BodyFits
  <2> QED
    BY <2>1, GapCells
<1>4. LaidOut(columns, m, first, header, align) = a \o b \o c
  BY DEF LaidOut
<1> HIDE DEF a, b, c
<1>5. \A i \in 1..Len(b) : (a \o b \o c)[header + i] = b[i]
  BY <1>1, <1>2, <1>3, ThreeMiddle
<1>6. \A i \in 1..Len(b) : LaidOut(columns, m, first, header, align)[header + i] = b[i]
  BY <1>4, <1>5
<1> QED
  BY <1>6 DEF b

------------------------------------------------------------------------------
(* A sequence taken apart and put together again *)

\* A function on the numbers up to m is a sequence.
LEMMA ListOf ==
  ASSUME NEW T, NEW m \in Nat, NEW q \in [1..m -> T]
  PROVE  q \in Seq(T) /\ Len(q) = m
<1>1. q \in Seq(T)
  BY SeqDef
<1> QED
  BY <1>1, LenProperties

\* The sums of the first so many numbers.
LEMMA SumsUp ==
  ASSUME NEW R \in Seq(Nat)
  PROVE  /\ Total(SubSeq(R, 1, 0)) = 0 /\ Total(SubSeq(R, 1, Len(R))) = Total(R)
         /\ \A k \in 0..Len(R) : Total(SubSeq(R, 1, k)) \in Nat
         /\ \A k \in 1..Len(R) : Total(SubSeq(R, 1, k)) = Total(SubSeq(R, 1, k - 1)) + R[k]
<1>1. Len(R) \in Nat /\ \A i \in 1..Len(R) : R[i] \in Nat
  BY ElementOfSeq, LenProperties
<1>2. \A k \in 0..Len(R) : Len(SubSeq(R, 1, k)) = k /\ \A i \in 1..k : SubSeq(R, 1, k)[i] = R[i]
  BY <1>1
<1>3. \A k \in 0..Len(R) : Total(SubSeq(R, 1, k)) \in Nat
  <2> TAKE k \in 0..Len(R)
  <2>1. k \in Nat /\ Len(SubSeq(R, 1, k)) = k /\ \A i \in 1..k : SubSeq(R, 1, k)[i] \in Nat
    BY <1>1, <1>2
  <2> QED
    BY <2>1, TotalNat
<1>4. ASSUME NEW k \in 1..Len(R)
      PROVE  Total(SubSeq(R, 1, k)) = Total(SubSeq(R, 1, k - 1)) + R[k]
  <2>1. k \in Nat \ {0} /\ k \in 0..Len(R) /\ k - 1 \in 0..Len(R)
    BY <1>1
  <2>2. Len(SubSeq(R, 1, k - 1)) = k - 1 /\ Len(SubSeq(R, 1, k)) = k /\ SubSeq(R, 1, k)[k] = R[k]
    BY <1>2, <2>1
  <2>3. \A i \in 1..(k - 1) : SubSeq(R, 1, k)[i] = SubSeq(R, 1, k - 1)[i]
    BY <1>2, <2>1
  <2> DEFINE t == SubSeq(R, 1, k)
             u == SubSeq(R, 1, k - 1)
  <2>4. Len(u) = k - 1 /\ Len(t) = k /\ t[k] = R[k] /\ \A i \in 1..(k - 1) : t[i] = u[i]
    BY <2>2, <2>3
  <2> HIDE DEF t, u
  <2>5. Total(t) = Total(u) + t[k]
    BY <2>1, <2>4, TotalMore
  <2> QED
    BY <2>4, <2>5 DEF t, u
<1>5. Total(SubSeq(R, 1, 0)) = 0
  <2>1. 0 \in 0..Len(R)
    BY <1>1
  <2>2. Len(SubSeq(R, 1, 0)) = 0
    BY <1>2, <2>1
  <2> QED
    BY <2>2, TotalNone
<1>6. Total(SubSeq(R, 1, Len(R))) = Total(R)
  <2>1. Len(R) \in 0..Len(R)
    BY <1>1
  <2> QED
    BY <1>1, <1>2, <2>1, TotalSame
<1> QED
  BY <1>3, <1>4, <1>5, <1>6

\* They are no more than the sum of all.
LEMMA SumsWithin ==
  ASSUME NEW R \in Seq(Nat)
  PROVE  \A k \in 0..Len(R) : Total(SubSeq(R, 1, k)) <= Total(R)
<1> DEFINE P(k) == Total(SubSeq(R, 1, k))
<1>1. /\ P(0) = 0 /\ P(Len(R)) = Total(R)
      /\ \A k \in 0..Len(R) : P(k) \in Nat
      /\ \A k \in 1..Len(R) : P(k) = P(k - 1) + R[k]
  BY SumsUp
<1>2. Len(R) \in Nat /\ \A i \in 1..Len(R) : R[i] \in Nat
  BY ElementOfSeq, LenProperties
<1>3. \A k \in 0..Len(R) : P(k) <= Total(R)
  <2> DEFINE D == {m \in Nat : m <= Len(R) => P(Len(R) - m) <= Total(R)}
  <2>1. 0 \in D
    BY <1>1, <1>2
  <2>2. \A m \in 0..(Len(R) - 1) : m \in D => m + 1 \in D
    <3> SUFFICES ASSUME NEW m \in 0..(Len(R) - 1), m \in D
                 PROVE  P(Len(R) - (m + 1)) <= Total(R)
      OBVIOUS
    <3> DEFINE k == Len(R) - m
    <3>1. k \in 1..Len(R) /\ k - 1 \in 0..Len(R) /\ k - 1 = Len(R) - (m + 1) /\ k \in 0..Len(R)
      BY <1>2
    <3>2. P(k) <= Total(R)
      BY <1>2
    <3>3. P(k) = P(k - 1) + R[k] /\ R[k] \in Nat /\ P(k) \in Nat /\ P(k - 1) \in Nat
      BY <1>1, <1>2, <3>1
    <3>4. Total(R) \in Nat
      BY <1>1, <1>2
    <3> HIDE DEF k, P, D
    <3>5. P(k - 1) <= Total(R)
      BY <3>2, <3>3, <3>4
    <3> QED
      BY <3>1, <3>5
  <2> HIDE DEF D
  <2>3. \A m \in 0..Len(R) : m \in D
    BY <1>2, <2>1, <2>2, UpTo
  <2> TAKE k \in 0..Len(R)
  <2>4. Len(R) - k \in D /\ Len(R) - (Len(R) - k) = k /\ Len(R) - k <= Len(R)
    BY <1>2, <2>3
  <2> QED
    BY <2>4 DEF D
<1> QED
  BY <1>3 DEF P

\* A stretch of a sequence.
LEMMA StretchOf ==
  ASSUME NEW T, NEW v \in Seq(T), NEW first \in Nat, NEW m \in Nat, first + m <= Len(v)
  PROVE  /\ SubSeq(v, first + 1, first + m) \in Seq(T)
         /\ Len(SubSeq(v, first + 1, first + m)) = m
         /\ \A i \in 1..m : SubSeq(v, first + 1, first + m)[i] = v[first + i]
<1>1. v \in [1..Len(v) -> T] /\ Len(v) \in Nat
  BY LenProperties
<1>2. SubSeq(v, first + 1, first + m) = [i \in 1..m |-> v[first + i]]
  BY <1>1 DEF SubSeq
<1>3. \A i \in 1..m : first + i \in 1..Len(v)
  BY <1>1
<1>4. SubSeq(v, first + 1, first + m) \in [1..m -> T]
  BY <1>1, <1>2, <1>3
<1> QED
  BY <1>2, <1>4, ListOf

\* A number up to their sum is in one of the stretches they make up.
LEMMA InSomePart ==
  ASSUME NEW R \in Seq(Nat), NEW x \in 1..Total(R)
  PROVE  \E r \in 1..Len(R) : x - Total(SubSeq(R, 1, r - 1)) \in 1..R[r]
<1> DEFINE P(k) == Total(SubSeq(R, 1, k))
           S == {k \in Nat : k <= Len(R) /\ x <= P(k)}
<1>1. /\ P(0) = 0 /\ P(Len(R)) = Total(R)
      /\ \A k \in 0..Len(R) : P(k) \in Nat
      /\ \A k \in 1..Len(R) : P(k) = P(k - 1) + R[k]
  BY SumsUp
<1>2. Len(R) \in Nat /\ \A i \in 1..Len(R) : R[i] \in Nat
  BY ElementOfSeq, LenProperties
<1> HIDE DEF P
<1>3. Len(R) \in S
  BY <1>1, <1>2
<1>4. PICK r \in S : \A k \in S : r <= k
  <2>1. S \in SUBSET Nat /\ S # {}
    BY <1>3
  <2> HIDE DEF S
  <2> QED
    BY <2>1, LeastNumber
<1>5. r \in 1..Len(R)
  BY <1>1, <1>2, <1>4
<1>6. ~ (x <= P(r - 1))
  <2>1. r - 1 \in Nat /\ ~ (r <= r - 1)
    BY <1>2, <1>5
  <2>2. r - 1 \notin S
    BY <1>4, <2>1
  <2> QED
    BY <1>2, <1>5, <2>1, <2>2
<1>7. x - P(r - 1) \in 1..R[r]
  <2>1. P(r - 1) \in Nat /\ P(r) = P(r - 1) + R[r] /\ x <= P(r) /\ R[r] \in Nat /\ x \in Nat
    BY <1>1, <1>2, <1>4, <1>5
  <2> QED
    BY <1>6, <2>1
<1> QED
  BY <1>5, <1>7 DEF P

\* The stretch that is the r-th part of g.
PartOf(g, R, r) == [i \in 1..R[r] |-> g[Total(SubSeq(R, 1, r - 1)) + i]]

\* The parts of a sequence, one after the other, are the sequence.
LEMMA PartsJoined ==
  ASSUME NEW T, NEW g \in Seq(T), NEW R \in Seq(Nat), R # << >>, Len(g) = Total(R)
  PROVE  FlattenSeq([r \in 1..Len(R) |-> PartOf(g, R, r)]) = g
<1> DEFINE s == [r \in 1..Len(R) |-> PartOf(g, R, r)]
           P(k) == Total(SubSeq(R, 1, k))
<1>1. /\ P(0) = 0 /\ P(Len(R)) = Total(R)
      /\ \A k \in 0..Len(R) : P(k) \in Nat
      /\ \A k \in 1..Len(R) : P(k) = P(k - 1) + R[k]
  BY SumsUp
<1>2. Len(R) \in Nat \ {0} /\ \A i \in 1..Len(R) : R[i] \in Nat
  BY ElementOfSeq, LenProperties, EmptySeq
<1>3. \A k \in 0..Len(R) : P(k) <= Total(R)
  BY SumsWithin
<1>4. g \in [1..Total(R) -> T] /\ Total(R) \in Nat
  BY LenProperties
<1>5. \A r \in 1..Len(R) : /\ s[r] \in Seq(T) /\ Len(s[r]) = R[r]
                           /\ \A i \in 1..R[r] : s[r][i] = g[P(r - 1) + i]
  <2> TAKE r \in 1..Len(R)
  <2>1. R[r] \in Nat /\ P(r - 1) \in Nat /\ P(r - 1) + R[r] <= Total(R)
    <3>1. r - 1 \in 0..Len(R) /\ r \in 0..Len(R)
      BY <1>2
    <3> QED
      BY <1>1, <1>2, <1>3, <3>1
  <2>2. s[r] = [i \in 1..R[r] |-> g[P(r - 1) + i]]
    BY DEF PartOf
  <2> HIDE DEF s, P
  <2>3. \A i \in 1..R[r] : P(r - 1) + i \in 1..Total(R)
    BY <1>4, <2>1
  <2>4. \A i \in 1..R[r] : g[P(r - 1) + i] \in T
    BY <1>4, <2>3
  <2>5. s[r] \in [1..R[r] -> T]
    BY <2>2, <2>4
  <2> QED
    <3> DEFINE q == s[r]
    <3>1. q \in Seq(T) /\ Len(q) = R[r]
      <4>1. R[r] \in Nat /\ q \in [1..R[r] -> T]
        BY <2>1, <2>5
      <4> HIDE DEF q
      <4> QED
        BY <4>1, ListOf
    <3>2. \A i \in 1..R[r] : s[r][i] = g[P(r - 1) + i]
      BY <2>2
    <3> QED
      BY <3>1, <3>2
<1>6. Len(s) = Len(R)
  BY <1>2
<1> HIDE DEF s
<1>7. SeqsOf(T, s, Len(R))
  BY <1>2, <1>5, <1>6 DEF SeqsOf
<1>8. \A k \in 0..Len(R) : Total(LengthsTo(s, k)) = P(k)
  <2> TAKE k \in 0..Len(R)
  <2>1. k \in Nat /\ Len(LengthsTo(s, k)) = k /\ \A i \in 1..k : LengthsTo(s, k)[i] = Len(s[i])
    BY <1>2 DEF LengthsTo
  <2>2. Len(SubSeq(R, 1, k)) = k /\ \A i \in 1..k : SubSeq(R, 1, k)[i] = R[i]
    BY <1>2
  <2>3. \A i \in 1..k : LengthsTo(s, k)[i] = SubSeq(R, 1, k)[i]
    BY <1>2, <1>5, <2>1, <2>2
  <2> QED
    BY <2>1, <2>2, <2>3, TotalSame
<1>9. FlattenSeq(s) \in Seq(T) /\ Len(FlattenSeq(s)) = Total(R)
  <2>1. Total(LengthsTo(s, Len(R))) = Total(R)
    BY <1>1, <1>2, <1>8
  <2> QED
    BY <1>7, <2>1, FlatLength
<1>10. \A x \in 1..Total(R) : FlattenSeq(s)[x] = g[x]
  <2> TAKE x \in 1..Total(R)
  <2>1. PICK r \in 1..Len(R) : x - P(r - 1) \in 1..R[r]
    BY InSomePart
  <2>2. PICK i \in 1..R[r] : i = x - P(r - 1)
    BY <2>1
  <2>3. P(r - 1) \in Nat /\ r - 1 \in 0..Len(R)
    BY <1>1, <1>2
  <2>4. P(r - 1) + i = x
    <3> HIDE DEF P
    <3> QED
      BY <2>2, <2>3
  <2>5. i \in 1..Len(s[r])
    BY <1>5
  <2>6. FlattenSeq(s)[Total(LengthsTo(s, r - 1)) + i] = s[r][i]
    BY <1>7, <2>5, FlatPlace
  <2>7. Total(LengthsTo(s, r - 1)) = P(r - 1)
    BY <1>8, <2>3
  <2> QED
    BY <1>5, <2>4, <2>6, <2>7
<1>11. FlattenSeq(s) = g
  <2> DEFINE t == FlattenSeq(s)
  <2>1. t \in Seq(T) /\ Len(t) = Len(g) /\ \A x \in 1..Len(t) : t[x] = g[x]
    BY <1>9, <1>10
  <2> HIDE DEF t
  <2>2. t = g
    BY <2>1, SeqEqual
  <2> QED
    BY <2>2 DEF t
<1> QED
  BY <1>11 DEF s
=============================================================================
