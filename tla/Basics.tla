------------------------------- MODULE Basics -------------------------------
(***************************************************************************)
(* Facts that the proofs about several modules need: how finite sets that  *)
(* differ in one element count, remainders, lists, and sums of the values  *)
(* of a function with a finite domain, as the community modules define     *)
(* them.                                                                   *)
(***************************************************************************)
EXTENDS Integers, Sequences, FiniteSets, Functions, FiniteSetTheorems, SequenceTheorems, TLAPS

-----------------------------------------------------------------------------
(* Counting.                                                                *)
One(b) == IF b THEN 1 ELSE 0

(* Sets that agree but for one element differ in size by that element.      *)
LEMMA DifferInOne ==
  ASSUME NEW S, NEW T, NEW x, IsFiniteSet(S), S \ {x} = T \ {x}
  PROVE  /\ IsFiniteSet(T) /\ Cardinality(S) \in Nat /\ Cardinality(T) \in Nat
         /\ Cardinality(T) + One(x \in S) = Cardinality(S) + One(x \in T)
<1> DEFINE R == S \ {x}
<1>1. IsFiniteSet(R) /\ Cardinality(R) \in Nat
  BY FS_Subset, FS_CardinalityType, R \in SUBSET S
<1>2. ASSUME NEW U, U \ {x} = R
      PROVE  IsFiniteSet(U) /\ Cardinality(U) = Cardinality(R) + One(x \in U)
  <2>1. CASE x \in U
    <3>1. U = R \cup {x} /\ x \notin R
      BY <1>2, <2>1
    <3> QED
      BY <1>1, <2>1, <3>1, FS_AddElement DEF One
  <2>2. CASE x \notin U
    BY <1>1, <1>2, <2>2, U = R DEF One
  <2> QED
    BY <2>1, <2>2
<1>3. S \ {x} = R /\ T \ {x} = R
  OBVIOUS
<1>4. /\ IsFiniteSet(T)
      /\ Cardinality(S) = Cardinality(R) + One(x \in S)
      /\ Cardinality(T) = Cardinality(R) + One(x \in T)
  BY <1>2, <1>3
<1>5. One(x \in S) \in {0, 1} /\ One(x \in T) \in {0, 1}
  BY DEF One
<1> QED
  BY <1>1, <1>4, <1>5

-----------------------------------------------------------------------------
(* Remainders.                                                              *)
LEMMA Quotient ==
  ASSUME NEW M \in Nat \ {0}, NEW a \in Int
  PROVE  a % M \in 0 .. M - 1 /\ \E q \in Int : a = M * q + (a % M)
<1>1. a \div M \in Int /\ a % M \in 0 .. M - 1 /\ a = M * (a \div M) + (a % M)
  OBVIOUS
<1> QED
  BY <1>1

LEMMA MultipleIsFar ==
  ASSUME NEW M \in Nat \ {0}, NEW k \in Int, M * k < M, M * k > -M PROVE  k = 0
OBVIOUS

LEMMA OnlyRemainder ==
  ASSUME NEW M \in Nat \ {0}, NEW a \in Int, NEW k \in Int, NEW r \in 0 .. M - 1,
         a = M * k + r
  PROVE  a % M = r
<1>1. PICK q \in Int : a = M * q + (a % M)
  BY Quotient
<1> DEFINE s == a % M
<1>2. s \in 0 .. M - 1 /\ a = M * q + s
  BY <1>1, Quotient
<1> HIDE DEF s
<1> DEFINE n == k - q
<1>3. n \in Int /\ M * n = M * k - M * q
  OBVIOUS
<1>4. M * k \in Int /\ M * q \in Int
  OBVIOUS
<1> HIDE DEF n
<1>5. M * n = s - r
  BY <1>2, <1>3, <1>4
<1>6. n = 0
  BY <1>2, <1>3, <1>5, MultipleIsFar
<1> QED
  BY <1>2, <1>5, <1>6 DEF s

(* Numbers that differ by a multiple of M have the same remainder.           *)
LEMMA SameRemainder ==
  ASSUME NEW M \in Nat \ {0}, NEW a \in Int, NEW b \in Int, NEW k \in Int, a = b + M * k
  PROVE  a % M = b % M
<1>1. PICK p \in Int : a = M * p + (a % M)
  BY Quotient
<1>2. PICK q \in Int : b = M * q + (b % M)
  BY Quotient
<1>3. a % M \in 0 .. M - 1 /\ b % M \in 0 .. M - 1
  BY Quotient
<1> DEFINE r == a % M
<1> DEFINE s == b % M
<1>4. r \in 0 .. M - 1 /\ s \in 0 .. M - 1 /\ a = M * p + r /\ b = M * q + s
  BY <1>1, <1>2, <1>3
<1> HIDE DEF r, s
<1> DEFINE n == p - q - k
<1>5. n \in Int /\ M * n = M * p - M * q - M * k
  OBVIOUS
<1>6. M * p \in Int /\ M * q \in Int /\ M * k \in Int
  OBVIOUS
<1> HIDE DEF n
<1>7. M * n = s - r
  BY <1>4, <1>5, <1>6
<1>8. n = 0
  BY <1>4, <1>5, <1>7, MultipleIsFar
<1> QED
  BY <1>4, <1>7, <1>8 DEF r, s

(* A sum may be reduced before its last summand is added.                   *)
LEMMA ModAbsorb ==
  ASSUME NEW M \in Nat \ {0}, NEW x \in Int, NEW y \in Int
  PROVE  ((x % M) + y) % M = (x + y) % M
<1>1. PICK q \in Int : x = M * q + (x % M)
  BY Quotient
<1>2. x % M \in Int
  BY Quotient
<1> DEFINE a == x + y
<1> DEFINE b == (x % M) + y
<1>3. a \in Int /\ b \in Int /\ a = b + M * q
  BY <1>1, <1>2
<1> HIDE DEF a, b
<1>4. a % M = b % M
  BY <1>3, SameRemainder
<1> QED BY <1>4 DEF a, b

-----------------------------------------------------------------------------
(* Lists.                                                                   *)
LEMMA RangeInside == ASSUME NEW S, NEW q \in Seq(S) PROVE Range(q) \subseteq S
BY DEF Range

LEMMA RangeAppend ==
  ASSUME NEW S, NEW q \in Seq(S), NEW x \in S
  PROVE  Append(q, x) \in Seq(S) /\ Range(Append(q, x)) = Range(q) \cup {x}
<1>1. /\ Append(q, x) \in Seq(S) /\ DOMAIN q = 1 .. Len(q)
      /\ DOMAIN Append(q, x) = 1 .. Len(q) + 1
      /\ Append(q, x)[Len(q) + 1] = x
      /\ \A i \in 1 .. Len(q) : Append(q, x)[i] = q[i]
  OBVIOUS
<1>2. ASSUME NEW y \in Range(Append(q, x)) PROVE y \in Range(q) \cup {x}
  BY <1>1 DEF Range
<1>3. ASSUME NEW y \in Range(q) PROVE y \in Range(Append(q, x))
  BY <1>1 DEF Range
<1>4. x \in Range(Append(q, x))
  BY <1>1 DEF Range
<1> QED
  BY <1>1, <1>2, <1>3, <1>4

LEMMA TailPart ==
  ASSUME NEW S, NEW q \in Seq(S), q # <<>>
  PROVE  /\ Head(q) \in S /\ Tail(q) \in Seq(S) /\ Head(q) = q[1] /\ Head(q) \in Range(q)
         /\ Len(q) \in Nat \ {0} /\ Len(Tail(q)) = Len(q) - 1
         /\ DOMAIN q = 1 .. Len(q) /\ DOMAIN Tail(q) = 1 .. Len(q) - 1
         /\ \A i \in 1 .. Len(q) - 1 : Tail(q)[i] = q[i + 1]
         /\ Range(Tail(q)) \subseteq Range(q)
<1>1. /\ Head(q) \in S /\ Tail(q) \in Seq(S) /\ Head(q) = q[1]
      /\ Len(q) \in Nat \ {0} /\ Len(Tail(q)) = Len(q) - 1
      /\ DOMAIN q = 1 .. Len(q) /\ DOMAIN Tail(q) = 1 .. Len(q) - 1
      /\ \A i \in 1 .. Len(q) - 1 : Tail(q)[i] = q[i + 1]
  OBVIOUS
<1>2. Head(q) \in Range(q) /\ Range(Tail(q)) \subseteq Range(q)
  BY <1>1 DEF Range
<1> QED
  BY <1>1, <1>2

LEMMA RangeFront ==
  ASSUME NEW S, NEW q \in Seq(S), NEW x \in S
  PROVE  /\ <<x>> \o q \in Seq(S) /\ Range(<<x>> \o q) = Range(q) \cup {x}
         /\ IsInjective(q) /\ x \notin Range(q) => IsInjective(<<x>> \o q)
<1> DEFINE r == <<x>> \o q
<1>1. /\ r \in Seq(S) /\ Len(r) = Len(q) + 1 /\ Len(q) \in Nat
      /\ DOMAIN q = 1 .. Len(q) /\ DOMAIN r = 1 .. Len(q) + 1
      /\ r[1] = x /\ \A i \in 2 .. Len(q) + 1 : r[i] = q[i - 1]
  OBVIOUS
<1> HIDE DEF r
<1>2. ASSUME NEW y \in Range(r) PROVE y \in Range(q) \cup {x}
  <2>1. PICK i \in 1 .. Len(q) + 1 : r[i] = y
    BY <1>1 DEF Range
  <2>2. CASE i = 1
    BY <1>1, <2>1, <2>2
  <2>3. CASE i # 1
    <3>1. i \in 2 .. Len(q) + 1 /\ i - 1 \in 1 .. Len(q)
      BY <1>1, <2>1, <2>3
    <3>2. y = q[i - 1]
      BY <1>1, <2>1, <3>1
    <3> QED
      BY <1>1, <3>1, <3>2 DEF Range
  <2> QED
    BY <2>2, <2>3
<1>3. ASSUME NEW y \in Range(q) PROVE y \in Range(r)
  <2>1. PICK i \in 1 .. Len(q) : q[i] = y
    BY <1>1, <1>3 DEF Range
  <2>2. i + 1 \in 2 .. Len(q) + 1 /\ r[i + 1] = q[(i + 1) - 1] /\ (i + 1) - 1 = i
    BY <1>1, <2>1
  <2> QED
    BY <1>1, <2>1, <2>2 DEF Range
<1>4. x \in Range(r)
  BY <1>1 DEF Range
<1>5. ASSUME IsInjective(q), x \notin Range(q) PROVE IsInjective(r)
  <2>1. ASSUME NEW i \in 1 .. Len(q) + 1, NEW j \in 1 .. Len(q) + 1, r[i] = r[j], i < j
        PROVE  FALSE
    <3>1. j - 1 \in 1 .. Len(q) /\ r[j] = q[j - 1]
      BY <1>1, <2>1
    <3>2. CASE i = 1
      BY <1>1, <1>5, <2>1, <3>1, <3>2 DEF Range
    <3>3. CASE i > 1
      <4>1. i - 1 \in 1 .. Len(q) /\ r[i] = q[i - 1]
        BY <1>1, <2>1, <3>3
      <4> QED
        <5>1. q[i - 1] = q[j - 1] /\ i - 1 \in DOMAIN q /\ j - 1 \in DOMAIN q
          BY <1>1, <2>1, <3>1, <4>1
        <5>2. i - 1 = j - 1
          BY <1>5, <5>1 DEF IsInjective
        <5> QED
          BY <2>1, <5>2
    <3> QED
      BY <2>1, <3>2, <3>3
  <2> QED
    BY <1>1, <2>1 DEF IsInjective
<1> QED
  BY <1>1, <1>2, <1>3, <1>4, <1>5 DEF r

LEMMA ListTail ==
  ASSUME NEW S, NEW s \in Seq(S), s # <<>>, IsInjective(s)
  PROVE  /\ Head(s) \in S /\ Head(s) \in Range(s)
         /\ Tail(s) \in Seq(S) /\ Len(Tail(s)) = Len(s) - 1
         /\ IsInjective(Tail(s))
         /\ Range(Tail(s)) = Range(s) \ {Head(s)}
<1>1. /\ Len(s) \in Nat /\ Len(s) > 0 /\ DOMAIN s = 1 .. Len(s)
      /\ Head(s) = s[1] /\ \A i \in 1 .. Len(s) : s[i] \in S
  BY EmptySeq, LenProperties, ElementOfSeq
<1>2. /\ Tail(s) \in Seq(S) /\ Len(Tail(s)) = Len(s) - 1
      /\ \A i \in 1 .. Len(Tail(s)) : Tail(s)[i] = s[i + 1]
  BY HeadTailProperties
<1>3. DOMAIN Tail(s) = 1 .. Len(s) - 1
  BY <1>2, LenProperties
<1> DEFINE r == Tail(s)
           n == Len(s)
<1>4. \A i \in 1 .. n : \A j \in 1 .. n : s[i] = s[j] => i = j
  BY <1>1 DEF IsInjective
<1>5. /\ DOMAIN r = 1 .. n - 1 /\ \A i \in 1 .. n - 1 : r[i] = s[i + 1]
      /\ n \in Nat /\ n > 0 /\ DOMAIN s = 1 .. n /\ Head(s) = s[1]
  BY <1>1, <1>2, <1>3
<1> HIDE DEF r, n
<1>6. IsInjective(r)
  BY <1>4, <1>5 DEF IsInjective
<1>7. Range(r) = Range(s) \ {s[1]}
  <2>1. ASSUME NEW i \in 1 .. n, s[i] # s[1] PROVE s[i] \in Range(r)
    <3>1. i - 1 \in 1 .. n - 1 /\ (i - 1) + 1 = i
      BY <1>5, <2>1
    <3>2. r[i - 1] = s[i]
      BY <1>5, <3>1
    <3> QED
      BY <1>5, <3>1, <3>2 DEF Range
  <2>2. ASSUME NEW i \in 1 .. n - 1 PROVE r[i] \in Range(s) \ {s[1]}
    <3>1. i + 1 \in 1 .. n /\ i + 1 # 1 /\ 1 \in 1 .. n
      BY <1>5
    <3> QED
      BY <1>4, <1>5, <3>1 DEF Range
  <2> QED
    BY <1>5, <2>1, <2>2 DEF Range
<1>8. s[1] \in Range(s)
  BY <1>5 DEF Range
<1> QED
  BY <1>1, <1>2, <1>5, <1>6, <1>7, <1>8 DEF r, n

-----------------------------------------------------------------------------
(* Induction, of a set of numbers.                                          *)
LEMMA NatSetInduction ==
  ASSUME NEW N \in SUBSET Nat, 0 \in N, \A n \in N : n + 1 \in N
  PROVE  N = Nat
<1> DEFINE Rest == Nat \ N
<1> SUFFICES ASSUME Rest # {} PROVE FALSE
  OBVIOUS
<1>1. \E m \in Rest : \A k \in Rest : ~ (<<k, m>> \in OpToRel(<, Nat))
  BY NatLessThanWellFounded, WFMin
<1>2. PICK m \in Rest : \A k \in Rest : ~ (k < m)
  BY <1>1 DEF OpToRel
<1>3. m # 0 /\ m - 1 \in Nat /\ m - 1 < m
  BY <1>2
<1>4. m - 1 \in N
  BY <1>2, <1>3
<1>5. (m - 1) + 1 \in N
  BY <1>4
<1> QED
  BY <1>2, <1>5

(* A set of numbers has a least one.                                        *)
LEMMA LeastNumber ==
  ASSUME NEW N \in SUBSET Nat, N # {} PROVE \E m \in N : \A n \in N : m <= n
<1>1. \E m \in N : \A k \in N : ~ (<<k, m>> \in OpToRel(<, Nat))
  BY NatLessThanWellFounded, WFMin
<1>2. PICK m \in N : \A k \in N : ~ (k < m)
  BY <1>1 DEF OpToRel
<1> QED
  BY <1>2

-----------------------------------------------------------------------------
(* The recursion that a sum is.                                             *)
Chosen(s) == CHOOSE x \in s : TRUE
Added(f, g, s) == IF s = {} THEN 0 ELSE f[Chosen(s)] + g[s \ {Chosen(s)}]
Sums(f, S) == CHOOSE g : g = [s \in SUBSET S |-> Added(f, g, s)]

LEMMA SumIsLast == ASSUME NEW f PROVE SumFunction(f) = Sums(f, DOMAIN f)[DOMAIN f]
BY DEF SumFunction, SumFunctionOnSet, FoldFunctionOnSet, MapThenFoldSet, Sums, Added, Chosen

LEMMA ChosenIn == ASSUME NEW s, s # {} PROVE Chosen(s) \in s
BY DEF Chosen

LEMMA SmallerRest ==
  ASSUME NEW S, IsFiniteSet(S), NEW s \in SUBSET S, s # {}
  PROVE  /\ Chosen(s) \in S /\ s \ {Chosen(s)} \in SUBSET S
         /\ Cardinality(s) \in Nat \ {0}
         /\ Cardinality(s \ {Chosen(s)}) = Cardinality(s) - 1
<1>1. IsFiniteSet(s) /\ Chosen(s) \in s
  BY ChosenIn, FS_Subset
<1>2. Cardinality(s) \in Nat /\ Cardinality(s) # 0
  BY <1>1, FS_CardinalityType, FS_EmptySet
<1> QED
  BY <1>1, <1>2, FS_RemoveElement

LEMMA SumsExist ==
  ASSUME NEW f, NEW S, IsFiniteSet(S)
  PROVE  \E g : g = [s \in SUBSET S |-> Added(f, g, s)]
<1> DEFINE Small(n) == {s \in SUBSET S : Cardinality(s) <= n}
           N == {n \in Nat : \E g : g = [s \in Small(n) |-> Added(f, g, s)]}
<1>0. \A s \in SUBSET S : IsFiniteSet(s) /\ Cardinality(s) \in Nat
                          /\ Cardinality(s) <= Cardinality(S)
  BY FS_Subset, FS_CardinalityType
<1>1. 0 \in N
  <2>1. Small(0) = {{}}
    <3>1. \A s \in SUBSET S : Cardinality(s) <= 0 <=> s = {}
      BY <1>0, FS_EmptySet
    <3> QED
      BY <3>1
  <2> DEFINE g == [s \in Small(0) |-> 0]
  <2>2. g = [s \in Small(0) |-> Added(f, g, s)]
    BY <2>1 DEF Added
  <2> QED
    BY <2>2
<1>2. ASSUME NEW n \in N PROVE n + 1 \in N
  <2>1. PICK g : g = [s \in Small(n) |-> Added(f, g, s)]
    OBVIOUS
  <2> DEFINE h == [s \in Small(n + 1) |-> IF s \in Small(n) THEN g[s] ELSE Added(f, g, s)]
  <2>2. Small(n) \subseteq Small(n + 1)
    BY <1>0
  <2>3. ASSUME NEW s \in Small(n + 1) PROVE h[s] = Added(f, h, s)
    <3>1. CASE s = {}
      <4>1. s \in Small(n)
        BY <3>1, FS_EmptySet
      <4> QED
        BY <2>1, <2>2, <3>1, <4>1 DEF Added
    <3>2. CASE s # {}
      <4> DEFINE r == s \ {Chosen(s)}
      <4>1. r \in SUBSET S /\ Cardinality(r) = Cardinality(s) - 1 /\ Cardinality(s) \in Nat
        BY <3>2, SmallerRest
      <4>2. r \in Small(n)
        BY <4>1
      <4>3. h[r] = g[r]
        BY <2>2, <4>2
      <4>4. Added(f, h, s) = Added(f, g, s)
        BY <3>2, <4>3 DEF Added
      <4>5. s \in Small(n) => g[s] = Added(f, g, s)
        BY <2>1
      <4> QED
        BY <4>4, <4>5
    <3> QED
      BY <3>1, <3>2
  <2> HIDE DEF h
  <2>4. h = [s \in Small(n + 1) |-> Added(f, h, s)]
    BY <2>3 DEF h
  <2>5. \E k : k = [s \in Small(n + 1) |-> Added(f, k, s)]
    BY <2>4
  <2>6. n + 1 \in Nat
    OBVIOUS
  <2> HIDE DEF Small
  <2> QED
    BY <2>5, <2>6
<1>3. N = Nat
  <2> HIDE DEF N
  <2>1. N \in SUBSET Nat
    BY DEF N
  <2> QED
    BY <1>1, <1>2, <2>1, NatSetInduction
<1>4. Cardinality(S) \in N
  BY <1>3, FS_CardinalityType
<1>5. Small(Cardinality(S)) = SUBSET S
  BY <1>0
<1> QED
  BY <1>4, <1>5

LEMMA SumsUnfold ==
  ASSUME NEW f, NEW S, IsFiniteSet(S)
  PROVE  \A s \in SUBSET S : Sums(f, S)[s] = Added(f, Sums(f, S), s)
<1>1. Sums(f, S) = [s \in SUBSET S |-> Added(f, Sums(f, S), s)]
  BY SumsExist DEF Sums
<1> QED
  BY <1>1

-----------------------------------------------------------------------------
(* Sums of functions that agree but at one place differ as they do there.   *)
LEMMA SumsDiffer ==
  ASSUME NEW S, IsFiniteSet(S), NEW f \in [S -> Int], NEW g \in [S -> Int], NEW x \in S,
         \A y \in S \ {x} : f[y] = g[y]
  PROVE  \A s \in SUBSET S :
           /\ Sums(f, S)[s] \in Int /\ Sums(g, S)[s] \in Int
           /\ Sums(g, S)[s] = Sums(f, S)[s] + (IF x \in s THEN g[x] - f[x] ELSE 0)
<1> DEFINE P(s) == /\ Sums(f, S)[s] \in Int /\ Sums(g, S)[s] \in Int
                   /\ Sums(g, S)[s] = Sums(f, S)[s] + (IF x \in s THEN g[x] - f[x] ELSE 0)
           N == {n \in Nat : \A s \in SUBSET S : Cardinality(s) = n => P(s)}
<1>1. ASSUME NEW s \in SUBSET S
      PROVE  /\ Sums(f, S)[s] = Added(f, Sums(f, S), s)
             /\ Sums(g, S)[s] = Added(g, Sums(g, S), s)
             /\ Cardinality(s) \in Nat /\ (Cardinality(s) = 0 <=> s = {})
  BY SumsUnfold, FS_Subset, FS_CardinalityType, FS_EmptySet
<1>2. 0 \in N
  <2>1. P({})
    <3>1. Sums(f, S)[{}] = 0 /\ Sums(g, S)[{}] = 0
      BY <1>1 DEF Added
    <3> QED
      BY <3>1
  <2> HIDE DEF P
  <2> QED
    BY <1>1, <2>1
<1>3. ASSUME NEW n \in N PROVE n + 1 \in N
  <2> SUFFICES ASSUME NEW s \in SUBSET S, Cardinality(s) = n + 1 PROVE P(s)
    OBVIOUS
  <2>1. s # {}
    BY <1>1
  <2> DEFINE c == Chosen(s)
             r == s \ {c}
  <2>2. c \in S /\ c \in s /\ r \in SUBSET S /\ Cardinality(r) = n
    BY <2>1, ChosenIn, SmallerRest
  <2>3. P(r)
    BY <2>2
  <2>4. /\ Sums(f, S)[s] = f[c] + Sums(f, S)[r]
        /\ Sums(g, S)[s] = g[c] + Sums(g, S)[r]
    BY <1>1, <2>1 DEF Added
  <2>5. x \in s <=> (x = c \/ x \in r)
    BY <2>2
  <2>6. x = c => x \notin r
    OBVIOUS
  <2>7. x # c => f[c] = g[c]
    BY <2>2
  <2>8. f[c] \in Int /\ g[c] \in Int /\ f[x] \in Int /\ g[x] \in Int
    BY <2>2
  <2> HIDE DEF c, r
  <2> QED
    BY <2>3, <2>4, <2>5, <2>6, <2>7, <2>8
<1>4. N = Nat
  <2> HIDE DEF N
  <2>1. N \in SUBSET Nat
    BY DEF N
  <2> QED
    BY <1>2, <1>3, <2>1, NatSetInduction
<1> SUFFICES ASSUME NEW s \in SUBSET S PROVE P(s)
  OBVIOUS
<1>5. Cardinality(s) \in N
  BY <1>1, <1>4
<1> HIDE DEF P
<1> QED
  BY <1>5

LEMMA SumDiffers ==
  ASSUME NEW S, IsFiniteSet(S), NEW f \in [S -> Int], NEW g \in [S -> Int], NEW x \in S,
         \A y \in S \ {x} : f[y] = g[y]
  PROVE  /\ SumFunction(f) \in Int /\ SumFunction(g) \in Int
         /\ SumFunction(g) = SumFunction(f) + (g[x] - f[x])
<1>1. S \in SUBSET S /\ DOMAIN f = S /\ DOMAIN g = S
  OBVIOUS
<1>2. /\ Sums(f, S)[S] \in Int /\ Sums(g, S)[S] \in Int
      /\ Sums(g, S)[S] = Sums(f, S)[S] + (IF x \in S THEN g[x] - f[x] ELSE 0)
  BY <1>1, SumsDiffer
<1> QED
  BY <1>1, <1>2, SumIsLast

LEMMA SumOfZeros ==
  ASSUME NEW S, IsFiniteSet(S), NEW f \in [S -> Int], \A x \in S : f[x] = 0
  PROVE  SumFunction(f) = 0
<1> DEFINE N == {n \in Nat : \A s \in SUBSET S : Cardinality(s) = n => Sums(f, S)[s] = 0}
<1>1. ASSUME NEW s \in SUBSET S
      PROVE  /\ Sums(f, S)[s] = Added(f, Sums(f, S), s)
             /\ Cardinality(s) \in Nat /\ (Cardinality(s) = 0 <=> s = {})
  BY SumsUnfold, FS_Subset, FS_CardinalityType, FS_EmptySet
<1>2. 0 \in N
  BY <1>1 DEF Added
<1>3. ASSUME NEW n \in N PROVE n + 1 \in N
  <2> SUFFICES ASSUME NEW s \in SUBSET S, Cardinality(s) = n + 1 PROVE Sums(f, S)[s] = 0
    OBVIOUS
  <2>1. s # {}
    BY <1>1
  <2> DEFINE r == s \ {Chosen(s)}
  <2>2. Chosen(s) \in S /\ r \in SUBSET S /\ Cardinality(r) = n
    BY <2>1, SmallerRest
  <2>3. Sums(f, S)[r] = 0
    BY <2>2
  <2> QED
    BY <1>1, <2>1, <2>2, <2>3 DEF Added
<1>4. N = Nat
  <2> HIDE DEF N
  <2>1. N \in SUBSET Nat
    BY DEF N
  <2> QED
    BY <1>2, <1>3, <2>1, NatSetInduction
<1>5. Cardinality(S) \in N
  BY <1>1, <1>4
<1>6. Sums(f, S)[S] = 0
  BY <1>5
<1> QED
  BY <1>6, SumIsLast
=============================================================================
