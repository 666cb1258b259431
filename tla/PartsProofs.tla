----------------------------- MODULE PartsProofs -----------------------------
(***************************************************************************)
(* Theorems of the parts that MCSequential and MCServices run on small     *)
(* instances, here for any constants: the string hash, which implements a  *)
(* map; the statistics; the descriptors; the periodic clock; the options   *)
(* and the lists they are in; a stream; the echo test; and the log lines   *)
(* of the test runner.  The parts do not meet, nor do the theorems.        *)
(***************************************************************************)
EXTENDS AmStrHash, AmStats, AmFd, AmTime, AmOpts, Basics

CONSTANTS Length, Room, Ignores, Blocking, Signals, \* of the stream
          Clients, Requests,                        \* of the echo test
          Buffers, LogLines, Tests, Anchor          \* of the log lines

VARIABLES pipe, got, io, offset, setting, signals,  \* of the stream
          type, srv, sthr, main, net, missed,       \* of the echo test
          queue, list, sink, slept, logger, run, keep, shown  \* of the log lines

Stream == INSTANCE AmStream
Echo == INSTANCE EchoTest
Log == INSTANCE TestLog WITH Lines <- LogLines

-----------------------------------------------------------------------------
(* The elements of a list at some positions, and a list turned around.      *)
LEMMA PickedIs ==
  ASSUME NEW S, NEW s \in Seq(S), NEW P \in SUBSET DOMAIN s
  PROVE  /\ Picked(s, P) \in Seq(S) /\ Range(Picked(s, P)) = {s[i] : i \in P}
         /\ IsInjective(s) => IsInjective(Picked(s, P))
<1> DEFINE n == Cardinality(P)
           rank(i) == Cardinality({j \in P : j <= i})
           at(k) == CHOOSE i \in P : rank(i) = k
<1>1. DOMAIN s = 1 .. Len(s) /\ Len(s) \in Nat /\ P \subseteq Nat
  OBVIOUS
<1>2. IsFiniteSet(P) /\ n \in Nat
  <2>1. IsFiniteSet(1 .. Len(s)) /\ P \in SUBSET (1 .. Len(s))
    BY <1>1, FS_Interval
  <2> QED
    BY <2>1, FS_Subset, FS_CardinalityType
<1>3. ASSUME NEW i \in P PROVE rank(i) \in 1 .. n
  <2> DEFINE L == {j \in P : j <= i}
  <2>1. L \in SUBSET P /\ i \in L
    BY <1>1
  <2> HIDE DEF L
  <2>2. IsFiniteSet(L) /\ Cardinality(L) \in Nat /\ Cardinality(L) <= n /\ Cardinality(L) # 0
    BY <1>2, <2>1, FS_Subset, FS_CardinalityType, FS_EmptySet
  <2>3. Cardinality(L) \in 1 .. n
    BY <1>2, <2>2
  <2> QED
    BY <2>3 DEF L
<1>4. ASSUME NEW i \in P, NEW j \in P, i < j PROVE rank(i) # rank(j)
  <2> DEFINE K == {k \in P : k <= i}
             L == {k \in P : k <= j}
  <2>1. K \in SUBSET L /\ L \in SUBSET P /\ j \in L /\ j \notin K
    BY <1>1, <1>4
  <2> HIDE DEF K, L
  <2>2. IsFiniteSet(L)
    BY <1>2, <2>1, FS_Subset
  <2>3. Cardinality(K) # Cardinality(L)
    BY <2>1, <2>2, FS_Subset
  <2> QED
    BY <2>3 DEF K, L
<1> HIDE DEF rank
<1>5. ASSUME NEW i \in P, NEW j \in P, rank(i) = rank(j) PROVE i = j
  BY <1>1, <1>4, <1>5
<1>6. ASSUME NEW k \in 1 .. n PROVE \E i \in P : rank(i) = k
  <2> DEFINE f == [i \in P |-> rank(i)]
             R == Range(f)
  <2>1. f \in Bijection(P, R)
    BY <1>5 DEF Bijection, Injection, Surjection, IsInjective, Range
  <2>2. R \in SUBSET (1 .. n)
    BY <1>3 DEF Range
  <2>3. ExistsBijection(P, R)
    BY <2>1 DEF ExistsBijection
  <2>4. IsFiniteSet(1 .. n) /\ Cardinality(1 .. n) = n
    BY <1>2, FS_Interval
  <2>5. \A x \in R : \E i \in P : rank(i) = x
    BY DEF Range
  <2> HIDE DEF R
  <2>6. IsFiniteSet(R)
    BY <2>2, <2>4, FS_Subset
  <2>7. Cardinality(R) = Cardinality(1 .. n)
    BY <1>2, <2>3, <2>4, <2>6, FS_Bijection
  <2>8. R = 1 .. n
    BY <2>2, <2>4, <2>7, FS_Subset
  <2> QED
    BY <2>5, <2>8
<1>7. \A k \in 1 .. n : at(k) \in P /\ rank(at(k)) = k
  BY <1>6
<1>8. \A i \in P : at(rank(i)) = i
  BY <1>3, <1>5, <1>7
<1> DEFINE r == Picked(s, P)
<1>9. r = [k \in 1 .. n |-> s[at(k)]]
  BY DEF Picked, rank
<1> HIDE DEF at, r
<1>10. r \in [1 .. n -> S] /\ DOMAIN r = 1 .. n /\ \A k \in 1 .. n : r[k] = s[at(k)]
  BY <1>1, <1>7, <1>9
<1>11. r \in Seq(S)
  BY <1>2, <1>10
<1>12. Range(r) = {s[i] : i \in P}
  <2>1. ASSUME NEW i \in P PROVE s[i] \in Range(r)
    <3>1. rank(i) \in 1 .. n /\ at(rank(i)) = i
      BY <1>3, <1>8
    <3> QED
      BY <1>10, <3>1 DEF Range
  <2>2. ASSUME NEW x \in Range(r) PROVE \E i \in P : x = s[i]
    BY <1>7, <1>10 DEF Range
  <2> QED
    BY <2>1, <2>2
<1>13. ASSUME IsInjective(s) PROVE IsInjective(r)
  <2>1. \A i, j \in P : s[i] = s[j] => i = j
    BY <1>13 DEF IsInjective
  <2>2. ASSUME NEW k \in 1 .. n, NEW l \in 1 .. n, r[k] = r[l] PROVE k = l
    <3>1. at(k) = at(l)
      BY <1>7, <1>10, <2>1, <2>2
    <3> QED
      BY <1>7, <3>1
  <2> QED
    BY <1>10, <2>2 DEF IsInjective
<1> QED
  BY <1>11, <1>12, <1>13 DEF r

LEMMA ReverseIs ==
  ASSUME NEW S, NEW s \in Seq(S)
  PROVE  /\ Reverse(s) \in Seq(S) /\ Range(Reverse(s)) = Range(s)
         /\ IsInjective(s) => IsInjective(Reverse(s))
<1> DEFINE n == Len(s)
           r == Reverse(s)
<1>1. n \in Nat /\ DOMAIN s = 1 .. n /\ \A i \in 1 .. n : s[i] \in S
  OBVIOUS
<1>2. r = [i \in 1 .. n |-> s[(n - i) + 1]]
  BY DEF Reverse
<1>3. \A i \in 1 .. n : (n - i) + 1 \in 1 .. n /\ (n - ((n - i) + 1)) + 1 = i
  BY <1>1
<1> HIDE DEF r
<1>4. r \in [1 .. n -> S] /\ DOMAIN r = 1 .. n /\ \A i \in 1 .. n : r[i] = s[(n - i) + 1]
  BY <1>1, <1>2, <1>3
<1>5. r \in Seq(S)
  BY <1>1, <1>4
<1>6. Range(r) = Range(s)
  <2>1. \A i \in 1 .. n : r[i] \in Range(s)
    BY <1>1, <1>3, <1>4 DEF Range
  <2>2. ASSUME NEW i \in 1 .. n PROVE s[i] \in Range(r)
    <3>1. r[(n - i) + 1] = s[i] /\ (n - i) + 1 \in DOMAIN r
      BY <1>3, <1>4
    <3> QED
      BY <3>1 DEF Range
  <2> QED
    BY <1>1, <1>4, <2>1, <2>2 DEF Range
<1>7. ASSUME IsInjective(s) PROVE IsInjective(r)
  <2>1. ASSUME NEW i \in 1 .. n, NEW j \in 1 .. n, r[i] = r[j] PROVE i = j
    <3>1. (n - i) + 1 = (n - j) + 1
      BY <1>1, <1>3, <1>4, <1>7, <2>1 DEF IsInjective
    <3> QED
      BY <1>1, <3>1
  <2> QED
    BY <1>4, <2>1 DEF IsInjective
<1> QED
  BY <1>5, <1>6, <1>7 DEF r

LEMMA FrontLength ==
  ASSUME NEW S, NEW q \in Seq(S), NEW x \in S PROVE Len(<<x>> \o q) = Len(q) + 1
OBVIOUS

LEMMA MinIs ==
  ASSUME NEW P \in SUBSET Nat, P # {} PROVE Min(P) \in P
<1>1. \E x \in P : \A y \in P : x <= y
  BY LeastNumber
<1> QED
  BY <1>1 DEF Min

LEMMA HalfBucket ==
  ASSUME NEW c \in Nat \ {0}, NEW a \in Nat
  PROVE  /\ a % c \in 0 .. c - 1 /\ a % (2 * c) \in 0 .. 2 * c - 1
         /\ (a % (2 * c)) % c = a % c
<1> DEFINE d == 2 * c
           r == a % d
<1>1. a % c \in 0 .. c - 1
  BY Quotient
<1>2. d \in Nat \ {0} /\ \A q \in Int : d * q = c * (2 * q)
  OBVIOUS
<1> HIDE DEF d
<1>3. r \in 0 .. d - 1 /\ \E q \in Int : a = d * q + r
  <2>1. a \in Int
    OBVIOUS
  <2> QED
    BY <1>2, <2>1, Quotient
<1> HIDE DEF r
<1>4. PICK q \in Int : a = d * q + r
  BY <1>3
<1> DEFINE k == 2 * q
<1>5. k \in Int /\ d * q = c * k /\ r \in Int
  BY <1>2, <1>3
<1> HIDE DEF k
<1>6. a = r + c * k
  BY <1>4, <1>5
<1>7. a % c = r % c
  <2>1. a \in Int
    OBVIOUS
  <2> QED
    BY <1>5, <1>6, <2>1, SameRemainder
<1> QED
  BY <1>1, <1>3, <1>7 DEF d, r

LEMMA RangeEmpty == Range(<<>>) = {}
BY DEF Range

-----------------------------------------------------------------------------
(* The chains of a table.                                                   *)
LinkedIn(ch) == UNION {Range(ch[b]) : b \in DOMAIN ch}

\* cap chains with their lengths, in which each entry is where its hash says.
WellChained(cap, ch, ct, kh) ==
    /\ cap \in Nat \ {0}
    /\ ch \in [0 .. cap - 1 -> Seq(Entries)] /\ ct \in [0 .. cap - 1 -> Nat]
    /\ \A b \in 0 .. cap - 1 :
        /\ ct[b] = Len(ch[b]) /\ IsInjective(ch[b])
        /\ \A e \in Range(ch[b]) : kh[e] % cap = b

LEMMA LengthIs ==
  ASSUME NEW S, NEW q \in Seq(S), IsInjective(q)
  PROVE  IsFiniteSet(Range(q)) /\ Len(q) = Cardinality(Range(q)) /\ Len(q) \in Nat
<1>1. DOMAIN q = 1 .. Len(q) /\ Len(q) \in Nat
  OBVIOUS
<1>2. q \in Bijection(1 .. Len(q), Range(q))
  BY <1>1 DEF Bijection, Injection, Surjection, IsInjective, Range
<1>3. ExistsBijection(1 .. Len(q), Range(q))
  BY <1>2 DEF ExistsBijection
<1>4. IsFiniteSet(1 .. Len(q)) /\ Cardinality(1 .. Len(q)) = Len(q)
  BY <1>1, FS_Interval
<1>5. q \in Surjection(1 .. Len(q), Range(q))
  BY <1>2 DEF Bijection
<1>6. IsFiniteSet(Range(q))
  BY <1>4, <1>5, FS_Surjection
<1> QED
  BY <1>1, <1>3, <1>4, <1>6, FS_Bijection

LEMMA ChainOf ==
  ASSUME NEW cap, NEW ch, NEW ct, NEW kh \in [Entries -> Nat], WellChained(cap, ch, ct, kh),
         NEW e \in LinkedIn(ch)
  PROVE  /\ e \in Entries /\ kh[e] % cap \in 0 .. cap - 1 /\ e \in Range(ch[kh[e] % cap])
         /\ \A b \in 0 .. cap - 1 : e \in Range(ch[b]) => b = kh[e] % cap
<1>1. DOMAIN ch = 0 .. cap - 1
  BY DEF WellChained
<1>2. PICK b \in 0 .. cap - 1 : e \in Range(ch[b])
  BY <1>1 DEF LinkedIn
<1>3. ch[b] \in Seq(Entries) /\ kh[e] % cap = b
  BY <1>2 DEF WellChained
<1>4. e \in Entries
  BY <1>2, <1>3, RangeInside
<1> QED
  BY <1>2, <1>3, <1>4 DEF WellChained

\* What an insertion and a removal do to the chains and their lengths.
Put(ch, b, e) == [ch EXCEPT ![b] = <<e>> \o @]
Bump(ct, b) == [ct EXCEPT ![b] = @ + 1]
Without(cap, ch, e) ==
    [c \in 0 .. cap - 1 |-> Picked(ch[c], {i \in DOMAIN ch[c] : ch[c][i] # e})]
Drop(ct, b) == [ct EXCEPT ![b] = @ - 1]

LEMMA InsertChain ==
  ASSUME NEW cap, NEW ch, NEW ct, NEW kh \in [Entries -> Nat], WellChained(cap, ch, ct, kh),
         NEW e \in Entries, e \notin LinkedIn(ch), NEW h \in Nat,
         NEW ch2, ch2 = Put(ch, h % cap, e), NEW ct2, ct2 = Bump(ct, h % cap),
         NEW kh2, kh2[e] = h, \A x \in Entries \ {e} : kh2[x] = kh[x]
  PROVE  WellChained(cap, ch2, ct2, kh2) /\ LinkedIn(ch2) = LinkedIn(ch) \cup {e}
<1> DEFINE b == h % cap
<1>1. /\ cap \in Nat \ {0} /\ ch \in [0 .. cap - 1 -> Seq(Entries)]
      /\ ct \in [0 .. cap - 1 -> Nat]
  BY DEF WellChained
<1>2. b \in 0 .. cap - 1
  BY <1>1, HalfBucket
<1>3. /\ \A c \in 0 .. cap - 1 : e \notin Range(ch[c])
      /\ \A c \in 0 .. cap - 1 : \A x \in Range(ch[c]) : x \in Entries /\ kh2[x] = kh[x]
  <2>1. \A c \in 0 .. cap - 1 : e \notin Range(ch[c])
    BY <1>1 DEF LinkedIn
  <2>2. \A c \in 0 .. cap - 1 : Range(ch[c]) \subseteq Entries
    BY <1>1, RangeInside
  <2> QED
    BY <2>1, <2>2
<1>4. kh2[e] % cap = b
  OBVIOUS
<1> DEFINE q == ch[b]
           r == <<e>> \o q
<1>5. q \in Seq(Entries) /\ IsInjective(q) /\ ct[b] = Len(q) /\ e \notin Range(q)
  BY <1>1, <1>2, <1>3 DEF WellChained
<1>6. r \in Seq(Entries) /\ Range(r) = Range(q) \cup {e} /\ IsInjective(r) /\ Len(r) = Len(q) + 1
  BY <1>5, RangeFront, FrontLength
<1> HIDE DEF b
<1>7. /\ ch2 \in [0 .. cap - 1 -> Seq(Entries)] /\ ch2[b] = r
      /\ \A c \in (0 .. cap - 1) \ {b} : ch2[c] = ch[c]
  <2> HIDE DEF r
  <2>1. ch2 = [ch EXCEPT ![b] = r]
    BY DEF b, q, r, Put
  <2> QED
    BY <1>1, <1>2, <1>6, <2>1
<1>8. /\ ct2 \in [0 .. cap - 1 -> Nat] /\ ct2[b] = ct[b] + 1
      /\ \A c \in (0 .. cap - 1) \ {b} : ct2[c] = ct[c]
  BY <1>1, <1>2 DEF b, Bump
<1> HIDE DEF r, q
<1>9. ASSUME NEW c \in 0 .. cap - 1
      PROVE  /\ ct2[c] = Len(ch2[c]) /\ IsInjective(ch2[c])
             /\ \A x \in Range(ch2[c]) : kh2[x] % cap = c
  <2>1. CASE c = b
    <3>1. \A x \in Range(q) : kh[x] % cap = b
      BY <1>2 DEF WellChained, q
    <3>2. ct2[c] = Len(ch2[c]) /\ IsInjective(ch2[c]) /\ Range(ch2[c]) = Range(q) \cup {e}
      BY <1>5, <1>6, <1>7, <1>8, <2>1
    <3>3. \A x \in Range(q) : kh2[x] = kh[x]
      BY <1>2, <1>3 DEF q
    <3> QED
      BY <1>4, <2>1, <3>1, <3>2, <3>3
  <2>2. CASE c # b
    <3>1. ch2[c] = ch[c] /\ ct2[c] = ct[c]
      BY <1>7, <1>8, <2>2
    <3> QED
      BY <1>3, <3>1 DEF WellChained
  <2> QED
    BY <2>1, <2>2
<1>10. LinkedIn(ch2) = LinkedIn(ch) \cup {e}
  <2>1. DOMAIN ch = 0 .. cap - 1 /\ DOMAIN ch2 = 0 .. cap - 1
    BY <1>1, <1>7
  <2>2. Range(ch2[b]) = Range(ch[b]) \cup {e}
    BY <1>6, <1>7 DEF q
  <2>3. \A c \in (0 .. cap - 1) \ {b} : Range(ch2[c]) = Range(ch[c])
    BY <1>7
  <2> DEFINE R(c) == Range(ch[c])
             R2(c) == Range(ch2[c])
  <2>4. /\ LinkedIn(ch) = UNION {R(c) : c \in 0 .. cap - 1}
        /\ LinkedIn(ch2) = UNION {R2(c) : c \in 0 .. cap - 1}
    BY <2>1 DEF LinkedIn
  <2>5. R2(b) = R(b) \cup {e} /\ \A c \in (0 .. cap - 1) \ {b} : R2(c) = R(c)
    BY <2>2, <2>3
  <2> HIDE DEF R, R2
  <2>6. ASSUME NEW x PROVE x \in LinkedIn(ch2) <=> x \in LinkedIn(ch) \cup {e}
    BY <1>2, <2>4, <2>5
  <2> QED
    BY <2>6
<1> QED
  BY <1>1, <1>7, <1>8, <1>9, <1>10 DEF WellChained

LEMMA RemoveChain ==
  ASSUME NEW cap, NEW ch, NEW ct, NEW kh \in [Entries -> Nat], WellChained(cap, ch, ct, kh),
         NEW e \in LinkedIn(ch),
         NEW ch2, ch2 = Without(cap, ch, e), NEW ct2, ct2 = Drop(ct, kh[e] % cap),
         NEW kh2, \A x \in Entries \ {e} : kh2[x] = kh[x]
  PROVE  WellChained(cap, ch2, ct2, kh2) /\ LinkedIn(ch2) = LinkedIn(ch) \ {e}
<1> DEFINE b == kh[e] % cap
<1>1. /\ cap \in Nat \ {0} /\ ch \in [0 .. cap - 1 -> Seq(Entries)]
      /\ ct \in [0 .. cap - 1 -> Nat]
  BY DEF WellChained
<1>2. /\ b \in 0 .. cap - 1 /\ e \in Range(ch[b])
      /\ \A c \in 0 .. cap - 1 : e \in Range(ch[c]) => c = b
  BY ChainOf
<1> HIDE DEF b
<1>3. ASSUME NEW c \in 0 .. cap - 1
      PROVE  /\ ch2[c] \in Seq(Entries) /\ IsInjective(ch2[c])
             /\ Range(ch2[c]) = Range(ch[c]) \ {e}
  <2> DEFINE q == ch[c]
             P == {i \in DOMAIN q : q[i] # e}
  <2>1. q \in Seq(Entries) /\ IsInjective(q) /\ P \in SUBSET DOMAIN q
    BY <1>1 DEF WellChained
  <2>2. ch2[c] = Picked(q, P)
    BY DEF Without
  <2>3. {q[i] : i \in P} = Range(q) \ {e}
    BY DEF Range
  <2> DEFINE r == Picked(q, P)
  <2> HIDE DEF q, P
  <2>4. r \in Seq(Entries) /\ Range(r) = {q[i] : i \in P} /\ IsInjective(r)
    BY <2>1, PickedIs
  <2>5. ch2[c] = r
    BY <2>2
  <2> HIDE DEF r
  <2>6. Range(r) = Range(q) \ {e}
    BY <2>3, <2>4
  <2>7. Range(ch2[c]) = Range(ch[c]) \ {e}
    BY <2>5, <2>6 DEF q
  <2> QED
    BY <2>4, <2>5, <2>7
<1>4. ch2 \in [0 .. cap - 1 -> Seq(Entries)]
  BY <1>3 DEF Without
<1>5. ASSUME NEW c \in 0 .. cap - 1
      PROVE  Len(ch2[c]) = IF c = b THEN Len(ch[c]) - 1 ELSE Len(ch[c])
  <2>1. /\ Len(ch[c]) = Cardinality(Range(ch[c])) /\ IsFiniteSet(Range(ch[c]))
        /\ Len(ch2[c]) = Cardinality(Range(ch2[c]))
    BY <1>1, <1>3, LengthIs DEF WellChained
  <2>2. CASE c = b
    BY <1>2, <1>3, <2>1, <2>2, FS_RemoveElement
  <2>3. CASE c # b
    <3> DEFINE R == Range(ch[c])
               R2 == Range(ch2[c])
    <3>2. R2 = R \ {e} /\ e \notin R
      BY <1>2, <1>3, <2>3
    <3> HIDE DEF R, R2
    <3>3. R2 = R
      BY <3>2
    <3>1. Range(ch2[c]) = Range(ch[c])
      BY <3>3 DEF R, R2
    <3> QED
      BY <2>1, <2>3, <3>1
  <2> QED
    BY <2>2, <2>3
<1>6. \A c \in 0 .. cap - 1 : ct2[c] = IF c = b THEN ct[c] - 1 ELSE ct[c]
  BY <1>1, <1>2 DEF b, Drop
<1>7. DOMAIN ct2 = 0 .. cap - 1 /\ ct2 = [c \in 0 .. cap - 1 |-> ct2[c]]
  BY <1>1 DEF Drop
<1>8. \A c \in 0 .. cap - 1 : ct2[c] = Len(ch2[c]) /\ ct2[c] \in Nat
  <2>1. \A c \in 0 .. cap - 1 : ct[c] = Len(ch[c]) /\ Len(ch2[c]) \in Nat
    BY <1>3 DEF WellChained
  <2> QED
    BY <1>5, <1>6, <2>1
<1>9. ct2 \in [0 .. cap - 1 -> Nat]
  BY <1>7, <1>8
<1>10. ASSUME NEW c \in 0 .. cap - 1, NEW x \in Range(ch2[c]) PROVE kh2[x] % cap = c
  <2>1. x \in Range(ch[c]) /\ x # e /\ Range(ch[c]) \subseteq Entries
    BY <1>1, <1>3, <1>10, RangeInside
  <2> QED
    BY <2>1 DEF WellChained
<1>11. LinkedIn(ch2) = LinkedIn(ch) \ {e}
  <2>1. DOMAIN ch = 0 .. cap - 1 /\ DOMAIN ch2 = 0 .. cap - 1
    BY <1>1, <1>4
  <2> DEFINE R(c) == Range(ch[c])
             R2(c) == Range(ch2[c])
  <2>2. /\ LinkedIn(ch) = UNION {R(c) : c \in 0 .. cap - 1}
        /\ LinkedIn(ch2) = UNION {R2(c) : c \in 0 .. cap - 1}
    BY <2>1 DEF LinkedIn
  <2>3. \A c \in 0 .. cap - 1 : R2(c) = R(c) \ {e}
    BY <1>3
  <2> HIDE DEF R, R2
  <2>4. ASSUME NEW x \in LinkedIn(ch2) PROVE x \in LinkedIn(ch) /\ x # e
    <3>1. PICK c \in 0 .. cap - 1 : x \in R2(c)
      BY <2>2
    <3>2. x \in R(c) /\ x # e
      BY <2>3, <3>1
    <3> QED
      BY <2>2, <3>2
  <2>5. ASSUME NEW x \in LinkedIn(ch), x # e PROVE x \in LinkedIn(ch2)
    <3>1. PICK c \in 0 .. cap - 1 : x \in R(c)
      BY <2>2
    <3>2. x \in R2(c)
      BY <2>3, <2>5, <3>1
    <3> QED
      BY <2>2, <3>2
  <2> QED
    BY <2>4, <2>5
<1> QED
  BY <1>1, <1>3, <1>4, <1>8, <1>9, <1>10, <1>11 DEF WellChained

\* The chains of a table after a resize.
Split(cap, ch, kh) ==
    [b \in 0 .. 2 * cap - 1 |->
        Reverse(Picked(ch[b % cap], {i \in DOMAIN ch[b % cap] :
                                        kh[ch[b % cap][i]] % (2 * cap) = b}))]

LEMMA UpsizeChain ==
  ASSUME NEW cap, NEW ch, NEW ct, NEW kh \in [Entries -> Nat], WellChained(cap, ch, ct, kh),
         NEW ch2, ch2 = Split(cap, ch, kh),
         NEW ct2, ct2 = [b \in DOMAIN ch2 |-> Len(ch2[b])]
  PROVE  WellChained(2 * cap, ch2, ct2, kh) /\ LinkedIn(ch2) = LinkedIn(ch)
<1> DEFINE d == 2 * cap
<1>1. /\ cap \in Nat \ {0} /\ ch \in [0 .. cap - 1 -> Seq(Entries)]
      /\ d \in Nat \ {0} /\ 0 .. d - 1 \subseteq Nat
  BY DEF WellChained
<1>2. /\ DOMAIN ch2 = 0 .. d - 1 /\ ch2 = [b \in 0 .. d - 1 |-> ch2[b]]
      /\ ct2 = [b \in 0 .. d - 1 |-> Len(ch2[b])]
  BY DEF Split
<1>3. ASSUME NEW b \in 0 .. d - 1
      PROVE  /\ ch2[b] \in Seq(Entries) /\ IsInjective(ch2[b])
             /\ Range(ch2[b]) = {e \in Range(ch[b % cap]) : kh[e] % d = b}
             /\ b % cap \in 0 .. cap - 1
  <2> DEFINE c == b % cap
             q == ch[c]
             P == {i \in DOMAIN q : kh[q[i]] % d = b}
             r == Picked(q, P)
             t == Reverse(r)
  <2>1. ch2[b] = t
    BY DEF Split
  <2>2. c \in 0 .. cap - 1
    BY <1>1, HalfBucket
  <2> HIDE DEF c, t
  <2>3. q \in Seq(Entries) /\ IsInjective(q) /\ P \in SUBSET DOMAIN q
    BY <1>1, <2>2 DEF WellChained
  <2>4. {q[i] : i \in P} = {e \in Range(q) : kh[e] % d = b}
    BY DEF Range
  <2> HIDE DEF q, P, d
  <2>5. r \in Seq(Entries) /\ Range(r) = {q[i] : i \in P} /\ IsInjective(r)
    BY <2>3, PickedIs
  <2> HIDE DEF r
  <2>6. t \in Seq(Entries) /\ Range(t) = Range(r) /\ IsInjective(t)
    BY <2>5, ReverseIs DEF t
  <2>7. Range(t) = {e \in Range(ch[c]) : kh[e] % d = b}
    BY <2>4, <2>5, <2>6 DEF q
  <2> QED
    BY <2>1, <2>2, <2>6, <2>7 DEF c
<1>4. ch2 \in [0 .. d - 1 -> Seq(Entries)]
  BY <1>2, <1>3
<1>5. ct2 \in [0 .. d - 1 -> Nat] /\ \A b \in 0 .. d - 1 : ct2[b] = Len(ch2[b])
  BY <1>2, <1>3
<1>6. ASSUME NEW e \in LinkedIn(ch2) PROVE e \in LinkedIn(ch)
  <2>1. PICK b \in 0 .. d - 1 : e \in Range(ch2[b])
    BY <1>2 DEF LinkedIn
  <2>2. e \in Range(ch[b % cap]) /\ b % cap \in 0 .. cap - 1
    BY <1>3, <2>1
  <2>3. DOMAIN ch = 0 .. cap - 1
    BY <1>1
  <2> QED
    BY <2>2, <2>3 DEF LinkedIn
<1>7. ASSUME NEW e \in LinkedIn(ch) PROVE e \in LinkedIn(ch2)
  <2>1. e \in Entries /\ e \in Range(ch[kh[e] % cap])
    BY ChainOf
  <2>2. kh[e] \in Nat
    BY <2>1
  <2>3. kh[e] % d \in 0 .. d - 1 /\ (kh[e] % d) % cap = kh[e] % cap
    BY <1>1, <2>2, HalfBucket
  <2>4. e \in Range(ch2[kh[e] % d])
    BY <1>3, <2>1, <2>3
  <2> QED
    BY <1>2, <2>3, <2>4 DEF LinkedIn
<1>8. \A b \in 0 .. d - 1 : \A e \in Range(ch2[b]) : kh[e] % d = b
  BY <1>3
<1> QED
  BY <1>1, <1>3, <1>4, <1>5, <1>6, <1>7, <1>8 DEF WellChained

-----------------------------------------------------------------------------
(* The inductive invariant.                                                 *)

\* The attributes and the fields have their types; an entry in use has a value
\* and the hash of a key.
Typed ==
    /\ flags \in FlagSets /\ percent \in Percents /\ threshold \in Thresholds
    /\ key_hash \in [Entries -> Nat] /\ value \in [Entries -> Values \cup {NULL}]
    /\ spare \in Seq(Entries) /\ outside \subseteq Values
    /\ \A e \in Linked : value[e] \in Values /\ key_hash[e] \in Hashes

Chained == WellChained(capacity, chain, count, key_hash)

\* The counters of the table and the list of spare entries.
Counted ==
    /\ IsFiniteSet(Linked) /\ size = Cardinality(Linked)
    /\ free_size = Len(spare) /\ IsInjective(spare)
    /\ Linked \cap Range(spare) = {}
    /\ dups = IF "DUP_KEYS" \in flags THEN size ELSE 0

\* A key is in the table once.
KeyOnce == \A e, f \in Linked : key_hash[e] = key_hash[f] => e = f

IInv == Typed /\ Chained /\ Counted /\ KeyOnce /\ ValuesConserved

LEMMA LinkedIs == Chained => Linked = LinkedIn(chain)
BY DEF Chained, WellChained, Linked, LinkedIn, Buckets

LEMMA BookkeepingHolds == IInv => TableSound
<1> SUFFICES ASSUME IInv PROVE TableSound
  OBVIOUS
<1>1. /\ chain \in [Buckets -> Seq(Entries)] /\ capacity \in Nat \ {0}
      /\ \A b \in Buckets : /\ count[b] = Len(chain[b]) /\ IsInjective(chain[b])
                            /\ \A e \in Range(chain[b]) : key_hash[e] % capacity = b
  BY DEF IInv, Chained, WellChained, Buckets
<1>2. ASSUME NEW b \in Buckets, NEW i \in 1 .. Len(chain[b])
      PROVE  BucketOf(key_hash[chain[b][i]]) = b
  <2>1. chain[b] \in Seq(Entries)
    BY <1>1
  <2>2. chain[b][i] \in Range(chain[b])
    BY <2>1 DEF Range
  <2> QED
    BY <1>1, <2>2 DEF BucketOf
<1> QED
  BY <1>1, <1>2 DEF IInv, Counted, TableSound, Bookkeeping

\* A lookup finds the entry of its key, if it is in the table.
LEMMA FoundIs ==
  IInv => \A h \in Hashes :
    /\ Found(h) # NULL => Found(h) \in Linked /\ key_hash[Found(h)] = h
    /\ \A e \in Linked : key_hash[e] = h => Found(h) = e
<1> SUFFICES ASSUME IInv, NEW h \in Hashes
             PROVE  /\ Found(h) # NULL => Found(h) \in Linked /\ key_hash[Found(h)] = h
                    /\ \A e \in Linked : key_hash[e] = h => Found(h) = e
  OBVIOUS
<1> DEFINE q == chain[BucketOf(h)]
           M == {i \in DOMAIN q : key_hash[q[i]] = h}
<1>1. /\ capacity \in Nat \ {0} /\ chain \in [Buckets -> Seq(Entries)] /\ h \in Nat
      /\ WellChained(capacity, chain, count, key_hash) /\ key_hash \in [Entries -> Nat]
      /\ Linked = LinkedIn(chain)
  BY InitAssumption, LinkedIs DEF IInv, Typed, Chained, WellChained, Buckets
<1>2. BucketOf(h) \in Buckets
  BY <1>1, HalfBucket DEF BucketOf, Buckets
<1>3. q \in Seq(Entries) /\ M \in SUBSET Nat
  <2>1. q \in Seq(Entries)
    BY <1>1, <1>2
  <2> QED
    BY <2>1
<1>4. \A i \in M : i \in DOMAIN q /\ q[i] \in Entries /\ q[i] \in Linked /\ key_hash[q[i]] = h
  <2>1. ASSUME NEW i \in DOMAIN q PROVE q[i] \in Entries /\ q[i] \in Linked
    <3>1. q[i] \in Range(q)
      BY DEF Range
    <3> QED
      BY <1>2, <1>3, <3>1, RangeInside DEF Linked
  <2> QED
    BY <2>1
<1>5. Found(h) = IF M = {} THEN NULL ELSE q[Min(M)]
  BY DEF Found
<1>6. \A i \in M : q[i] # NULL
  BY <1>4, NamesAssumption
<1>7. ASSUME NEW e \in Linked, key_hash[e] = h PROVE \E i \in M : q[i] = e
  <2>1. e \in Range(chain[key_hash[e] % capacity])
    BY <1>1, ChainOf
  <2>2. e \in Range(q)
    BY <1>7, <2>1 DEF BucketOf
  <2> QED
    BY <1>7, <2>2 DEF Range
<1> HIDE DEF q, M
<1>8. M # {} => Min(M) \in M
  BY <1>3, MinIs
<1>9. ASSUME NEW e \in Linked, key_hash[e] = h PROVE Found(h) = e
  <2>1. M # {}
    BY <1>7, <1>9
  <2>2. Found(h) = q[Min(M)] /\ q[Min(M)] \in Linked /\ key_hash[q[Min(M)]] = h
    BY <1>4, <1>5, <1>8, <2>1
  <2> QED
    BY <1>9, <2>2 DEF IInv, KeyOnce
<1>10. Found(h) # NULL => Found(h) \in Linked /\ key_hash[Found(h)] = h
  BY <1>4, <1>5, <1>8
<1> QED
  BY <1>9, <1>10

LEMMA SpareIs ==
  IInv => Linked \subseteq Entries /\ NULL \notin Linked /\ IsFiniteSet(Linked)
<1> SUFFICES ASSUME IInv PROVE Linked \subseteq Entries
  BY NamesAssumption DEF IInv, Counted
<1>1. WellChained(capacity, chain, count, key_hash) /\ key_hash \in [Entries -> Nat]
  BY DEF IInv, Typed, Chained
<1>2. Linked = LinkedIn(chain)
  BY LinkedIs DEF IInv
<1> QED
  BY <1>1, <1>2, ChainOf

LEMMA UpsizeIs ==
  IInv => \A h \in Hashes :
    /\ WellChained(Upsize(h).capacity, Upsize(h).chain, Upsize(h).count, key_hash)
    /\ LinkedIn(Upsize(h).chain) = Linked
<1> SUFFICES ASSUME IInv, NEW h \in Hashes
             PROVE  /\ WellChained(Upsize(h).capacity, Upsize(h).chain, Upsize(h).count, key_hash)
                    /\ LinkedIn(Upsize(h).chain) = Linked
  OBVIOUS
<1>1. /\ WellChained(capacity, chain, count, key_hash) /\ key_hash \in [Entries -> Nat]
      /\ Linked = LinkedIn(chain)
  BY LinkedIs DEF IInv, Typed, Chained
<1>2. CASE ~ShouldResize(h)
  <2>1. /\ Upsize(h).capacity = capacity /\ Upsize(h).chain = chain
        /\ Upsize(h).count = count
    BY <1>2 DEF Upsize
  <2> QED
    BY <1>1, <2>1
<1>3. CASE ShouldResize(h)
  <2> DEFINE ct2 == [b \in DOMAIN Upsized |-> Len(Upsized[b])]
  <2>1. /\ Upsize(h).capacity = 2 * capacity /\ Upsize(h).chain = Upsized
        /\ Upsize(h).count = ct2
    BY <1>3 DEF Upsize
  <2>2. Upsized = Split(capacity, chain, key_hash)
    BY DEF Upsized, Split
  <2>3. ct2 = [b \in DOMAIN Upsized |-> Len(Upsized[b])]
    OBVIOUS
  <2> HIDE DEF ct2
  <2>4. WellChained(2 * capacity, Upsized, ct2, key_hash) /\ LinkedIn(Upsized) = LinkedIn(chain)
    BY <1>1, <2>2, <2>3, UpsizeChain
  <2> QED
    BY <1>1, <2>1, <2>4
<1> QED
  BY <1>2, <1>3

LEMMA InitInv == Init => IInv
<1> SUFFICES ASSUME Init PROVE IInv
  OBVIOUS
<1>1. capacity \in Nat \ {0} /\ Buckets = 0 .. capacity - 1
  BY InitAssumption DEF Init, Buckets
<1>2. DOMAIN chain = Buckets /\ \A b \in Buckets : chain[b] = <<>>
  BY DEF Init
<1>3. Linked = {}
  BY <1>2, RangeEmpty DEF Linked
<1>4. Chained
  <2>1. /\ chain \in [0 .. capacity - 1 -> Seq(Entries)]
        /\ count \in [0 .. capacity - 1 -> Nat]
    BY <1>1, <1>2 DEF Init
  <2>2. ASSUME NEW b \in 0 .. capacity - 1
        PROVE  /\ count[b] = Len(chain[b]) /\ IsInjective(chain[b])
               /\ \A e \in Range(chain[b]) : key_hash[e] % capacity = b
    <3>1. chain[b] = <<>> /\ count[b] = 0
      BY <1>1 DEF Init
    <3> QED
      BY <3>1, RangeEmpty DEF IsInjective
  <2> QED
    BY <1>1, <2>1, <2>2 DEF Chained, WellChained
<1>5. Typed
  BY <1>3 DEF Typed, Init
<1>6. Counted
  BY <1>3, FS_EmptySet, RangeEmpty DEF Counted, Init, IsInjective
<1>7. KeyOnce /\ ValuesConserved
  BY <1>3 DEF KeyOnce, ValuesConserved, Init
<1> QED
  BY <1>4, <1>5, <1>6, <1>7 DEF IInv

SameEntries ==
    /\ Linked' = Linked
    /\ \A e \in Linked : key_hash'[e] = key_hash[e] /\ value'[e] = value[e]

\* The calls that change nothing.
LEMMA SameTable ==
  ASSUME IInv, UNCHANGED <<flags, percent, threshold, table, outside>>
  PROVE  IInv' /\ SameEntries
<1>1. Linked' = Linked
  BY DEF Linked, Buckets, table
<1> QED
  BY <1>1 DEF IInv, Typed, Chained, Counted, KeyOnce, ValuesConserved, SameEntries, table

\* The value of an entry is another one.
LEMMA NewValue ==
  ASSUME IInv, NEW h \in Hashes, NEW v \in outside, Found(h) # NULL,
         value' = [value EXCEPT ![Found(h)] = v],
         outside' = (outside \ {v}) \cup {value[Found(h)]},
         UNCHANGED <<flags, percent, threshold, capacity, size, chain, count, key_hash,
                     spare, free_size, dups>>
  PROVE  /\ IInv' /\ Linked' = Linked
         /\ value'[Found(h)] = v /\ \A f \in Linked \ {Found(h)} : value'[f] = value[f]
<1> DEFINE e == Found(h)
<1>1. e \in Linked
  BY FoundIs
<1> HIDE DEF e
<1>2. Linked' = Linked /\ Linked \subseteq Entries
  BY SpareIs DEF Linked, Buckets
<1>3. Chained' /\ Counted' /\ KeyOnce'
  BY <1>2 DEF IInv, Chained, Counted, KeyOnce
<1>4. /\ outside = Values \ {value[f] : f \in Linked} /\ v \in Values
      /\ \A f, g \in Linked : value[f] = value[g] => f = g
      /\ \A f \in Linked : value[f] \in Values
  BY DEF IInv, Typed, ValuesConserved
<1>5. /\ value'[e] = v /\ \A f \in Linked \ {e} : value'[f] = value[f]
      /\ value' \in [Entries -> Values \cup {NULL}]
      /\ outside' = (outside \ {v}) \cup {value[e]}
  BY <1>1, <1>2, <1>4 DEF IInv, Typed, e
<1>6. Typed'
  BY <1>1, <1>2, <1>4, <1>5 DEF IInv, Typed
<1>7. \A f, g \in Linked : value'[f] = value'[g] => f = g
  BY <1>1, <1>4, <1>5
<1>8. outside' = Values \ {value'[f] : f \in Linked}
  BY <1>1, <1>4, <1>5
<1> QED
  BY <1>2, <1>3, <1>5, <1>6, <1>7, <1>8 DEF IInv, ValuesConserved, e

\* The chains have been moved to more buckets, and nothing else has changed.
LEMMA Moved ==
  ASSUME IInv, WellChained(capacity', chain', count', key_hash), LinkedIn(chain') = Linked,
         UNCHANGED <<flags, percent, threshold, outside, size, key_hash, value, spare,
                     free_size, dups>>
  PROVE  IInv' /\ SameEntries
<1>1. Chained'
  BY DEF Chained
<1>2. Linked' = Linked
  <2>1. (Chained => Linked = LinkedIn(chain))'
    BY LinkedIs, PTL
  <2> QED
    BY <1>1, <2>1
<1> QED
  BY <1>1, <1>2 DEF IInv, Typed, Counted, KeyOnce, ValuesConserved, SameEntries

\* The entry a new key gets is in no chain, and the spares are one less.
LEMMA EntryIs ==
  ASSUME IInv, spare # <<>> \/ Unallocated # {},
         NEW e, e = (IF spare # <<>> THEN Head(spare) ELSE Fresh),
         spare' = IF spare # <<>> THEN Tail(spare) ELSE spare,
         free_size' = IF spare # <<>> THEN free_size - 1 ELSE free_size
  PROVE  /\ e \in Entries /\ e \notin Linked
         /\ spare' \in Seq(Entries) /\ IsInjective(spare') /\ free_size' = Len(spare')
         /\ Range(spare') = Range(spare) \ {e}
<1>1. /\ spare \in Seq(Entries) /\ IsInjective(spare) /\ free_size = Len(spare)
      /\ Linked \cap Range(spare) = {}
  BY DEF IInv, Typed, Counted
<1>2. CASE spare # <<>>
  <2>1. /\ Head(spare) \in Entries /\ Head(spare) \in Range(spare)
        /\ Tail(spare) \in Seq(Entries) /\ Len(Tail(spare)) = Len(spare) - 1
        /\ IsInjective(Tail(spare)) /\ Range(Tail(spare)) = Range(spare) \ {Head(spare)}
    BY <1>1, <1>2, ListTail
  <2> QED
    BY <1>1, <1>2, <2>1
<1>3. CASE spare = <<>>
  <2>1. Unallocated \in SUBSET Nat /\ Unallocated # {}
    BY <1>3, NamesAssumption DEF Unallocated
  <2>2. \E x \in Unallocated : \A y \in Unallocated : x <= y
    BY <2>1, LeastNumber
  <2>3. Fresh \in Unallocated
    BY <2>2 DEF Fresh
  <2>4. e \in Entries /\ e \notin Linked /\ e \notin Range(spare)
    BY <1>3, <2>3 DEF Unallocated
  <2>5. spare' = spare /\ free_size' = free_size
    BY <1>3
  <2> QED
    BY <1>1, <2>4, <2>5
<1> QED
  BY <1>2, <1>3

LEMMA InsertNewInv ==
  ASSUME IInv, NEW h \in Hashes, NEW v \in outside, InsertNew(h, v)
  PROVE  /\ IInv'
         /\ \E e : /\ Linked' = Linked \cup {e} /\ key_hash'[e] = h /\ value'[e] = v
                  /\ \A f \in Linked : key_hash'[f] = key_hash[f] /\ value'[f] = value[f]
<1> DEFINE cap == Upsize(h).capacity
           ch == Upsize(h).chain
           ct == Upsize(h).count
           e == IF spare # <<>> THEN Head(spare) ELSE Fresh
<1>1. /\ Found(h) = NULL /\ (spare # <<>> \/ Unallocated # {})
      /\ capacity' = cap
      /\ chain' = [ch EXCEPT ![h % cap] = <<e>> \o @]
      /\ count' = [ct EXCEPT ![h % cap] = @ + 1]
      /\ key_hash' = [key_hash EXCEPT ![e] = h]
      /\ value' = [value EXCEPT ![e] = v]
      /\ size' = size + 1
      /\ spare' = IF spare # <<>> THEN Tail(spare) ELSE spare
      /\ free_size' = IF spare # <<>> THEN free_size - 1 ELSE free_size
      /\ dups' = IF "DUP_KEYS" \in flags THEN dups + 1 ELSE dups
      /\ outside' = outside \ {v}
      /\ UNCHANGED <<flags, percent, threshold>>
  BY DEF InsertNew, CallOn
<1>2. WellChained(cap, ch, ct, key_hash) /\ LinkedIn(ch) = Linked
  BY UpsizeIs
<1> HIDE DEF cap, ch, ct
<1>3. e = IF spare # <<>> THEN Head(spare) ELSE Fresh
  OBVIOUS
<1> HIDE DEF e
<1>4. /\ e \in Entries /\ e \notin Linked
      /\ spare' \in Seq(Entries) /\ IsInjective(spare') /\ free_size' = Len(spare')
      /\ Range(spare') = Range(spare) \ {e}
  BY <1>1, <1>3, EntryIs
<1>5. key_hash \in [Entries -> Nat] /\ h \in Nat
  BY InitAssumption DEF IInv, Typed
<1>6. WellChained(cap, chain', count', key_hash') /\ LinkedIn(chain') = LinkedIn(ch) \cup {e}
  <2>1. e \notin LinkedIn(ch)
    BY <1>2, <1>4
  <2>2. chain' = Put(ch, h % cap, e) /\ count' = Bump(ct, h % cap) /\ e \in Entries
    BY <1>1, <1>4 DEF Put, Bump
  <2>3. key_hash'[e] = h /\ \A x \in Entries \ {e} : key_hash'[x] = key_hash[x]
    BY <1>1, <1>4, <1>5
  <2> QED
    BY <1>2, <1>5, <2>1, <2>2, <2>3, InsertChain
<1>7. Chained'
  BY <1>1, <1>6 DEF Chained
<1>8. Linked' = Linked \cup {e}
  <2>1. (Chained => Linked = LinkedIn(chain))'
    BY LinkedIs, PTL
  <2> QED
    BY <1>2, <1>6, <1>7, <2>1
<1>9. Linked \subseteq Entries /\ IsFiniteSet(Linked)
  BY SpareIs
<1>10. /\ outside = Values \ {value[f] : f \in Linked} /\ v \in Values /\ v \in outside
       /\ value \in [Entries -> Values \cup {NULL}]
       /\ \A f, g \in Linked : value[f] = value[g] => f = g
       /\ \A f \in Linked : value[f] \in Values /\ key_hash[f] \in Hashes
       /\ \A f, g \in Linked : key_hash[f] = key_hash[g] => f = g
  BY DEF IInv, Typed, ValuesConserved, KeyOnce
<1>11. /\ value'[e] = v /\ key_hash'[e] = h
       /\ \A f \in Linked : value'[f] = value[f] /\ key_hash'[f] = key_hash[f]
       /\ key_hash' \in [Entries -> Nat] /\ value' \in [Entries -> Values \cup {NULL}]
  BY <1>1, <1>4, <1>5, <1>9, <1>10
<1>12. \A f \in Linked : key_hash[f] # h
  <2>1. \A f \in Linked : key_hash[f] = h => Found(h) = f
    BY FoundIs
  <2> QED
    BY <1>1, <2>1, SpareIs
<1>13. Typed'
  BY <1>1, <1>4, <1>8, <1>10, <1>11 DEF IInv, Typed
<1>14. KeyOnce'
  BY <1>8, <1>10, <1>11, <1>12 DEF KeyOnce
<1>15. ValuesConserved'
  <2>1. \A f \in Linked : value[f] # v
    BY <1>10
  <2>2. \A f, g \in Linked \cup {e} : value'[f] = value'[g] => f = g
    BY <1>10, <1>11, <2>1
  <2>3. outside' = Values \ {value'[f] : f \in Linked \cup {e}}
    BY <1>1, <1>10, <1>11
  <2> QED
    BY <1>8, <2>2, <2>3 DEF ValuesConserved
<1>16. Counted'
  <2>1. size = Cardinality(Linked) /\ size \in Nat
    BY <1>9, FS_CardinalityType DEF IInv, Counted
  <2>2. IsFiniteSet(Linked') /\ Cardinality(Linked') = size + 1
    BY <1>4, <1>8, <1>9, <2>1, FS_AddElement
  <2>3. Linked' \cap Range(spare') = {}
    BY <1>4, <1>8 DEF IInv, Counted
  <2>4. dups' = IF "DUP_KEYS" \in flags' THEN size' ELSE 0
    BY <1>1, <2>1 DEF IInv, Counted
  <2> QED
    BY <1>1, <1>4, <2>2, <2>3, <2>4 DEF Counted
<1> QED
  BY <1>7, <1>8, <1>11, <1>13, <1>14, <1>15, <1>16 DEF IInv

LEMMA RemoveInv ==
  ASSUME IInv, NEW e \in Linked, EntRemove(e), UNCHANGED <<flags, percent, threshold>>
  PROVE  /\ IInv' /\ Linked' = Linked \ {e}
         /\ \A f \in Linked \ {e} : key_hash'[f] = key_hash[f] /\ value'[f] = value[f]
<1>1. /\ outside' = outside \cup {value[e]}
      /\ value' = [value EXCEPT ![e] = NULL]
      /\ dups' = IF "DUP_KEYS" \in flags THEN dups - 1 ELSE dups
      /\ chain' = [c \in 0 .. capacity - 1 |->
                      Picked(chain[c], {i \in DOMAIN chain[c] : chain[c][i] # e})]
      /\ size' = size - 1
      /\ count' = [count EXCEPT ![key_hash[e] % capacity] = @ - 1]
      /\ spare' = IF free_size < FreeSize THEN <<e>> \o spare ELSE spare
      /\ free_size' = IF free_size < FreeSize THEN free_size + 1 ELSE free_size
      /\ key_hash' = IF free_size < FreeSize THEN key_hash ELSE [key_hash EXCEPT ![e] = 0]
      /\ capacity' = capacity
  BY DEF EntRemove, BucketOf, Buckets
<1>2. /\ WellChained(capacity, chain, count, key_hash) /\ key_hash \in [Entries -> Nat]
      /\ Linked = LinkedIn(chain)
  BY LinkedIs DEF IInv, Typed, Chained
<1>3. Linked \subseteq Entries /\ IsFiniteSet(Linked)
  BY SpareIs
<1>4. /\ \A f \in Entries \ {e} : key_hash'[f] = key_hash[f]
      /\ key_hash' \in [Entries -> Nat]
  BY <1>1, <1>2, <1>3
<1>5. WellChained(capacity, chain', count', key_hash') /\ LinkedIn(chain') = LinkedIn(chain) \ {e}
  <2>1. /\ chain' = Without(capacity, chain, e)
        /\ count' = Drop(count, key_hash[e] % capacity)
    BY <1>1 DEF Without, Drop
  <2>2. e \in LinkedIn(chain)
    BY <1>2
  <2> QED
    BY <1>2, <1>4, <2>1, <2>2, RemoveChain
<1>6. Chained'
  BY <1>1, <1>5 DEF Chained
<1>7. Linked' = Linked \ {e}
  <2>1. (Chained => Linked = LinkedIn(chain))'
    BY LinkedIs, PTL
  <2> QED
    BY <1>2, <1>5, <1>6, <2>1
<1>8. /\ outside = Values \ {value[f] : f \in Linked}
      /\ value \in [Entries -> Values \cup {NULL}]
      /\ \A f, g \in Linked : value[f] = value[g] => f = g
      /\ \A f \in Linked : value[f] \in Values /\ key_hash[f] \in Hashes
      /\ \A f, g \in Linked : key_hash[f] = key_hash[g] => f = g
      /\ spare \in Seq(Entries) /\ IsInjective(spare) /\ free_size = Len(spare)
      /\ Linked \cap Range(spare) = {}
  BY DEF IInv, Typed, ValuesConserved, KeyOnce, Counted
<1>9. /\ \A f \in Linked \ {e} : value'[f] = value[f] /\ key_hash'[f] = key_hash[f]
      /\ value' \in [Entries -> Values \cup {NULL}]
  BY <1>1, <1>3, <1>4, <1>8
<1>10. /\ spare' \in Seq(Entries) /\ IsInjective(spare') /\ free_size' = Len(spare')
       /\ Range(spare') \subseteq Range(spare) \cup {e}
  <2>1. /\ <<e>> \o spare \in Seq(Entries) /\ Range(<<e>> \o spare) = Range(spare) \cup {e}
        /\ IsInjective(<<e>> \o spare) /\ Len(<<e>> \o spare) = Len(spare) + 1
    BY <1>3, <1>8, RangeFront, FrontLength
  <2> QED
    BY <1>1, <1>8, <2>1
<1>11. Typed'
  BY <1>4, <1>7, <1>8, <1>9, <1>10, <1>1 DEF IInv, Typed
<1>12. KeyOnce'
  BY <1>7, <1>8, <1>9 DEF KeyOnce
<1>13. ValuesConserved'
  <2>1. \A f, g \in Linked \ {e} : value'[f] = value'[g] => f = g
    BY <1>8, <1>9
  <2>2. outside' = Values \ {value'[f] : f \in Linked \ {e}}
    BY <1>1, <1>8, <1>9
  <2> QED
    BY <1>7, <2>1, <2>2 DEF ValuesConserved
<1>14. Counted'
  <2>1. size = Cardinality(Linked) /\ size \in Nat
    BY <1>3, FS_CardinalityType DEF IInv, Counted
  <2>2. IsFiniteSet(Linked') /\ Cardinality(Linked') = size - 1
    BY <1>3, <1>7, <2>1, FS_RemoveElement
  <2>3. Linked' \cap Range(spare') = {}
    BY <1>7, <1>8, <1>10
  <2>4. dups' = IF "DUP_KEYS" \in flags' THEN size' ELSE 0
    BY <1>1, <2>1 DEF IInv, Counted
  <2> QED
    BY <1>1, <1>10, <2>2, <2>3, <2>4 DEF Counted
<1> QED
  BY <1>6, <1>7, <1>9, <1>11, <1>12, <1>13, <1>14 DEF IInv

LEMMA TermInv ==
  ASSUME IInv, Term PROVE IInv' /\ Linked' = {}
<1>1. capacity \in Nat \ {0} /\ Buckets = 0 .. capacity - 1 /\ capacity' = capacity
      /\ Buckets' = Buckets
  BY DEF IInv, Chained, WellChained, Term, Buckets
<1>2. DOMAIN chain' = Buckets /\ \A b \in Buckets : chain'[b] = <<>>
  BY DEF Term
<1>3. Linked' = {}
  BY <1>1, <1>2, RangeEmpty DEF Linked
<1>4. Chained'
  <2>1. /\ chain' \in [0 .. capacity' - 1 -> Seq(Entries)]
        /\ count' \in [0 .. capacity' - 1 -> Nat]
    BY <1>1, <1>2 DEF Term
  <2>2. ASSUME NEW b \in 0 .. capacity' - 1
        PROVE  /\ count'[b] = Len(chain'[b]) /\ IsInjective(chain'[b])
               /\ \A e \in Range(chain'[b]) : key_hash'[e] % capacity' = b
    <3>1. chain'[b] = <<>> /\ count'[b] = 0
      BY <1>1 DEF Term
    <3> QED
      BY <3>1, RangeEmpty DEF IsInjective
  <2> QED
    BY <1>1, <2>1, <2>2 DEF Chained, WellChained
<1>5. outside' = Values
  BY DEF Term, IInv, Typed, ValuesConserved
<1>6. Typed'
  BY <1>3, <1>5 DEF IInv, Typed, Term
<1>7. Counted'
  BY <1>3, FS_EmptySet, RangeEmpty DEF Counted, Term, IsInjective
<1>8. KeyOnce' /\ ValuesConserved'
  BY <1>3, <1>5 DEF KeyOnce, ValuesConserved
<1> QED
  BY <1>3, <1>4, <1>6, <1>7, <1>8 DEF IInv

LEMMA NextInv == IInv /\ [Next]_vars => IInv'
<1> SUFFICES ASSUME IInv, [Next]_vars PROVE IInv'
  OBVIOUS
<1>1. ASSUME NEW h \in Hashes, NEW v \in outside, InsertOverwrite(h, v) PROVE IInv'
  BY <1>1, NewValue DEF InsertOverwrite, CallOn
<1>2. ASSUME NEW h \in Hashes, NEW v \in outside, InsertNew(h, v) PROVE IInv'
  BY <1>2, InsertNewInv
<1>3. ASSUME NEW h \in Hashes, NEW v \in outside, SetEntValue(h, v) PROVE IInv'
  BY <1>3, NewValue DEF SetEntValue
<1>4. ASSUME NEW h \in Hashes, InsertExists(h) PROVE IInv'
  BY <1>4, SameTable DEF InsertExists, CallOn
<1>5. ASSUME NEW h \in Hashes, InsertNoMemory(h) PROVE IInv'
  <2>1. CASE UNCHANGED table
    BY <1>5, <2>1, SameTable DEF InsertNoMemory, CallOn
  <2>2. CASE /\ capacity' = Upsize(h).capacity /\ chain' = Upsize(h).chain
             /\ count' = Upsize(h).count
             /\ UNCHANGED <<size, key_hash, value, spare, free_size, dups>>
    <3>1. WellChained(capacity', chain', count', key_hash) /\ LinkedIn(chain') = Linked
      BY <2>2, UpsizeIs
    <3>2. UNCHANGED <<flags, percent, threshold, outside>>
      BY <1>5 DEF InsertNoMemory, CallOn
    <3> QED
      BY <2>2, <3>1, <3>2, Moved
  <2> QED
    BY <1>5, <2>1, <2>2 DEF InsertNoMemory
<1>6. ASSUME NEW h \in Hashes, Find(h) PROVE IInv'
  BY <1>6, SameTable DEF Find, CallOn
<1>7. ASSUME NEW h \in Hashes, RemoveEntry(h) PROVE IInv'
  <2>1. Found(h) \in Linked
    BY <1>7, FoundIs DEF RemoveEntry
  <2> QED
    BY <1>7, <2>1, RemoveInv DEF RemoveEntry, CallOn
<1>8. ASSUME NEW h \in Hashes, RemoveMissing(h) PROVE IInv'
  BY <1>8, SameTable DEF RemoveMissing
<1>9. CASE Term
  BY <1>9, TermInv
<1>10. CASE UNCHANGED vars
  BY <1>10, SameTable DEF vars
<1> QED
  BY <1>1, <1>2, <1>3, <1>4, <1>5, <1>6, <1>7, <1>8, <1>9, <1>10 DEF Next

LEMMA Invariance == Spec => []IInv
BY InitInv, NextInv, PTL DEF Spec

\* Every count of the table agrees with what it counts, each entry is in the
\* bucket of its hash, and no value is lost or in two places, for any number of
\* insertions, resizes, failed allocations, removals and reused entries
\* (amstrhash_insert, amstrhash_upsize, amstrhash_ent_remove).
THEOREM TableKept == Spec => []TableSound
<1>1. IInv => TableSound
  BY BookkeepingHolds
<1> QED
  BY <1>1, Invariance, PTL

-----------------------------------------------------------------------------
(* The table is a map.                                                      *)
LEMMA StoredIs ==
  IInv => /\ DOMAIN Stored = {key_hash[e] : e \in Linked}
          /\ Stored = [h \in DOMAIN Stored |-> Stored[h]]
          /\ \A e \in Linked : Stored[key_hash[e]] = value[e]
          /\ \A h \in Hashes : FoundValue(h) = IF h \in DOMAIN Stored THEN Stored[h] ELSE NULL
          /\ \A h \in Hashes : h \in DOMAIN Stored <=> Found(h) # NULL
<1> SUFFICES ASSUME IInv
             PROVE  /\ DOMAIN Stored = {key_hash[e] : e \in Linked}
                    /\ Stored = [h \in DOMAIN Stored |-> Stored[h]]
                    /\ \A e \in Linked : Stored[key_hash[e]] = value[e]
                    /\ \A h \in Hashes :
                         FoundValue(h) = IF h \in DOMAIN Stored THEN Stored[h] ELSE NULL
                    /\ \A h \in Hashes : h \in DOMAIN Stored <=> Found(h) # NULL
  OBVIOUS
<1>1. /\ DOMAIN Stored = {key_hash[e] : e \in Linked}
      /\ Stored = [h \in DOMAIN Stored |-> Stored[h]]
      /\ \A h \in DOMAIN Stored : Stored[h] = FoundValue(h)
  BY DEF Stored
<1>2. \A e \in Linked : key_hash[e] \in Hashes /\ e # NULL
  BY SpareIs DEF IInv, Typed
<1>3. \A h \in Hashes : /\ Found(h) # NULL => Found(h) \in Linked /\ key_hash[Found(h)] = h
                        /\ \A e \in Linked : key_hash[e] = h => Found(h) = e
  BY FoundIs
<1>4. \A h \in Hashes : h \in DOMAIN Stored <=> Found(h) # NULL
  BY <1>1, <1>2, <1>3
<1>5. \A e \in Linked : Stored[key_hash[e]] = value[e]
  BY <1>1, <1>2, <1>3 DEF FoundValue
<1>6. \A h \in Hashes : FoundValue(h) = IF h \in DOMAIN Stored THEN Stored[h] ELSE NULL
  BY <1>1, <1>4 DEF FoundValue
<1> QED
  BY <1>1, <1>4, <1>5, <1>6

LEMMA AnswerIs ==
  ASSUME IInv, NEW h \in Hashes, Answer(h) PROVE Map!Answer(h)
BY StoredIs DEF Answer, Map!Answer

\* What a map holds that has the entries of a table.
MapOf(f, l, kh, va) ==
    /\ DOMAIN f = {kh[e] : e \in l} /\ f = [h \in DOMAIN f |-> f[h]]
    /\ \A e \in l : f[kh[e]] = va[e]

LEMMA StoredMap == IInv => MapOf(Stored, Linked, key_hash, value)
BY StoredIs DEF MapOf

LEMMA StoredMapNext == ASSUME IInv' PROVE MapOf(Stored', Linked', key_hash', value')
<1>1. (IInv => MapOf(Stored, Linked, key_hash, value))'
  BY StoredMap, PTL
<1> QED
  BY <1>1

LEMMA SameStored ==
  ASSUME IInv, IInv', SameEntries PROVE Stored' = Stored
BY StoredMap, StoredMapNext DEF SameEntries, MapOf

LEMMA LookupStep ==
  ASSUME IInv, NEW h \in Hashes, IInv', SameEntries, Answer(h) PROVE Map!Next
<1>1. Map!Lookup(h)
  BY SameStored, AnswerIs DEF Map!Lookup
<1> QED
  BY <1>1 DEF Map!Next

LEMMA ReplaceStep ==
  ASSUME IInv, NEW h \in Hashes, NEW v \in outside, IInv', Found(h) # NULL, Answer(h),
         Linked' = Linked, key_hash' = key_hash,
         value'[Found(h)] = v, \A f \in Linked \ {Found(h)} : value'[f] = value[f]
  PROVE  Map!Next
<1> DEFINE e == Found(h)
<1>1. /\ e \in Linked /\ key_hash[e] = h /\ \A f \in Linked : key_hash[f] = h => f = e
      /\ h \in DOMAIN Stored
  BY FoundIs, StoredIs
<1>2. /\ value'[e] = v /\ \A f \in Linked \ {e} : value'[f] = value[f]
  OBVIOUS
<1> HIDE DEF e
<1> DEFINE s == Stored
           t == Stored'
<1>3. MapOf(s, Linked, key_hash, value) /\ MapOf(t, Linked, key_hash, value')
  BY StoredMap, StoredMapNext
<1>4. h \in DOMAIN s
  BY <1>1
<1> HIDE DEF s, t
<1>5. t = [s EXCEPT ![h] = v]
  <2>1. DOMAIN t = DOMAIN s
    BY <1>3 DEF MapOf
  <2>2. t[h] = v
    BY <1>1, <1>2, <1>3 DEF MapOf
  <2>3. \A j \in DOMAIN s \ {h} : t[j] = s[j]
    BY <1>1, <1>2, <1>3 DEF MapOf
  <2> QED
    BY <1>3, <1>4, <2>1, <2>2, <2>3 DEF MapOf
<1>6. v \in Values
  BY DEF IInv, Typed
<1>7. Map!Replace(h)
  BY <1>4, <1>5, <1>6, AnswerIs DEF Map!Replace, s, t
<1> QED
  BY <1>7 DEF Map!Next

LEMMA InsertStep ==
  ASSUME IInv, NEW h \in Hashes, NEW v \in outside, IInv', Found(h) = NULL, Answer(h),
         NEW e, Linked' = Linked \cup {e}, key_hash'[e] = h, value'[e] = v,
         \A f \in Linked : key_hash'[f] = key_hash[f] /\ value'[f] = value[f]
  PROVE  Map!Next
<1> DEFINE s == Stored
           t == Stored'
<1>1. /\ MapOf(s, Linked, key_hash, value)
      /\ MapOf(t, Linked \cup {e}, key_hash', value')
  BY StoredMap, StoredMapNext
<1>2. h \notin DOMAIN s
  BY StoredIs
<1> HIDE DEF s, t
<1>3. t = [j \in DOMAIN s \cup {h} |-> IF j = h THEN v ELSE s[j]]
  <2>1. DOMAIN t = DOMAIN s \cup {h}
    BY <1>1 DEF MapOf
  <2>2. t[h] = v
    BY <1>1 DEF MapOf
  <2>3. \A j \in DOMAIN s : t[j] = s[j]
    BY <1>1 DEF MapOf
  <2> QED
    BY <1>1, <1>2, <2>1, <2>2, <2>3 DEF MapOf
<1>4. v \in Values
  BY DEF IInv, Typed
<1>5. Map!Insert(h)
  BY <1>2, <1>3, <1>4, AnswerIs DEF Map!Insert, s, t
<1> QED
  BY <1>5 DEF Map!Next

LEMMA RemoveStep ==
  ASSUME IInv, NEW h \in Hashes, IInv', Found(h) # NULL, Answer(h),
         Linked' = Linked \ {Found(h)},
         \A f \in Linked \ {Found(h)} : key_hash'[f] = key_hash[f] /\ value'[f] = value[f]
  PROVE  Map!Next
<1> DEFINE e == Found(h)
<1>1. /\ e \in Linked /\ key_hash[e] = h /\ \A f \in Linked : key_hash[f] = h => f = e
  BY FoundIs
<1>2. \A f \in Linked \ {e} : key_hash'[f] = key_hash[f] /\ value'[f] = value[f]
  OBVIOUS
<1> DEFINE s == Stored
           t == Stored'
<1>3. /\ MapOf(s, Linked, key_hash, value)
      /\ MapOf(t, Linked \ {e}, key_hash', value')
  BY StoredMap, StoredMapNext
<1>4. h \in DOMAIN s
  BY StoredIs
<1> HIDE DEF e, s, t
<1>5. t = [j \in DOMAIN s \ {h} |-> s[j]]
  <2>1. DOMAIN t = DOMAIN s \ {h}
    <3>1. \A j \in DOMAIN t : \E f \in Linked \ {e} : j = key_hash[f]
      BY <1>2, <1>3 DEF MapOf
    <3>2. \A f \in Linked \ {e} : key_hash[f] \in DOMAIN t
      BY <1>2, <1>3 DEF MapOf
    <3>3. DOMAIN s = {key_hash[f] : f \in Linked}
      BY <1>3 DEF MapOf
    <3> QED
      BY <1>1, <3>1, <3>2, <3>3
  <2>2. \A j \in DOMAIN s \ {h} : t[j] = s[j]
    BY <1>1, <1>2, <1>3 DEF MapOf
  <2> QED
    BY <1>3, <2>1, <2>2 DEF MapOf
<1>6. Map!Remove(h)
  BY <1>4, <1>5, AnswerIs DEF Map!Remove, s, t
<1> QED
  BY <1>6 DEF Map!Next

LEMMA EmptyMap == ASSUME NEW kh, NEW va, NEW f, MapOf(f, {}, kh, va) PROVE f = <<>>
BY DEF MapOf

LEMMA MapStep == IInv /\ [Next]_vars => [Map!Next]_Map!vars
<1> SUFFICES ASSUME IInv, [Next]_vars PROVE Map!Next \/ UNCHANGED <<Stored, reply>>
  BY DEF Map!vars
<1>0. IInv'
  BY NextInv
<1>1. ASSUME NEW h \in Hashes, NEW v \in outside, InsertOverwrite(h, v) PROVE Map!Next
  <2>1. /\ Found(h) # NULL /\ Answer(h) /\ key_hash' = key_hash
        /\ Linked' = Linked
        /\ value'[Found(h)] = v /\ \A f \in Linked \ {Found(h)} : value'[f] = value[f]
    BY <1>1, NewValue DEF InsertOverwrite, CallOn
  <2> QED
    BY <1>0, <2>1, ReplaceStep
<1>2. ASSUME NEW h \in Hashes, NEW v \in outside, InsertNew(h, v) PROVE Map!Next
  <2>1. Found(h) = NULL /\ Answer(h)
    BY <1>2 DEF InsertNew, CallOn
  <2>2. PICK e : /\ Linked' = Linked \cup {e} /\ key_hash'[e] = h /\ value'[e] = v
                 /\ \A f \in Linked : key_hash'[f] = key_hash[f] /\ value'[f] = value[f]
    BY <1>2, InsertNewInv
  <2> QED
    BY <1>0, <2>1, <2>2, InsertStep
<1>3. ASSUME NEW h \in Hashes, NEW v \in outside, SetEntValue(h, v) PROVE Map!Next
  <2>1. /\ Found(h) # NULL /\ Answer(h) /\ key_hash' = key_hash
        /\ Linked' = Linked
        /\ value'[Found(h)] = v /\ \A f \in Linked \ {Found(h)} : value'[f] = value[f]
    BY <1>3, NewValue DEF SetEntValue
  <2> QED
    BY <1>0, <2>1, ReplaceStep
<1>4. ASSUME NEW h \in Hashes, InsertExists(h) \/ Find(h) \/ RemoveMissing(h) PROVE Map!Next
  <2>1. Answer(h) /\ UNCHANGED <<flags, percent, threshold, table, outside>>
    BY <1>4 DEF InsertExists, Find, RemoveMissing, CallOn
  <2> QED
    BY <1>0, <2>1, SameTable, LookupStep
<1>5. ASSUME NEW h \in Hashes, InsertNoMemory(h) PROVE Map!Next
  <2>1. Answer(h) /\ UNCHANGED <<flags, percent, threshold, outside>>
    BY <1>5 DEF InsertNoMemory, CallOn
  <2>2. CASE UNCHANGED table
    BY <1>0, <2>1, <2>2, SameTable, LookupStep
  <2>3. CASE /\ capacity' = Upsize(h).capacity /\ chain' = Upsize(h).chain
             /\ count' = Upsize(h).count
             /\ UNCHANGED <<size, key_hash, value, spare, free_size, dups>>
    <3>1. WellChained(capacity', chain', count', key_hash) /\ LinkedIn(chain') = Linked
      BY <2>3, UpsizeIs
    <3>2. SameEntries
      BY <2>1, <2>3, <3>1, Moved
    <3> QED
      BY <1>0, <2>1, <3>2, LookupStep
  <2> QED
    BY <1>5, <2>2, <2>3 DEF InsertNoMemory
<1>6. ASSUME NEW h \in Hashes, RemoveEntry(h) PROVE Map!Next
  <2>1. /\ Found(h) # NULL /\ Answer(h) /\ EntRemove(Found(h))
        /\ UNCHANGED <<flags, percent, threshold>>
    BY <1>6 DEF RemoveEntry, CallOn
  <2>2. Found(h) \in Linked
    BY <2>1, FoundIs
  <2>3. /\ Linked' = Linked \ {Found(h)}
        /\ \A f \in Linked \ {Found(h)} : key_hash'[f] = key_hash[f] /\ value'[f] = value[f]
    BY <2>1, <2>2, RemoveInv
  <2> QED
    BY <1>0, <2>1, <2>3, RemoveStep
<1>7. CASE Term
  <2>1. Linked' = {} /\ reply' = NULL
    BY <1>7, TermInv DEF Term
  <2>2. Stored' = <<>>
    BY <1>0, <2>1, StoredMapNext, EmptyMap
  <2> QED
    BY <2>1, <2>2 DEF Map!Next, Map!Clear
<1>8. CASE UNCHANGED vars
  <2>1. UNCHANGED <<flags, percent, threshold, table, outside>> /\ reply' = reply
    BY <1>8 DEF vars
  <2> QED
    BY <1>0, <2>1, SameTable, SameStored
<1> QED
  BY <1>1, <1>2, <1>3, <1>4, <1>5, <1>6, <1>7, <1>8 DEF Next

LEMMA MapInit == Init => Map!Init
<1> SUFFICES ASSUME Init PROVE Stored = <<>> /\ reply = NULL
  BY DEF Map!Init
<1>1. Linked = {} /\ MapOf(Stored, Linked, key_hash, value)
  BY InitInv, StoredMap, RangeEmpty DEF Linked, Init
<1> QED
  BY <1>1, EmptyMap DEF Init

\* The table implements a map from the hashes of its keys to values: whatever it
\* is resized to and whichever entries it reuses, each call changes what is
\* stored under its own key and nothing else, and tells what was stored there
\* (amstrhash_insert, amstrhash_find, amstrhash_remove, amstrhash_remove_key,
\* amstrhash_set_ent_value, amstrhash_term).
THEOREM Refinement == Spec => ImplementsMap
<1>1. Init => Map!Init
  BY MapInit
<1>2. IInv /\ [Next]_vars => [Map!Next]_Map!vars
  BY MapStep
<1> QED
  BY <1>1, <1>2, Invariance, PTL DEF Spec, ImplementsMap, Map!Spec

-----------------------------------------------------------------------------
(* The running statistics.                                                  *)

StatType == [max : 0 .. UMax, min : 0 .. UMax, sum : 0 .. UMax, ssq : 0 .. UMax,
             avg : 0 .. UMax, num : 0 .. UMax]

\* A sum is that of so many values no less than the least, a square is no less
\* than the value, and halving rounds both down.
Summed(stat) ==
    /\ stat.min * stat.num <= stat.sum
    /\ stat.sum <= stat.ssq

Averaged(stat) == stat.num > 0 => stat.avg = stat.sum \div stat.num

Spread(stat, values) ==
    /\ Extremes(stat, values)
    /\ values = {} => stat.max = 0 /\ stat.min = UMax

\* Halving rounds the number down: the sum may be that of one value more.
LocalSums ==
    /\ local \in StatType /\ seen \subseteq 0 .. UMax
    /\ Summed(local) /\ Averaged(local) /\ Spread(local, seen)
    /\ local.sum <= local.max * (local.num + 1)
    /\ IF seen = {} THEN local = FreshStat ELSE local.num > 0
    /\ (\E v \in seen : v > SsqMax) => local.ssq = UMax

TotalSums ==
    /\ total \in StatType /\ added \in [values : SUBSET (0 .. UMax), saturated : BOOLEAN]
    /\ Averaged(total) /\ Spread(total, added.values)
    /\ added.saturated \/ Summed(total)

StatsInvariant == LocalSums /\ TotalSums

\* What the arithmetic of the code does to numbers.
LEMMA Halved ==
  ASSUME NEW a \in Nat, NEW n \in Nat, NEW m \in Nat
  PROVE  /\ a \div 2 \in Nat /\ 2 * (a \div 2) <= a /\ a \div 1 = a
         /\ m * n <= a => m * (n \div 2) <= a \div 2
         /\ a <= m * (n + 1) => a \div 2 <= m * ((n \div 2) + 1)
         /\ a <= n => a \div 2 <= n \div 2
OBVIOUS

LEMMA Wrapped ==
  ASSUME NEW a \in Nat
  PROVE  Wrap(a) \in 0 .. UMax /\ Wrap(a) <= a /\ (a <= UMax => Wrap(a) = a)
BY StatsAssumption DEF Wrap

LEMMA QuotientBound == ASSUME NEW a \in Nat, NEW n \in Nat \ {0} PROVE a \div n \in 0 .. a
OBVIOUS

LEMMA QuotientLow ==
  ASSUME NEW a \in Nat, NEW n \in Nat \ {0}, NEW m \in Nat, m * n <= a PROVE m <= a \div n
OBVIOUS

LEMMA QuotientHigh ==
  ASSUME NEW a \in Nat, NEW n \in Nat \ {0}, NEW m \in Nat, a <= m * n PROVE a \div n <= m
OBVIOUS

LEMMA Product ==
  ASSUME NEW a \in Nat, NEW b \in Nat, NEW n \in Nat, a <= b
  PROVE  a * n <= b * n /\ a * n \in Nat /\ b * n \in Nat
OBVIOUS

LEMMA Square ==
  ASSUME NEW v \in Nat
  PROVE  v * v \in Nat /\ v <= v * v /\ (v <= SsqMax => v * v <= UMax)
<1>1. SsqMax \in Nat /\ SsqMax * SsqMax <= UMax /\ UMax \in Nat
  BY StatsAssumption
<1>2. v * v \in Nat /\ v <= v * v
  OBVIOUS
<1>3. ASSUME v <= SsqMax PROVE v * v <= UMax
  <2>1. v * v <= SsqMax * v /\ v * SsqMax <= SsqMax * SsqMax
    BY <1>1, <1>3, Product
  <2>2. v * SsqMax = SsqMax * v
    BY <1>1
  <2> QED
    BY <1>1, <2>1, <2>2
<1> QED
  BY <1>2, <1>3

-----------------------------------------------------------------------------
\* amstat_upd of a worker's statistic, with or without halving.
LEMMA UpdSums ==
  ASSUME NEW s \in StatType, NEW v \in 0 .. UMax, Summed(s), s.sum <= s.max * (s.num + 1),
         s = FreshStat \/ s.num > 0
  PROVE  LET t == Upd(s, v)
         IN  /\ t \in StatType /\ Summed(t) /\ Averaged(t)
             /\ t.sum <= t.max * (t.num + 1) /\ t.num > 0
             /\ t.max = Larger(s.max, v) /\ t.min = Smaller(s.min, v)
             /\ s.ssq = UMax \/ v > SsqMax => t.ssq = UMax
<1> DEFINE t == Upd(s, v)
           lost == s.ssq = UMax \/ v > SsqMax
           ssq == IF lost THEN UMax ELSE s.ssq
           square == IF lost THEN 0 ELSE v * v
           halve == \/ s.num = UMax
                    \/ s.sum + v > UMax
                    \/ ssq + square > UMax
           part == IF halve THEN 2 ELSE 1
           sum == (s.sum + v) \div part
           num == (s.num + 1) \div part
           low == Smaller(s.min, v)
           high == Larger(s.max, v)
           newSsq == IF lost THEN UMax ELSE (ssq + square) \div part
<1>a. UMax \in Nat \ {0} /\ v \in Nat /\ v <= UMax
  BY StatsAssumption
<1>b. /\ s.max \in Nat /\ s.min \in Nat /\ s.sum \in Nat /\ s.ssq \in Nat /\ s.num \in Nat
      /\ s.max <= UMax /\ s.min <= UMax /\ s.sum <= UMax /\ s.ssq <= UMax /\ s.num <= UMax
  BY <1>a DEF StatType
<1>c. /\ low \in Nat /\ low <= v /\ low <= s.min /\ high \in Nat /\ v <= high /\ s.max <= high
      /\ low <= UMax /\ high <= UMax
  BY <1>a, <1>b DEF Smaller, Larger
<1>1. t = [max |-> high, min |-> low, sum |-> sum, num |-> num, avg |-> sum \div num,
           ssq |-> newSsq]
  BY DEF Upd
<1>2. square \in Nat /\ square <= UMax /\ ssq \in Nat /\ ssq <= UMax /\ (~lost => v <= square)
  <2>1. CASE lost
    BY <1>a, <2>1
  <2>2. CASE ~lost
    <3>1. v <= SsqMax
      BY <1>a, <2>2, StatsAssumption
    <3> QED
      BY <1>a, <1>b, <2>2, <3>1, Square
  <2> QED
    BY <2>1, <2>2
<1>3. /\ low * (s.num + 1) <= s.sum + v
      /\ s.sum + v <= high * ((s.num + 1) + 1)
  <2>1. low * s.num <= s.min * s.num /\ low * s.num \in Nat /\ s.min * s.num \in Nat
    BY <1>b, <1>c, Product
  <2>2. /\ s.max * (s.num + 1) <= high * (s.num + 1)
        /\ s.max * (s.num + 1) \in Nat /\ high * (s.num + 1) \in Nat
    <3>1. s.num + 1 \in Nat
      BY <1>b
    <3> QED
      BY <1>b, <1>c, <3>1, Product
  <2>3. low * (s.num + 1) = low * s.num + low
    BY <1>b, <1>c
  <2>4. high * ((s.num + 1) + 1) = high * (s.num + 1) + high
    BY <1>b, <1>c
  <2>5. s.min * s.num <= s.sum
    BY DEF Summed
  <2>6. low * (s.num + 1) <= s.sum + v
    BY <1>a, <1>b, <1>c, <2>1, <2>3, <2>5
  <2>7. s.sum + v <= high * ((s.num + 1) + 1)
    BY <1>a, <1>b, <1>c, <2>2, <2>4
  <2> QED
    BY <2>6, <2>7
<1>4. /\ sum \in Nat /\ sum <= UMax /\ num \in Nat /\ num > 0 /\ num <= UMax
      /\ low * num <= sum /\ sum <= high * (num + 1)
      /\ newSsq \in Nat /\ newSsq <= UMax /\ sum <= newSsq
  <2> DEFINE a == s.sum + v
             n == s.num + 1
             q == ssq + square
  <2>1. a \in Nat /\ n \in Nat /\ q \in Nat /\ n > 0 /\ (~lost => a <= q)
    BY <1>a, <1>b, <1>2 DEF Summed
  <2>2. low * n <= a /\ a <= high * (n + 1)
    BY <1>3
  <2>3. CASE ~halve
    <3>1. part = 1 /\ a <= UMax /\ n <= UMax /\ q <= UMax
      BY <1>a, <1>b, <1>2, <2>3
    <3>2. sum = a /\ num = n /\ newSsq = IF lost THEN UMax ELSE q
      BY <2>1, <3>1, Halved
    <3> QED
      BY <1>a, <2>1, <2>2, <3>1, <3>2
  <2>4. CASE halve
    <3>1. part = 2
      BY <2>4
    <3>2. sum = a \div 2 /\ num = n \div 2 /\ newSsq = IF lost THEN UMax ELSE q \div 2
      BY <3>1
    <3>3. s.num > 0
      <4>1. ASSUME s = FreshStat PROVE FALSE
        <5>1. s.num = 0 /\ s.sum = 0 /\ s.ssq = 0
          BY <4>1 DEF FreshStat
        <5>2. lost => ssq = UMax /\ square = 0
          OBVIOUS
        <5>3. ~lost => ssq = 0
          BY <5>1
        <5> QED
          BY <1>a, <1>2, <2>4, <5>1, <5>2, <5>3
      <4> QED
        BY <4>1
    <3>4. a <= 2 * UMax /\ n <= UMax + 1 /\ n >= 2 /\ q <= 2 * UMax
      BY <1>a, <1>b, <1>2, <3>3
    <3>5. low * (n \div 2) <= a \div 2 /\ a \div 2 <= high * ((n \div 2) + 1)
      BY <1>c, <2>1, <2>2, Halved
    <3>6. ~lost => a \div 2 <= q \div 2
      BY <2>1, Halved
    <3>7. /\ a \div 2 \in Nat /\ n \div 2 \in Nat /\ q \div 2 \in Nat
          /\ a \div 2 <= UMax /\ n \div 2 <= UMax /\ q \div 2 <= UMax /\ n \div 2 > 0
      BY <1>a, <2>1, <3>4
    <3> QED
      BY <1>a, <3>2, <3>5, <3>6, <3>7
  <2> QED
    BY <2>3, <2>4
<1> HIDE DEF sum, num
<1>5. sum \div num \in 0 .. UMax
  <2>1. num \in Nat \ {0}
    BY <1>4
  <2>2. sum \div num \in 0 .. sum
    BY <1>4, <2>1, QuotientBound
  <2>3. \A d \in 0 .. sum : d \in 0 .. UMax
    BY <1>a, <1>4
  <2> QED
    BY <2>2, <2>3
<1> HIDE DEF t, low, high, newSsq
<1>6. t \in StatType /\ Averaged(t) /\ Summed(t)
  BY <1>a, <1>c, <1>1, <1>4, <1>5 DEF StatType, Averaged, Summed
<1>7. t.sum <= t.max * (t.num + 1) /\ t.num > 0
  BY <1>1, <1>4
<1>8. t.max = Larger(s.max, v) /\ t.min = Smaller(s.min, v)
  BY <1>1 DEF low, high
<1>9. lost => t.ssq = UMax
  BY <1>1 DEF newSsq
<1> QED
  BY <1>6, <1>7, <1>8, <1>9 DEF t

\* amstat_add of a worker's statistic to the pool's, until a sum of squares was
\* given up.
LEMMA AddSums ==
  ASSUME NEW s \in StatType, NEW w \in StatType
  PROVE  LET t == Add(s, w)
         IN  /\ t \in StatType /\ Averaged(t)
             /\ t.max = Larger(s.max, w.max) /\ t.min = Smaller(s.min, w.min)
             /\ Summed(s) /\ Summed(w) /\ s.ssq # UMax /\ w.ssq # UMax => Summed(t)
<1> DEFINE t == Add(s, w)
           lost == s.ssq = UMax \/ w.ssq = UMax
           part == IF ~lost /\ s.ssq + w.ssq > UMax THEN 2 ELSE 1
           n == s.num \div part + w.num \div part
           a == s.sum \div part + w.sum \div part
           num == Wrap(n)
           sum == Wrap(a)
           q == s.ssq \div part + w.ssq \div part
           low == Smaller(s.min, w.min)
           high == Larger(s.max, w.max)
           newAvg == IF num = 0 THEN 0 ELSE sum \div num
           newSsq == IF lost THEN Wrap(UMax + w.ssq) ELSE q
<1>a. UMax \in Nat \ {0}
  BY StatsAssumption
<1>b. /\ s.max \in Nat /\ s.min \in Nat /\ s.sum \in Nat /\ s.ssq \in Nat /\ s.num \in Nat
      /\ s.max <= UMax /\ s.min <= UMax /\ s.ssq <= UMax
      /\ w.max \in Nat /\ w.min \in Nat /\ w.sum \in Nat /\ w.ssq \in Nat /\ w.num \in Nat
      /\ w.max <= UMax /\ w.min <= UMax /\ w.ssq <= UMax
  BY <1>a DEF StatType
<1>c. /\ low \in Nat /\ low <= s.min /\ low <= w.min /\ low <= UMax
      /\ high \in Nat /\ high <= UMax
  BY <1>a, <1>b DEF Smaller, Larger
<1>1. t = [max |-> high, min |-> low, sum |-> sum, num |-> num, avg |-> newAvg, ssq |-> newSsq]
  BY DEF Add
<1>2. part \in {1, 2} /\ n \in Nat /\ a \in Nat /\ q \in Nat
  <2>1. part = 1 \/ part = 2
    OBVIOUS
  <2>2. CASE part = 1
    BY <1>b, <2>2
  <2>3. CASE part = 2
    BY <1>b, <2>3
  <2> QED
    BY <2>1, <2>2, <2>3
<1>3. ~lost => q <= UMax
  BY <1>a, <1>b
<1>4. ASSUME Summed(s), Summed(w), ~lost
      PROVE  a <= q /\ low * n <= a
  <2>1. /\ s.sum <= s.ssq /\ w.sum <= w.ssq
        /\ s.min * s.num <= s.sum /\ w.min * w.num <= w.sum
    BY <1>4 DEF Summed
  <2>2. /\ low * s.num <= s.min * s.num /\ low * w.num <= w.min * w.num
        /\ low * s.num \in Nat /\ low * w.num \in Nat
        /\ s.min * s.num \in Nat /\ w.min * w.num \in Nat
    BY <1>b, <1>c, Product
  <2>3. low * s.num <= s.sum /\ low * w.num <= w.sum
    BY <1>b, <2>1, <2>2
  <2>4. CASE part = 2
    <3>1. /\ s.sum \div 2 <= s.ssq \div 2 /\ w.sum \div 2 <= w.ssq \div 2
          /\ low * (s.num \div 2) <= s.sum \div 2 /\ low * (w.num \div 2) <= w.sum \div 2
      BY <1>b, <1>c, <2>1, <2>3, Halved
    <3> DEFINE sn == s.num \div 2
               wn == w.num \div 2
               sa == s.sum \div 2
               wa == w.sum \div 2
    <3>2. sn \in Nat /\ wn \in Nat /\ sa \in Nat /\ wa \in Nat
          /\ s.ssq \div 2 \in Nat /\ w.ssq \div 2 \in Nat
      BY <1>b
    <3>3. n = sn + wn /\ a = sa + wa /\ q = s.ssq \div 2 + w.ssq \div 2
      BY <2>4
    <3>4. low * sn <= sa /\ low * wn <= wa /\ sa <= s.ssq \div 2 /\ wa <= w.ssq \div 2
      BY <3>1
    <3> HIDE DEF sn, wn, sa, wa, low, n, a, q
    <3>5. low * (sn + wn) = low * sn + low * wn /\ low * sn \in Nat /\ low * wn \in Nat
      BY <1>c, <3>2
    <3> QED
      BY <3>2, <3>3, <3>4, <3>5
  <2>5. CASE part = 1
    <3>1. n = s.num + w.num /\ a = s.sum + w.sum /\ q = s.ssq + w.ssq
      BY <1>b, <2>5
    <3> HIDE DEF low, n, a, q
    <3>2. low * (s.num + w.num) = low * s.num + low * w.num
      BY <1>b, <1>c
    <3> QED
      BY <1>b, <2>1, <2>2, <2>3, <3>1, <3>2
  <2> QED
    BY <2>4, <2>5
<1> HIDE DEF n, a, q, part, low, high, lost
<1>5. /\ num \in 0 .. UMax /\ num <= n /\ sum \in 0 .. UMax /\ (a <= UMax => sum = a)
  BY <1>2, Wrapped
<1>6. newSsq \in 0 .. UMax
  <2>1. Wrap(UMax + w.ssq) \in 0 .. UMax
    BY <1>a, <1>b, Wrapped
  <2> QED
    BY <1>2, <1>3, <2>1
<1> HIDE DEF num, sum
<1>7. newAvg \in 0 .. UMax
  <2>1. CASE num = 0
    BY <1>a, <2>1
  <2>2. CASE num # 0
    <3>1. num \in Nat \ {0} /\ sum \in Nat
      BY <1>a, <1>5, <2>2
    <3>2. sum \div num \in 0 .. sum
      BY <3>1, QuotientBound
    <3> QED
      BY <1>a, <1>5, <2>2, <3>2
  <2> QED
    BY <2>1, <2>2
<1>8. num > 0 => newAvg = sum \div num
  BY <1>5, <1>a
<1> HIDE DEF newAvg
<1>9. t \in StatType /\ Averaged(t)
  <2> HIDE DEF newSsq, t
  <2>1. t \in StatType
    BY <1>a, <1>c, <1>1, <1>5, <1>6, <1>7 DEF StatType
  <2>2. Averaged(t)
    BY <1>1, <1>8 DEF Averaged
  <2> QED
    BY <2>1, <2>2
<1>10. t.max = Larger(s.max, w.max) /\ t.min = Smaller(s.min, w.min)
  BY <1>1 DEF low, high
<1>11. ASSUME Summed(s), Summed(w), s.ssq # UMax, w.ssq # UMax PROVE Summed(t)
  <2>1. ~lost
    BY <1>11 DEF lost
  <2>2. a <= q /\ low * n <= a /\ q <= UMax /\ newSsq = q
    BY <1>3, <1>4, <1>11, <2>1
  <2>3. sum = a
    BY <1>a, <1>2, <1>5, <2>2
  <2>4. low * num <= low * n /\ low * n \in Nat /\ low * num \in Nat
    <3>1. num \in Nat /\ num * low <= n * low /\ num * low \in Nat /\ n * low \in Nat
      BY <1>a, <1>c, <1>2, <1>5, Product
    <3> QED
      BY <1>c, <1>2, <3>1
  <2>5. low * num <= sum /\ sum <= newSsq
    BY <1>2, <2>2, <2>3, <2>4
  <2> HIDE DEF newSsq, t
  <2> QED
    BY <1>1, <2>5 DEF Summed
<1> QED
  BY <1>9, <1>10, <1>11 DEF t

\* The extremes of the values of two statistics, or of a statistic and a value.
LEMMA SpreadUpd ==
  ASSUME NEW s, NEW t, NEW values \in SUBSET (0 .. UMax), NEW v \in 0 .. UMax,
         s.max \in 0 .. UMax, s.min \in 0 .. UMax, Spread(s, values),
         t.max = Larger(s.max, v), t.min = Smaller(s.min, v)
  PROVE  Spread(t, values \cup {v})
<1>1. UMax \in Nat
  BY StatsAssumption
<1>2. CASE values = {}
  BY <1>1, <1>2 DEF Spread, Extremes, Larger, Smaller
<1>3. CASE values # {}
  BY <1>1, <1>3 DEF Spread, Extremes, Larger, Smaller
<1> QED
  BY <1>2, <1>3

LEMMA SpreadAdd ==
  ASSUME NEW s, NEW w, NEW t, NEW values \in SUBSET (0 .. UMax), NEW more \in SUBSET (0 .. UMax),
         s.max \in 0 .. UMax, s.min \in 0 .. UMax, Spread(s, values),
         w.max \in 0 .. UMax, w.min \in 0 .. UMax, Spread(w, more),
         t.max = Larger(s.max, w.max), t.min = Smaller(s.min, w.min)
  PROVE  Spread(t, values \cup more)
<1>1. UMax \in Nat
  BY StatsAssumption
<1>2. CASE values = {}
  BY <1>1, <1>2 DEF Spread, Extremes, Larger, Smaller
<1>3. CASE values # {} /\ more = {}
  BY <1>1, <1>3 DEF Spread, Extremes, Larger, Smaller
<1>4. CASE values # {} /\ more # {}
  BY <1>1, <1>4 DEF Spread, Extremes, Larger, Smaller
<1> QED
  BY <1>2, <1>3, <1>4

-----------------------------------------------------------------------------
LEMMA FreshSums == FreshStat \in StatType /\ Summed(FreshStat) /\ Averaged(FreshStat)
                   /\ Spread(FreshStat, {})
                   /\ FreshStat.sum <= FreshStat.max * (FreshStat.num + 1)
BY StatsAssumption DEF FreshStat, StatType, Summed, Averaged, Spread, Extremes

LEMMA SumsInit == StatsInit => StatsInvariant
<1> SUFFICES ASSUME StatsInit PROVE StatsInvariant
  OBVIOUS
<1>1. /\ local = FreshStat /\ total = FreshStat /\ seen = {}
      /\ added = [values |-> {}, saturated |-> FALSE]
  BY DEF StatsInit
<1> QED
  BY <1>1, FreshSums DEF StatsInvariant, LocalSums, TotalSums

LEMMA SumsStep == StatsInvariant /\ [StatsNext]_statsVars => StatsInvariant'
<1> SUFFICES ASSUME StatsInvariant, [StatsNext]_statsVars PROVE StatsInvariant'
  OBVIOUS
<1>a. UMax \in Nat \ {0} /\ Measured \subseteq 0 .. UMax /\ SsqMax \in Nat
  BY StatsAssumption
<1>b. /\ local \in StatType /\ total \in StatType
      /\ local.max \in 0 .. UMax /\ local.min \in 0 .. UMax
      /\ total.max \in 0 .. UMax /\ total.min \in 0 .. UMax
      /\ seen \in SUBSET (0 .. UMax) /\ added.values \in SUBSET (0 .. UMax)
  BY DEF StatsInvariant, LocalSums, TotalSums, StatType
<1>1. CASE Measure
  <2>1. PICK v \in Measured : local' = Upd(local, v) /\ seen' = seen \cup {v}
                              /\ UNCHANGED <<total, added>>
    BY <1>1 DEF Measure
  <2> DEFINE t == Upd(local, v)
  <2>2. /\ Summed(local) /\ Spread(local, seen) /\ local.sum <= local.max * (local.num + 1)
        /\ local = FreshStat \/ local.num > 0
        /\ (\E w \in seen : w > SsqMax) => local.ssq = UMax
    BY DEF StatsInvariant, LocalSums
  <2>3. v \in 0 .. UMax
    BY <1>a
  <2>4. /\ t \in StatType /\ Summed(t) /\ Averaged(t)
        /\ t.sum <= t.max * (t.num + 1) /\ t.num > 0
        /\ t.max = Larger(local.max, v) /\ t.min = Smaller(local.min, v)
        /\ local.ssq = UMax \/ v > SsqMax => t.ssq = UMax
    BY <1>b, <2>2, <2>3, UpdSums
  <2> HIDE DEF t
  <2>5. Spread(t, seen \cup {v})
    BY <1>b, <2>2, <2>3, <2>4, SpreadUpd
  <2>6. (\E w \in seen \cup {v} : w > SsqMax) => t.ssq = UMax
    BY <2>2, <2>4
  <2>7. seen \cup {v} \subseteq 0 .. UMax /\ seen \cup {v} # {}
    BY <1>b, <2>3
  <2>8. local' = t /\ seen' = seen \cup {v}
    BY <2>1 DEF t
  <2>9. LocalSums'
    BY <2>4, <2>5, <2>6, <2>7, <2>8 DEF LocalSums
  <2>10. TotalSums'
    BY <2>1 DEF StatsInvariant, TotalSums
  <2> QED
    BY <2>9, <2>10 DEF StatsInvariant
<1>2. CASE Fold
  <2>1. /\ total' = Add(total, local) /\ local' = FreshStat /\ seen' = {}
        /\ added' = [values |-> added.values \cup seen,
                     saturated |-> added.saturated \/ local.ssq = UMax \/ total.ssq = UMax]
    BY <1>2 DEF Fold
  <2> DEFINE t == Add(total, local)
  <2>2. /\ Summed(local) /\ Spread(local, seen) /\ Spread(total, added.values)
        /\ added.saturated \/ Summed(total)
        /\ added.saturated \in BOOLEAN
    BY DEF StatsInvariant, LocalSums, TotalSums
  <2>3. /\ t \in StatType /\ Averaged(t)
        /\ t.max = Larger(total.max, local.max) /\ t.min = Smaller(total.min, local.min)
        /\ Summed(total) /\ Summed(local) /\ total.ssq # UMax /\ local.ssq # UMax => Summed(t)
    BY <1>b, AddSums
  <2> HIDE DEF t
  <2>4. Spread(t, added.values \cup seen)
    BY <1>b, <2>2, <2>3, SpreadAdd
  <2>5. /\ added'.values = added.values \cup seen
        /\ added' \in [values : SUBSET (0 .. UMax), saturated : BOOLEAN]
        /\ added'.saturated \/ (~added.saturated /\ local.ssq # UMax /\ total.ssq # UMax)
    BY <1>b, <2>1, <2>2
  <2>6. total' = t
    BY <2>1 DEF t
  <2>7. added'.saturated \/ Summed(t)
    BY <2>2, <2>3, <2>5
  <2>8. TotalSums'
    BY <2>3, <2>4, <2>5, <2>6, <2>7 DEF TotalSums
  <2>9. LocalSums'
    BY <2>1, FreshSums DEF LocalSums
  <2> QED
    BY <2>8, <2>9 DEF StatsInvariant
<1>3. CASE UNCHANGED statsVars
  BY <1>3 DEF statsVars, StatsInvariant, LocalSums, TotalSums
<1> QED
  BY <1>1, <1>2, <1>3 DEF StatsNext

\* What amstat_upd and amstat_add keep, for every width of the integers and
\* every order of updates and folds: a worker's average lies between the least
\* value and twice the greatest, the extremes are those of the values, and the
\* pool's sum does not wrap before a sum of squares is given up.
THEOREM StatisticsHonest == StatsSpec => []StatsHonest
<1>1. StatsInvariant => StatsHonest
  <2> SUFFICES ASSUME StatsInvariant PROVE StatsHonest
    OBVIOUS
  <2>a. UMax \in Nat
    BY StatsAssumption
  <2>1. /\ local.sum \in Nat /\ local.num \in Nat /\ local.min \in Nat /\ local.max \in Nat
        /\ total.sum \in Nat /\ total.num \in Nat /\ total.min \in Nat
        /\ added.saturated \in BOOLEAN
    BY <2>a DEF StatsInvariant, LocalSums, TotalSums, StatType
  <2>2. Extremes(local, seen) /\ Extremes(total, added.values)
    BY DEF StatsInvariant, LocalSums, TotalSums, Spread
  <2>3. ASSUME seen # {}
        PROVE  local.num > 0 /\ local.min <= local.avg /\ local.avg <= 2 * local.max
    <3>1. /\ local.num > 0 /\ local.avg = local.sum \div local.num
          /\ local.min * local.num <= local.sum
          /\ local.sum <= local.max * (local.num + 1)
      BY <2>3 DEF StatsInvariant, LocalSums, Summed, Averaged
    <3>2. local.num \in Nat \ {0} /\ 2 * local.max \in Nat
      BY <2>1, <3>1
    <3>3. local.sum <= (2 * local.max) * local.num
      <4>1. local.max * (local.num + 1) = local.max * local.num + local.max
            /\ (2 * local.max) * local.num = local.max * local.num + local.max * local.num
            /\ local.max * local.num \in Nat
        BY <2>1
      <4>2. local.max <= local.max * local.num
        BY <2>1, <3>1
      <4> QED
        BY <2>1, <3>1, <4>1, <4>2
    <3>4. local.min <= local.sum \div local.num
      BY <2>1, <3>1, <3>2, QuotientLow
    <3>5. local.sum \div local.num <= 2 * local.max
      BY <2>1, <3>2, <3>3, QuotientHigh
    <3> QED
      BY <3>1, <3>4, <3>5
  <2>4. ASSUME ~added.saturated, total.num # 0
        PROVE  total.min <= total.avg
    <3>1. total.num \in Nat \ {0} /\ total.min * total.num <= total.sum
      BY <2>1, <2>4 DEF StatsInvariant, TotalSums, Summed
    <3>2. total.avg = total.sum \div total.num
      BY <3>1 DEF StatsInvariant, TotalSums, Averaged
    <3>3. total.min <= total.sum \div total.num
      BY <2>1, <3>1, QuotientLow
    <3> QED
      BY <3>2, <3>3
  <2>5. (\E v \in seen : v > SsqMax) => local.ssq = UMax
    BY DEF StatsInvariant, LocalSums
  <2> QED
    BY <2>1, <2>2, <2>3, <2>4, <2>5 DEF StatsHonest, LocalHonest, TotalHonest
<1> QED
  BY <1>1, SumsInit, SumsStep, PTL DEF StatsSpec

-----------------------------------------------------------------------------
(* The descriptors.                                                         *)

AnyPort == (Bytes \X Bytes) \cup {Zero}
SocketTypes == {"STREAM", "DGRAM"}
CallOps == {"none", "server", "client", "listen", "connect", "fileRead", "fileWrite"}
\* Where a call is before it has a descriptor, and with one.
Unplaced == {"none", "socket", "open"}
Placed == {"options", "bind", "listen", "connect", "done", "prepare", "transfer"}

Described == [op : CallOps \cup {"accept"}, stage : {"new", "bound", "listening", "connected"},
              family : Families \cup {"FILE"}, type : SocketTypes,
              asked : AnyPort, wire : AnyPort]

FdTyped ==
    /\ DOMAIN open \subseteq Fds /\ open \in [DOMAIN open -> Described]
    /\ addr \in [family : Families \cup {"UNSPEC", "FILE"}, port : AnyPort]
    /\ call \in [op : CallOps, at : Unplaced \cup Placed, fd : Fds \cup {NoFd},
                 families : Seq(Families), type : SocketTypes, port : AnyPort]

\* How far the descriptor of a call has come when the call is at a place.
Stage(op, at, t) ==
    CASE at = "listen" -> "bound"
      [] at = "done" -> CASE op = "client" \/ op = "connect" -> "connected"
                          [] op = "server" /\ t = "DGRAM" -> "bound"
                          [] OTHER -> "listening"
      [] OTHER -> "new"

\* The ops that come to a place.
Comes(op, at) ==
    /\ at = "options" => op \in {"server", "listen"}
    /\ at = "bind" => op \in {"server", "listen"}
    /\ at = "listen" => op \in {"server", "listen"}
    /\ at = "connect" => op \in {"client", "connect"}
    /\ at = "done" => op \in {"server", "listen", "client", "connect"}
    /\ at = "prepare" => op = "fileRead"
    /\ at = "transfer" => op \in {"fileRead", "fileWrite"}
    /\ at = "socket" => op \in {"server", "listen", "client", "connect"}
    /\ at = "open" => op \in {"fileRead", "fileWrite"}

\* The descriptor of the call in progress is the call's own, and is as far as it.
Mine(s, c) ==
    /\ s.op = c.op /\ s.type = c.type /\ s.asked = c.port /\ s.stage = Stage(c.op, c.at, c.type)
    /\ c.at \in {"listen", "done"} =>
         /\ c.op \in {"server", "client"} /\ c.port # Zero => s.wire = Swap(c.port)
         /\ c.op \in {"listen", "connect"} => s.family = "INET"

CallReady ==
    /\ call.at \in Unplaced => call.fd = NoFd
    /\ Comes(call.op, call.at)
    /\ call.at = "listen" /\ call.op = "server" => call.type = "STREAM"
    /\ call.at \in {"options", "bind", "listen", "connect"} => call.families # <<>>
    /\ call.at \in Placed => call.fd \in DOMAIN open \ held /\ Mine(open[call.fd], call)

\* What SocketsReady and NoStrayDescriptor say of one descriptor.
Ready(s) ==
    /\ s.stage = CASE s.op \in {"client", "connect", "accept"} -> "connected"
                   [] s.op = "server" /\ s.type = "DGRAM" -> "bound"
                   [] OTHER -> "listening"
    /\ s.op \in {"server", "client"} /\ s.asked # Zero => s.wire = Swap(s.asked)
    /\ s.op \in {"listen", "connect"} => s.family = "INET"
MayStray(s) == s.op \in {"connect", "fileRead"} /\ s.stage = "new"

Owned ==
    /\ held \subseteq DOMAIN open
    /\ \A d \in held : Ready(open[d])
    /\ \A d \in DOMAIN open \ (held \cup {call.fd}) : MayStray(open[d])

FdInvariant == FdTyped /\ CallReady /\ Owned

LEMMA OwnedSound == Owned <=> NoStrayDescriptor /\ SocketsReady
BY DEF Owned, NoStrayDescriptor, SocketsReady, Ready, MayStray

LEMMA SwapTyped == \A p \in AnyPort : Swap(p) \in AnyPort
<1> SUFFICES ASSUME NEW p \in AnyPort PROVE Swap(p) \in AnyPort
  OBVIOUS
<1>1. CASE p = Zero
  BY <1>1 DEF Swap
<1>2. CASE p # Zero
  <2>1. p \in Bytes \X Bytes
    BY <1>2 DEF AnyPort
  <2>2. p[1] \in Bytes /\ p[2] \in Bytes
    BY <2>1
  <2> QED
    BY <1>2, <2>2 DEF Swap, AnyPort
<1> QED
  BY <1>1, <1>2

LEMMA WireTyped == \A p \in AnyPort : WirePorts(p) \subseteq AnyPort
BY FdAssumption, SwapTyped DEF WirePorts, AnyPort

LEMMA ResultsTyped == \A f \in Families \cup {"UNSPEC"} : Results(f) \subseteq Seq(Families)
<1>1. /\ <<>> \in Seq(Families) /\ <<"INET">> \in Seq(Families) /\ <<"INET6">> \in Seq(Families)
      /\ <<"INET", "INET6">> \in Seq(Families) /\ <<"INET6", "INET">> \in Seq(Families)
  BY DEF Families
<1>2. SUFFICES ASSUME NEW f \in Families \cup {"UNSPEC"}, NEW r \in Results(f)
               PROVE  r \in Seq(Families)
  OBVIOUS
<1>3. r = <<>> \/ r \in {<<"INET">>, <<"INET6">>, <<"INET", "INET6">>, <<"INET6", "INET">>}
  BY <1>2 DEF Results
<1> QED
  BY <1>1, <1>3

\* A call that has no descriptor, before and after.
LEMMA NoDescriptor ==
  ASSUME FdInvariant, call.at \in Unplaced, call' \in [op : CallOps, at : Unplaced, fd : {NoFd},
           families : Seq(Families), type : SocketTypes, port : AnyPort],
         Comes(call'.op, call'.at), UNCHANGED <<open, held, addr>>
  PROVE  FdInvariant'
<1>1. FdTyped'
  BY DEF FdInvariant, FdTyped, Unplaced, Placed
<1>2. CallReady'
  BY DEF CallReady, Unplaced, Placed
<1>3. call.fd = NoFd /\ call'.fd = NoFd
  BY DEF FdInvariant, CallReady
<1>4. Owned'
  BY <1>3 DEF FdInvariant, Owned
<1> QED
  BY <1>1, <1>2, <1>4 DEF FdInvariant

\* A call obtains a descriptor that was free.
LEMMA NewSound ==
  ASSUME FdInvariant, call.at \in Unplaced,
         NEW fam \in Families \cup {"FILE"}, NEW next \in Placed,
         NewFd(fam, next), UNCHANGED <<held, addr>>,
         Comes(call.op, next), next \notin {"listen", "done"},
         call.families # <<>> \/ next \in {"prepare", "transfer"}
  PROVE  FdInvariant'
<1> DEFINE new == [op |-> call.op, stage |-> "new", family |-> fam, type |-> call.type,
                   asked |-> call.port, wire |-> Zero]
<1>1. PICK fd \in FreeFd :
        /\ open' = [d \in DOMAIN open \cup {fd} |-> IF d = fd THEN new ELSE open[d]]
        /\ call' = [call EXCEPT !.fd = fd, !.at = next]
  BY DEF NewFd
<1>2. fd \in Fds /\ fd \notin DOMAIN open /\ fd # NoFd
  BY FdAssumption DEF FreeFd
<1>3. new \in Described
  BY DEF FdInvariant, FdTyped, Described, AnyPort
<1> HIDE DEF new
<1>4. /\ DOMAIN open' = DOMAIN open \cup {fd} /\ open'[fd] = new
      /\ \A d \in DOMAIN open : open'[d] = open[d]
      /\ open' \in [DOMAIN open' -> Described]
  BY <1>1, <1>2, <1>3 DEF FdInvariant, FdTyped
<1>5. /\ call'.op = call.op /\ call'.at = next /\ call'.fd = fd /\ call'.families = call.families
      /\ call'.type = call.type /\ call'.port = call.port
      /\ call' \in [op : CallOps, at : Unplaced \cup Placed, fd : Fds \cup {NoFd},
                    families : Seq(Families), type : SocketTypes, port : AnyPort]
  BY <1>1, <1>2 DEF FdInvariant, FdTyped
<1>6. FdTyped'
  BY <1>2, <1>4, <1>5 DEF FdInvariant, FdTyped
<1>7. Mine(open'[fd], call')
  BY <1>4, <1>5 DEF Mine, Stage, new, Placed
<1>8. held \subseteq DOMAIN open /\ call.fd = NoFd
  BY DEF FdInvariant, Owned, CallReady
<1>9. CallReady'
  BY <1>2, <1>4, <1>5, <1>7, <1>8 DEF CallReady, Placed, Unplaced
<1>10. Owned'
  <2>1. held' = held /\ held \subseteq DOMAIN open'
    BY <1>4, <1>8
  <2>2. \A d \in held : Ready(open'[d])
    BY <1>4, <1>8 DEF FdInvariant, Owned
  <2>3. NoFd \notin DOMAIN open
    BY FdAssumption DEF FdInvariant, FdTyped
  <2>4. \A d \in DOMAIN open' \ (held \cup {call'.fd}) : MayStray(open'[d])
    BY <1>4, <1>5, <1>8, <2>3 DEF FdInvariant, Owned
  <2> QED
    BY <2>1, <2>2, <2>4 DEF Owned
<1> QED
  BY <1>6, <1>9, <1>10 DEF FdInvariant

\* The descriptor of the call comes further, and the call with it.
LEMMA GoesSound ==
  ASSUME FdInvariant, call.at \in Placed, NEW next \in Placed, NEW stage, NEW wire \in AnyPort,
         Goes(next, stage, wire), stage = Stage(call.op, next, call.type),
         stage \in {"new", "bound", "listening", "connected"},
         Comes(call.op, next), call.families # <<>>,
         next = "listen" /\ call.op = "server" => call.type = "STREAM",
         next \in {"listen", "done"} =>
            /\ call.op \in {"server", "client"} /\ call.port # Zero => wire = Swap(call.port)
            /\ call.op \in {"listen", "connect"} => open[call.fd].family = "INET"
  PROVE  FdInvariant'
<1> DEFINE fd == call.fd
<1>1. /\ open' = [open EXCEPT ![fd].stage = stage, ![fd].wire = wire]
      /\ call' = [call EXCEPT !.at = next] /\ held' = held /\ addr' = addr
  BY DEF Goes
<1>2. fd \in DOMAIN open \ held /\ Mine(open[fd], call)
  BY DEF FdInvariant, CallReady
<1>3. open \in [DOMAIN open -> Described] /\ DOMAIN open \subseteq Fds
  BY DEF FdInvariant, FdTyped
<1>4. open[fd] \in Described
  BY <1>2, <1>3
<1> DEFINE new == [[open[fd] EXCEPT !.stage = stage] EXCEPT !.wire = wire]
<1>5. new \in Described
  BY <1>4 DEF Described
<1>6. /\ new.op = open[fd].op /\ new.type = open[fd].type /\ new.asked = open[fd].asked
      /\ new.family = open[fd].family /\ new.stage = stage /\ new.wire = wire
  BY <1>4 DEF Described
<1>7. open' = [open EXCEPT ![fd] = new]
  BY <1>1, <1>2, <1>3, <1>4 DEF Described
<1> HIDE DEF new
<1>8. /\ DOMAIN open' = DOMAIN open /\ open'[fd] = new
      /\ \A d \in DOMAIN open \ {fd} : open'[d] = open[d]
      /\ open' \in [DOMAIN open' -> Described]
  BY <1>2, <1>3, <1>5, <1>7
<1>9. /\ call'.op = call.op /\ call'.at = next /\ call'.fd = fd /\ call'.families = call.families
      /\ call'.type = call.type /\ call'.port = call.port
      /\ call' \in [op : CallOps, at : Unplaced \cup Placed, fd : Fds \cup {NoFd},
                    families : Seq(Families), type : SocketTypes, port : AnyPort]
  BY <1>1 DEF FdInvariant, FdTyped
<1>10. FdTyped'
  BY <1>1, <1>3, <1>8, <1>9 DEF FdInvariant, FdTyped
<1>11. Mine(open'[fd], call')
  <2>1. new.op = call.op /\ new.type = call.type /\ new.asked = call.port
    BY <1>2, <1>6 DEF Mine
  <2>2. new.stage = Stage(call'.op, call'.at, call'.type)
    BY <1>6, <1>9
  <2> QED
    BY <1>6, <1>8, <1>9, <2>1, <2>2 DEF Mine
<1>12. CallReady'
  BY <1>1, <1>2, <1>8, <1>9, <1>11 DEF CallReady, Placed, Unplaced
<1>13. Owned'
  BY <1>1, <1>2, <1>8, <1>9 DEF FdInvariant, Owned
<1> QED
  BY <1>10, <1>12, <1>13 DEF FdInvariant

\* The call gives its descriptor back and goes on without it.
LEMMA ClosedSound ==
  ASSUME FdInvariant, call.at \in Placed, Close(call.fd), UNCHANGED <<held, addr>>,
         call' \in [op : CallOps, at : Unplaced, fd : {NoFd},
                   families : Seq(Families), type : SocketTypes, port : AnyPort],
         Comes(call'.op, call'.at)
  PROVE  FdInvariant'
<1>1. call.fd \in DOMAIN open \ held
  BY DEF FdInvariant, CallReady
<1>2. open' = [d \in DOMAIN open \ {call.fd} |-> open[d]]
  BY DEF Close, Restrict
<1>3. /\ DOMAIN open' = DOMAIN open \ {call.fd}
      /\ \A d \in DOMAIN open' : open'[d] = open[d]
      /\ open' \in [DOMAIN open' -> Described]
  BY <1>2 DEF FdInvariant, FdTyped
<1>4. FdTyped'
  BY <1>3 DEF FdInvariant, FdTyped, Unplaced, Placed
<1>5. CallReady'
  BY DEF CallReady, Unplaced, Placed
<1>6. Owned'
  <2>1. held' = held /\ held \subseteq DOMAIN open'
    BY <1>1, <1>3 DEF FdInvariant, Owned
  <2>2. \A d \in held : Ready(open'[d])
    BY <1>3, <2>1 DEF FdInvariant, Owned
  <2>3. \A d \in DOMAIN open' \ (held \cup {call'.fd}) : MayStray(open'[d])
    BY <1>3 DEF FdInvariant, Owned
  <2> QED
    BY <2>1, <2>2, <2>3 DEF Owned
<1> QED
  BY <1>4, <1>5, <1>6 DEF FdInvariant

\* The two sites: the call goes on without its descriptor, which stays open.
LEMMA StraySound ==
  ASSUME FdInvariant, call.at \in {"connect", "prepare"}, call.op \in {"connect", "fileRead"},
         UNCHANGED <<open, held, addr>>,
         call' \in [op : CallOps, at : Unplaced, fd : {NoFd},
                   families : Seq(Families), type : SocketTypes, port : AnyPort],
         Comes(call'.op, call'.at)
  PROVE  FdInvariant'
<1>1. call.fd \in DOMAIN open \ held /\ Mine(open[call.fd], call)
  BY DEF FdInvariant, CallReady, Placed
<1>2. MayStray(open[call.fd])
  BY <1>1 DEF Mine, MayStray, Stage
<1>3. FdTyped'
  BY DEF FdInvariant, FdTyped, Unplaced, Placed
<1>4. CallReady'
  BY DEF CallReady, Unplaced, Placed
<1>5. Owned'
  BY <1>1, <1>2 DEF FdInvariant, Owned
<1> QED
  BY <1>3, <1>4, <1>5 DEF FdInvariant

\* The next result of getaddrinfo is tried.
LEMMA NextResultSound ==
  ASSUME FdInvariant, call.at \in {"options", "bind", "listen", "connect"}, NextResult
  PROVE  /\ call' \in [op : CallOps, at : Unplaced, fd : {NoFd},
                       families : Seq(Families), type : SocketTypes, port : AnyPort]
         /\ Comes(call'.op, call'.at)
<1>1. call.families \in Seq(Families) /\ call.families # <<>>
  BY DEF FdInvariant, FdTyped, CallReady
<1>2. Tail(call.families) \in Seq(Families)
  BY <1>1
<1>3. call' = [call EXCEPT !.at = "socket", !.fd = NoFd, !.families = Tail(call.families)]
  BY DEF NextResult
<1>4. call' \in [op : CallOps, at : Unplaced, fd : {NoFd},
                families : Seq(Families), type : SocketTypes, port : AnyPort]
  BY <1>2, <1>3 DEF FdInvariant, FdTyped, Unplaced
<1>5. call'.op = call.op /\ call'.at = "socket"
  BY <1>3 DEF FdInvariant, FdTyped
<1>6. call.op \in {"server", "listen", "client", "connect"}
  BY DEF FdInvariant, CallReady, Comes
<1> QED
  BY <1>4, <1>5, <1>6 DEF Comes

LEMMA GivenUpSound ==
  ASSUME FdInvariant, call.at \in {"options", "bind", "listen", "connect"}, GivenUp
  PROVE  FdInvariant'
<1>1. NextResult /\ Close(call.fd) /\ UNCHANGED <<held, addr>>
  BY DEF GivenUp
<1>2. call.at \in Placed
  BY DEF Placed
<1> QED
  BY <1>1, <1>2, NextResultSound, ClosedSound

LEMMA IdleTyped == Idle \in [op : CallOps, at : Unplaced, fd : {NoFd},
                            families : Seq(Families), type : SocketTypes, port : AnyPort]
                   /\ Comes(Idle.op, Idle.at) /\ Idle.fd = NoFd /\ Idle.at \in Unplaced
BY DEF Idle, CallOps, Unplaced, SocketTypes, AnyPort, Comes

LEMMA BeginSound ==
  ASSUME FdInvariant, NEW op \in {"server", "client", "listen", "connect"},
         NEW families \in Seq(Families), NEW t \in SocketTypes, NEW port \in AnyPort,
         Begin(op, families, t, port)
  PROVE  FdInvariant'
<1>1. /\ call = Idle /\ UNCHANGED <<open, held, addr>>
      /\ call' = [op |-> op, at |-> "socket", fd |-> NoFd, families |-> families,
                  type |-> t, port |-> port]
  BY DEF Begin
<1>2. call.at \in Unplaced
  BY <1>1, IdleTyped
<1>3. call' \in [op : CallOps, at : Unplaced, fd : {NoFd}, families : Seq(Families),
                type : SocketTypes, port : AnyPort] /\ Comes(call'.op, call'.at)
  BY <1>1 DEF CallOps, Unplaced, Comes
<1> QED
  BY <1>1, <1>2, <1>3, NoDescriptor

\* Only the address changes.
LEMMA AddrSound ==
  ASSUME FdInvariant, addr' \in [family : Families \cup {"UNSPEC", "FILE"}, port : AnyPort],
         UNCHANGED <<open, held, call>>
  PROVE  FdInvariant'
<1>1. FdTyped'
  BY DEF FdInvariant, FdTyped
<1>2. CallReady'
  BY DEF FdInvariant, CallReady
<1>3. Owned'
  BY DEF FdInvariant, Owned
<1> QED
  BY <1>1, <1>2, <1>3 DEF FdInvariant

-----------------------------------------------------------------------------
LEMMA FdInitial == FdInit => FdInvariant
<1> SUFFICES ASSUME FdInit PROVE FdInvariant
  OBVIOUS
<1>1. open = <<>> /\ held = {} /\ addr = [family |-> "UNSPEC", port |-> Zero] /\ call = Idle
  BY DEF FdInit
<1>2. DOMAIN open = {} /\ open \in [DOMAIN open -> Described]
  BY <1>1
<1>3. FdTyped
  BY <1>1, <1>2, IdleTyped DEF FdTyped, AnyPort, Unplaced, Placed
<1>4. CallReady
  BY <1>1, IdleTyped DEF CallReady, Idle, Placed, Unplaced
<1>5. Owned
  BY <1>1, <1>2 DEF Owned
<1> QED
  BY <1>3, <1>4, <1>5 DEF FdInvariant

LEMMA FdAddresses ==
  ASSUME FdInvariant, AddrNetwork \/ AddrCleared \/ AddrSetPort \/ AddrLocal
  PROVE  FdInvariant'
<1>a. \A p \in Ports \cup {Zero} : p \in AnyPort
  BY FdAssumption DEF AnyPort
<1>1. CASE AddrNetwork
  <2>1. PICK f \in Families, p \in Ports \cup {Zero} :
          addr' = [family |-> f, port |-> Swap(p)] /\ UNCHANGED <<open, held, call>>
    BY <1>1 DEF AddrNetwork
  <2>2. Swap(p) \in AnyPort
    BY <1>a, SwapTyped
  <2> QED
    BY <2>1, <2>2, AddrSound
<1>2. CASE AddrCleared
  <2>1. addr' = [family |-> "UNSPEC", port |-> Zero] /\ UNCHANGED <<open, held, call>>
    BY <1>2 DEF AddrCleared
  <2> QED
    BY <1>a, <2>1, AddrSound
<1>3. CASE AddrSetPort
  <2>1. PICK f \in Families, p \in Ports \cup {Zero} :
          addr' = [family |-> f, port |-> p] /\ UNCHANGED <<open, held, call>>
    BY <1>3 DEF AddrSetPort
  <2> QED
    BY <1>a, <2>1, AddrSound
<1>4. CASE AddrLocal
  <2>1. PICK fd \in held : /\ open[fd].stage \in {"bound", "listening"}
                           /\ addr' = [family |-> open[fd].family, port |-> Swap(open[fd].wire)]
                           /\ UNCHANGED <<open, held, call>>
    BY <1>4 DEF AddrLocal
  <2>2. fd \in DOMAIN open
    BY DEF FdInvariant, Owned
  <2>3. open[fd] \in Described
    BY <2>2 DEF FdInvariant, FdTyped
  <2>5. open[fd].family \in Families \cup {"UNSPEC", "FILE"}
    BY <2>3 DEF Described
  <2>4. open[fd].wire \in AnyPort /\ Swap(open[fd].wire) \in AnyPort
    BY <2>3, SwapTyped DEF Described
  <2> QED
    BY <2>1, <2>4, <2>5, AddrSound
<1> QED
  BY <1>1, <1>2, <1>3, <1>4

LEMMA FdCalls ==
  ASSUME FdInvariant, ServerCall \/ ClientCall \/ ListenCall \/ ConnectCall
  PROVE  FdInvariant'
<1>a. \A p \in Ports \cup {Zero} : p \in AnyPort
  BY FdAssumption DEF AnyPort
<1>b. addr.port \in AnyPort
  BY DEF FdInvariant, FdTyped
<1>c. OfAddr \in Seq(Families)
  <2>1. CASE addr.family \in Families
    BY <2>1 DEF OfAddr
  <2>2. CASE addr.family \notin Families
    BY <2>2 DEF OfAddr
  <2> QED
    BY <2>1, <2>2
<1>1. CASE ServerCall
  <2>1. PICK f \in Families \cup {"UNSPEC"}, t \in SocketTypes, p \in Ports \cup {Zero} :
          \E r \in Results(f) : Begin("server", r, t, p)
    BY <1>1 DEF ServerCall, SocketTypes
  <2>2. PICK r \in Results(f) : Begin("server", r, t, p)
    BY <2>1
  <2>3. r \in Seq(Families)
    BY ResultsTyped
  <2> QED
    BY <1>a, <2>2, <2>3, BeginSound
<1>2. CASE ClientCall
  <2>1. PICK f \in Families \cup {"UNSPEC"}, t \in SocketTypes,
             p \in (Ports \cup {ToPort(addr)}) \ {Zero} :
          \E r \in Results(f) : Begin("client", r, t, p)
    BY <1>2 DEF ClientCall, SocketTypes
  <2>2. PICK r \in Results(f) : Begin("client", r, t, p)
    BY <2>1
  <2>3. r \in Seq(Families) /\ p \in AnyPort
    BY <1>a, <1>b, ResultsTyped DEF ToPort
  <2> QED
    BY <2>2, <2>3, BeginSound
<1>3. CASE ListenCall
  BY <1>3, <1>b, <1>c, BeginSound DEF ListenCall, SocketTypes
<1>4. CASE ConnectCall
  BY <1>4, <1>b, <1>c, BeginSound DEF ConnectCall, SocketTypes
<1> QED
  BY <1>1, <1>2, <1>3, <1>4

LEMMA FdSockets ==
  ASSUME FdInvariant, Socket \/ SetOptions \/ ServerBind \/ ListenBind \/ Listen
  PROVE  FdInvariant'
<1>a. call.port \in AnyPort /\ call.families \in Seq(Families) /\ call.type \in SocketTypes
  BY DEF FdInvariant, FdTyped
<1>b. Comes(call.op, call.at)
  BY DEF FdInvariant, CallReady
<1>c. call.at \in {"options", "bind", "listen", "connect"} => call.families # <<>>
  BY DEF FdInvariant, CallReady
<1>1. CASE Socket
  <2> DEFINE next == IF call.op \in {"server", "listen"} THEN "options" ELSE "connect"
  <2>1. call.at = "socket" /\ call.families # <<>> /\ UNCHANGED <<held, addr>>
    BY <1>1 DEF Socket
  <2>2. CASE NewFd(Head(call.families), next)
    <3>1. Head(call.families) \in Families
      BY <1>a, <2>1
    <3>2. Comes(call.op, next) /\ next \in Placed /\ next \notin {"listen", "done"}
      BY <1>b, <2>1 DEF Comes, Placed
    <3> HIDE DEF next
    <3> QED
      BY <2>1, <2>2, <3>1, <3>2, NewSound DEF Unplaced
  <2>3. CASE call' = [call EXCEPT !.families = Tail(@)] /\ UNCHANGED open
    <3>1. Tail(call.families) \in Seq(Families)
      BY <1>a, <2>1
    <3>2. call.fd = NoFd
      BY <2>1 DEF FdInvariant, CallReady, Unplaced
    <3>3. call' \in [op : CallOps, at : Unplaced, fd : {NoFd}, families : Seq(Families),
                    type : SocketTypes, port : AnyPort]
      BY <2>1, <2>3, <3>1, <3>2 DEF FdInvariant, FdTyped, Unplaced
    <3>4. call'.op = call.op /\ call'.at = call.at
      BY <2>3 DEF FdInvariant, FdTyped
    <3> QED
      BY <1>b, <2>1, <2>3, <3>3, <3>4, NoDescriptor DEF Unplaced
  <2> QED
    BY <1>1, <2>2, <2>3 DEF Socket
<1>2. CASE SetOptions
  <2>1. call.at = "options" /\ (Goes("bind", "new", Zero) \/ GivenUp)
    BY <1>2 DEF SetOptions
  <2>2. CASE Goes("bind", "new", Zero)
    <3>1. /\ call.at \in Placed /\ "bind" \in Placed /\ Zero \in AnyPort /\ Comes(call.op, "bind")
          /\ "new" = Stage(call.op, "bind", call.type)
      BY <1>b, <2>1 DEF Placed, AnyPort, Comes, Stage
    <3> QED
      BY <1>c, <2>1, <2>2, <3>1, GoesSound
  <2> QED
    BY <2>1, <2>2, GivenUpSound
<1>3. CASE ServerBind
  <2> DEFINE next == IF call.type = "STREAM" THEN "listen" ELSE "done"
  <2>1. call.op = "server" /\ call.at = "bind"
    BY <1>3 DEF ServerBind, At
  <2>2. ASSUME NEW w \in WirePorts(call.port), Goes(next, "bound", w)
        PROVE  FdInvariant'
    <3>1. w \in AnyPort /\ (call.port # Zero => w = Swap(call.port))
      BY <1>a, WireTyped DEF WirePorts
    <3>2. /\ next \in Placed /\ Comes(call.op, next) /\ "bound" = Stage(call.op, next, call.type)
          /\ next = "listen" => call.type = "STREAM"
      BY <1>a, <2>1 DEF Placed, Comes, Stage, SocketTypes
    <3>3. call.at \in Placed /\ call.families # <<>>
      BY <1>c, <2>1 DEF Placed
    <3> HIDE DEF next
    <3> QED
      BY <2>1, <2>2, <3>1, <3>2, <3>3, GoesSound
  <2>3. CASE GivenUp
    BY <2>1, <2>3, GivenUpSound
  <2> QED
    BY <1>3, <2>2, <2>3 DEF ServerBind
<1>4. CASE ListenBind
  <2>1. call.op = "listen" /\ call.at = "bind"
    BY <1>4 DEF ListenBind, At
  <2>2. ASSUME NEW w \in WirePorts(call.port), Goes("listen", "bound", w),
               FitsSockaddr(open[call.fd].family)
        PROVE  FdInvariant'
    <3>1. w \in AnyPort
      BY <1>a, WireTyped
    <3>2. /\ "listen" \in Placed /\ Comes(call.op, "listen")
          /\ "bound" = Stage(call.op, "listen", call.type)
      BY <2>1 DEF Placed, Comes, Stage
    <3>3. call.at \in Placed /\ call.families # <<>>
      BY <1>c, <2>1 DEF Placed
    <3> QED
      BY <2>1, <2>2, <3>1, <3>2, <3>3, GoesSound DEF FitsSockaddr
  <2>3. CASE GivenUp
    BY <2>1, <2>3, GivenUpSound
  <2> QED
    BY <1>4, <2>2, <2>3 DEF ListenBind
<1>5. CASE Listen
  <2>1. call.at = "listen" /\ (Goes("done", "listening", open[call.fd].wire) \/ GivenUp)
    BY <1>5 DEF Listen
  <2>2. CASE Goes("done", "listening", open[call.fd].wire)
    <3>1. call.fd \in DOMAIN open /\ Mine(open[call.fd], call)
          /\ (call.op = "server" => call.type = "STREAM")
      BY <2>1 DEF FdInvariant, CallReady, Placed
    <3>2. open[call.fd].wire \in AnyPort
      BY <3>1 DEF FdInvariant, FdTyped, Described
    <3>3. /\ call.at \in Placed /\ "done" \in Placed /\ Comes(call.op, "done")
          /\ "listening" = Stage(call.op, "done", call.type)
      BY <1>b, <2>1, <3>1 DEF Placed, Comes, Stage
    <3>4. /\ call.op \in {"server", "client"} /\ call.port # Zero =>
                open[call.fd].wire = Swap(call.port)
          /\ call.op \in {"listen", "connect"} => open[call.fd].family = "INET"
      BY <2>1, <3>1 DEF Mine
    <3> QED
      BY <1>c, <2>1, <2>2, <3>2, <3>3, <3>4, GoesSound
  <2> QED
    BY <2>1, <2>2, GivenUpSound
<1> QED
  BY <1>1, <1>2, <1>3, <1>4, <1>5

LEMMA FdConnects ==
  ASSUME FdInvariant, ClientConnect \/ Connect
  PROVE  FdInvariant'
<1>a. call.port \in AnyPort /\ Swap(call.port) \in AnyPort
  BY SwapTyped DEF FdInvariant, FdTyped
<1>b. call.at = "connect" => call.families # <<>> /\ call.at \in Placed
  BY DEF FdInvariant, CallReady, Placed
<1>1. CASE ClientConnect
  <2>1. call.op = "client" /\ call.at = "connect"
        /\ (Goes("done", "connected", Swap(call.port)) \/ GivenUp)
    BY <1>1 DEF ClientConnect, At
  <2>2. CASE Goes("done", "connected", Swap(call.port))
    <3>1. /\ "done" \in Placed /\ Comes(call.op, "done")
          /\ "connected" = Stage(call.op, "done", call.type)
      BY <2>1 DEF Placed, Comes, Stage
    <3> QED
      BY <1>a, <1>b, <2>1, <2>2, <3>1, GoesSound
  <2> QED
    BY <2>1, <2>2, GivenUpSound
<1>2. CASE Connect
  <2>1. call.op = "connect" /\ call.at = "connect"
    BY <1>2 DEF Connect, At
  <2>2. CASE Goes("done", "connected", Swap(call.port)) /\ FitsSockaddr(open[call.fd].family)
    <3>1. /\ "done" \in Placed /\ Comes(call.op, "done")
          /\ "connected" = Stage(call.op, "done", call.type)
      BY <2>1 DEF Placed, Comes, Stage
    <3> QED
      BY <1>a, <1>b, <2>1, <2>2, <3>1, GoesSound DEF FitsSockaddr
  <2>3. CASE NextResult /\ UNCHANGED <<open, held, addr>>
    BY <2>1, <2>3, NextResultSound, StraySound
  <2> QED
    BY <1>2, <2>2, <2>3 DEF Connect
<1> QED
  BY <1>1, <1>2

LEMMA FdHeld ==
  ASSUME FdInvariant, Return \/ Accept \/ Disconnect
  PROVE  FdInvariant'
<1>1. CASE Return
  <2>1. /\ call.at = "done" \/ call.at = "socket"
        /\ held' = held \cup ({call.fd} \ {NoFd}) /\ call' = Idle /\ UNCHANGED <<open, addr>>
    BY <1>1 DEF Return
  <2>2. FdTyped'
    BY <2>1, IdleTyped DEF FdInvariant, FdTyped, Unplaced, Placed
  <2>3. CallReady'
    BY <2>1, IdleTyped DEF CallReady, Unplaced, Placed
  <2>4. CASE call.at = "done"
    <3>1. call.fd \in DOMAIN open /\ Mine(open[call.fd], call)
      BY <2>4 DEF FdInvariant, CallReady, Placed
    <3>2. call.fd # NoFd
      BY <3>1, FdAssumption DEF FdInvariant, FdTyped
    <3>3. call.op \in {"server", "listen", "client", "connect"}
      BY <2>4 DEF FdInvariant, CallReady, Comes
    <3>4. Ready(open[call.fd])
      <4> DEFINE s == open[call.fd]
      <4>1. /\ s.op = call.op /\ s.type = call.type /\ s.asked = call.port
            /\ s.stage = Stage(call.op, "done", call.type)
            /\ call.op \in {"server", "client"} /\ call.port # Zero => s.wire = Swap(call.port)
            /\ call.op \in {"listen", "connect"} => s.family = "INET"
        BY <2>4, <3>1 DEF Mine
      <4> HIDE DEF s
      <4>2. Ready(s)
        BY <3>3, <4>1 DEF Ready, Stage
      <4> QED
        BY <4>2 DEF s
    <3>5. held' = held \cup {call.fd} /\ call'.fd = NoFd
      BY <2>1, <3>2, IdleTyped
    <3>6. Owned'
      BY <2>1, <3>1, <3>4, <3>5 DEF FdInvariant, Owned
    <3> QED
      BY <2>2, <2>3, <3>6 DEF FdInvariant
  <2>5. CASE call.at = "socket"
    <3>1. call.fd = NoFd
      BY <2>5 DEF FdInvariant, CallReady, Unplaced
    <3>2. held' = held /\ call'.fd = NoFd
      BY <2>1, <3>1, IdleTyped
    <3>3. Owned'
      BY <2>1, <3>1, <3>2 DEF FdInvariant, Owned
    <3> QED
      BY <2>2, <2>3, <3>3 DEF FdInvariant
  <2> QED
    BY <2>1, <2>4, <2>5
<1>2. CASE Accept
  <2>1. PICK server \in held, fd \in FreeFd :
          /\ call = Idle /\ open[server].stage = "listening"
          /\ open' = [d \in DOMAIN open \cup {fd} |->
                        IF d = fd
                        THEN [open[server] EXCEPT !.op = "accept", !.stage = "connected"]
                        ELSE open[d]]
          /\ held' = held \cup {fd} /\ UNCHANGED <<addr, call>>
    BY <1>2 DEF Accept
  <2> DEFINE new == [open[server] EXCEPT !.op = "accept", !.stage = "connected"]
  <2>2. fd \in Fds /\ fd \notin DOMAIN open /\ server \in DOMAIN open
    BY DEF FreeFd, FdInvariant, Owned
  <2>3. open[server] \in Described
    BY <2>2 DEF FdInvariant, FdTyped
  <2>4. new \in Described /\ new.op = "accept" /\ new.stage = "connected"
    BY <2>3 DEF Described
  <2> HIDE DEF new
  <2>5. /\ DOMAIN open' = DOMAIN open \cup {fd} /\ open'[fd] = new
        /\ \A d \in DOMAIN open : open'[d] = open[d]
        /\ open' \in [DOMAIN open' -> Described]
    BY <2>1, <2>2, <2>4 DEF FdInvariant, FdTyped, new
  <2>6. Ready(new)
    BY <2>4 DEF Ready
  <2>7. FdTyped'
    BY <2>1, <2>2, <2>5 DEF FdInvariant, FdTyped
  <2>8. CallReady'
    BY <2>1, IdleTyped DEF CallReady, Unplaced, Placed
  <2>9. Owned'
    <3>1. held' \subseteq DOMAIN open'
      BY <2>1, <2>5 DEF FdInvariant, Owned
    <3>2. \A d \in held' : Ready(open'[d])
      BY <2>1, <2>5, <2>6 DEF FdInvariant, Owned
    <3>3. \A d \in DOMAIN open' \ (held' \cup {call'.fd}) : MayStray(open'[d])
      BY <2>1, <2>5 DEF FdInvariant, Owned
    <3> QED
      BY <3>1, <3>2, <3>3 DEF Owned
  <2> QED
    BY <2>7, <2>8, <2>9 DEF FdInvariant
<1>3. CASE Disconnect
  <2>1. PICK fd \in held : call = Idle /\ Close(fd) /\ held' = held \ {fd}
                           /\ UNCHANGED <<addr, call>>
    BY <1>3 DEF Disconnect
  <2>2. open' = [d \in DOMAIN open \ {fd} |-> open[d]]
    BY <2>1 DEF Close, Restrict
  <2>3. /\ DOMAIN open' = DOMAIN open \ {fd}
        /\ \A d \in DOMAIN open' : open'[d] = open[d]
        /\ open' \in [DOMAIN open' -> Described]
    BY <2>2 DEF FdInvariant, FdTyped
  <2>4. FdTyped'
    BY <2>1, <2>3 DEF FdInvariant, FdTyped
  <2>5. CallReady'
    BY <2>1, IdleTyped DEF CallReady, Unplaced, Placed
  <2>6. Owned'
    <3>1. held' \subseteq DOMAIN open'
      BY <2>1, <2>3 DEF FdInvariant, Owned
    <3>2. \A d \in held' : Ready(open'[d])
      BY <2>1, <2>3, <3>1 DEF FdInvariant, Owned
    <3>3. \A d \in DOMAIN open' \ (held' \cup {call'.fd}) : MayStray(open'[d])
      BY <2>1, <2>3 DEF FdInvariant, Owned
    <3> QED
      BY <3>1, <3>2, <3>3 DEF Owned
  <2> QED
    BY <2>4, <2>5, <2>6 DEF FdInvariant
<1> QED
  BY <1>1, <1>2, <1>3

LEMMA FdFiles ==
  ASSUME FdInvariant, FileCall \/ FileOpen \/ FileReadPrepare \/ FileTransfer
  PROVE  FdInvariant'
<1>a. call \in [op : CallOps, at : Unplaced \cup Placed, fd : Fds \cup {NoFd},
               families : Seq(Families), type : SocketTypes, port : AnyPort]
      /\ Comes(call.op, call.at)
  BY DEF FdInvariant, FdTyped, CallReady
<1>1. CASE FileCall
  <2>1. PICK op \in {"fileRead", "fileWrite"} :
          call = Idle /\ call' = [call EXCEPT !.op = op, !.at = "open"]
          /\ UNCHANGED <<open, held, addr>>
    BY <1>1 DEF FileCall
  <2>2. call' \in [op : CallOps, at : Unplaced, fd : {NoFd}, families : Seq(Families),
                  type : SocketTypes, port : AnyPort]
    BY <1>a, <2>1, IdleTyped DEF CallOps, Unplaced
  <2>3. call'.op = op /\ call'.at = "open"
    BY <1>a, <2>1
  <2>4. Comes(call'.op, call'.at)
    BY <2>3 DEF Comes
  <2> QED
    BY <2>1, <2>2, <2>4, IdleTyped, NoDescriptor
<1>2. CASE FileOpen
  <2> DEFINE next == IF call.op = "fileRead" THEN "prepare" ELSE "transfer"
  <2>1. call.at = "open" /\ UNCHANGED <<held, addr>>
    BY <1>2 DEF FileOpen
  <2>2. CASE NewFd("FILE", next)
    <3>1. next \in Placed /\ next \in {"prepare", "transfer"} /\ next \notin {"listen", "done"}
          /\ Comes(call.op, next)
      BY <1>a, <2>1 DEF Placed, Comes
    <3> HIDE DEF next
    <3> QED
      BY <2>1, <2>2, <3>1, NewSound DEF Unplaced
  <2>3. CASE call' = Idle /\ UNCHANGED open
    BY <2>1, <2>3, IdleTyped, NoDescriptor DEF Unplaced
  <2> QED
    BY <1>2, <2>2, <2>3 DEF FileOpen
<1>3. CASE FileReadPrepare
  <2>1. call.op = "fileRead" /\ call.at = "prepare" /\ UNCHANGED <<open, held, addr>>
    BY <1>3 DEF FileReadPrepare, At
  <2>2. CASE call' = [call EXCEPT !.at = "transfer"]
    <3>1. /\ call'.op = call.op /\ call'.at = "transfer" /\ call'.fd = call.fd
          /\ call'.families = call.families /\ call'.type = call.type /\ call'.port = call.port
          /\ call' \in [op : CallOps, at : Unplaced \cup Placed, fd : Fds \cup {NoFd},
                        families : Seq(Families), type : SocketTypes, port : AnyPort]
      BY <1>a, <2>2 DEF Placed
    <3>2. call.fd \in DOMAIN open \ held /\ Mine(open[call.fd], call)
      BY <2>1 DEF FdInvariant, CallReady, Placed
    <3>3. Mine(open[call.fd], call')
      BY <2>1, <3>1, <3>2 DEF Mine, Stage
    <3>4. FdTyped'
      BY <2>1, <3>1 DEF FdInvariant, FdTyped
    <3>5. CallReady'
      BY <2>1, <3>1, <3>2, <3>3 DEF CallReady, Unplaced, Placed, Comes
    <3>6. Owned'
      BY <2>1, <3>1 DEF FdInvariant, Owned
    <3> QED
      BY <3>4, <3>5, <3>6 DEF FdInvariant
  <2>3. CASE call' = Idle
    BY <2>1, <2>3, IdleTyped, StraySound
  <2> QED
    BY <1>3, <2>2, <2>3 DEF FileReadPrepare
<1>4. CASE FileTransfer
  <2>1. call.at = "transfer" /\ Close(call.fd) /\ call' = Idle /\ UNCHANGED <<held, addr>>
    BY <1>4 DEF FileTransfer
  <2> QED
    BY <2>1, IdleTyped, ClosedSound DEF Placed
<1> QED
  BY <1>1, <1>2, <1>3, <1>4

LEMMA FdStep == FdInvariant /\ [FdNext]_fdVars => FdInvariant'
<1> SUFFICES ASSUME FdInvariant, [FdNext]_fdVars PROVE FdInvariant'
  OBVIOUS
<1>1. CASE UNCHANGED fdVars
  BY <1>1, AddrSound DEF fdVars, FdInvariant, FdTyped
<1>2. CASE FdNext
  BY <1>2, FdAddresses, FdCalls, FdSockets, FdConnects, FdHeld, FdFiles DEF FdNext
<1> QED
  BY <1>1, <1>2

\* Whichever system call fails, for any descriptors and ports: no descriptor is
\* closed behind the program's back, none is left without an owner but those of
\* amskt_connect and amfile_read (libam_fdopers.c:206 and :94), and what a call
\* returns is what was asked for.
THEOREM DescriptorsKept == FdSpec => []DescriptorsSound
<1>1. FdInvariant => DescriptorsSound
  BY OwnedSound DEF FdInvariant, DescriptorsSound
<1> QED
  BY <1>1, FdInitial, FdStep, PTL DEF FdSpec

-----------------------------------------------------------------------------
(* The periodic clock.                                                      *)

\* The thread has started and not yet left.
InThread == {"check", "sample", "ignore", "reset", "ignored", "interval", "drift", "raise",
             "store", "asleep", "quit", "free"}

TimeTyped ==
    /\ clock \in Int
    /\ mem \in {"none", "live", "freed"}
    /\ handle \in [refresh_period : Int, max_drift : Int, now : Int, stop : BOOLEAN,
                   thread_free : BOOLEAN, ignore_drift : BOOLEAN]
    /\ thread \in [at : InThread \cup {"none", "gone"}, new_now : Int, old_now : Int,
                   ref_period : Int]
    /\ caller \in {"idle", "refused", "setPeriod", "stopFlag", "stopRead", "stopped", "join",
                   "joined"}
    /\ touched \subseteq {"stopRead"}

\* Whose turn it is to free the handle, by how far a stop has come: the thread's
\* once thread_free is set, which comes before stop, and the caller's after the join.
Turn ==
    /\ mem = "none" <=> thread.at = "none"
    /\ mem = "none" => caller \in {"idle", "refused"}
    /\ caller = "refused" => mem = "none"
    /\ handle.thread_free => caller \in {"stopFlag", "stopRead", "stopped"}
    /\ caller \in {"stopFlag", "stopRead"} => handle.thread_free
    /\ handle.stop => caller \in {"stopRead", "stopped", "join", "joined"}
    /\ thread.at \in {"quit", "free", "gone"} => handle.stop
    /\ thread.at = "free" => handle.thread_free
    /\ thread.at \in InThread => mem = "live"
    /\ thread.at = "gone" /\ handle.thread_free => mem = "freed"
    /\ caller = "joined" => thread.at = "gone"
    /\ caller \in {"join", "joined"} => mem = "live"
    /\ caller = "stopped" /\ ~handle.thread_free => thread.at = "gone"

TimeInvariant == TimeTyped /\ Turn

LEMMA ClockInit == TimeInit => TimeInvariant
BY TimeAssumption DEF TimeInit, TimeInvariant, TimeTyped, Turn, InThread

LEMMA ClockStep == TimeInvariant /\ [TimeNext]_timeVars => TimeInvariant'
<1> SUFFICES ASSUME TimeInvariant, [TimeNext]_timeVars PROVE TimeInvariant'
  OBVIOUS
<1>a. Default \in Nat /\ Periods \subseteq Nat
  BY TimeAssumption
<1>b. \A p \in Periods : Period(p) \in Nat
  BY <1>a DEF Period
<1> USE DEF TimeInvariant, TimeTyped, Turn, InThread
<1>1. CASE Elapse
  BY <1>1 DEF Elapse
<1>2. CASE TickCheck
  BY <1>2 DEF TickCheck, Step, Touch
<1>3. CASE TickSample
  BY <1>3 DEF TickSample, Touch
<1>4. CASE TickDrift
  BY <1>4 DEF TickDrift, Step, Touch
<1>5. CASE TickRaise
  BY <1>5 DEF TickRaise, Step, Touch
<1>6. CASE TickIgnore
  BY <1>6 DEF TickIgnore, Step, Touch
<1>7. CASE TickIgnored
  BY <1>7 DEF TickIgnored, Step, Touch
<1>24. CASE TickReset
  BY <1>24 DEF TickReset, Step, Touch
<1>25. CASE TickInterval
  BY <1>25 DEF TickInterval, Touch
<1>8. CASE TickStore
  BY <1>8 DEF TickStore, Step, Touch
<1>9. CASE TickWake
  BY <1>9 DEF TickWake, Step
<1>10. CASE TickQuit
  BY <1>10 DEF TickQuit, Step, Touch
<1>11. CASE TickFree
  BY <1>11 DEF TickFree, Step, Free
<1>12. CASE Start
  <2>1. PICK p \in Periods :
          /\ caller = "idle" /\ mem = "none" /\ UNCHANGED <<clock, calls, touched>>
          /\ \/ /\ mem' = "live"
                /\ handle' = [refresh_period |-> Period(p), max_drift |-> 1, now |-> clock,
                              stop |-> FALSE, thread_free |-> FALSE, ignore_drift |-> FALSE]
                /\ thread' = [thread EXCEPT !.at = "check"]
                /\ UNCHANGED caller
             \/ caller' = "refused" /\ UNCHANGED <<mem, handle, thread>>
    BY <1>12 DEF Start
  <2>2. CASE caller' = "refused" /\ UNCHANGED <<mem, handle, thread>>
    BY <2>1, <2>2
  <2>3. CASE /\ mem' = "live"
             /\ handle' = [refresh_period |-> Period(p), max_drift |-> 1, now |-> clock,
                           stop |-> FALSE, thread_free |-> FALSE, ignore_drift |-> FALSE]
             /\ thread' = [thread EXCEPT !.at = "check"]
             /\ UNCHANGED caller
    <3>1. TimeTyped'
      BY <1>b, <2>1, <2>3
    <3>2. thread'.at = "check" /\ ~handle'.thread_free /\ ~handle'.stop
      BY <2>3
    <3>3. Turn'
      BY <2>1, <2>3, <3>2
    <3> QED
      BY <3>1, <3>3
  <2> QED
    BY <2>1, <2>2, <2>3
<1>13. CASE SetIgnore
  BY <1>13 DEF SetIgnore, Touch
<1>14. CASE SetPeriod
  BY <1>14, <1>b DEF SetPeriod, Touch
<1>15. CASE DelMaxDrift
  BY <1>15 DEF DelMaxDrift, Touch
<1>16. CASE Get
  BY <1>16 DEF Get, Touch
<1>17. CASE StopMark
  BY <1>17 DEF StopMark, Move, Touch
<1>18. CASE StopFlag
  BY <1>18 DEF StopFlag, Move, Touch
<1>19. CASE StopRead
  BY <1>19 DEF StopRead, Move, Touch
<1>20. CASE StopAsk
  BY <1>20 DEF StopAsk, Move, Touch
<1>21. CASE StopJoin
  BY <1>21 DEF StopJoin, Move
<1>22. CASE StopFree
  BY <1>22 DEF StopFree, Move, Touch, Free
<1>23. CASE UNCHANGED timeVars
  BY <1>23 DEF timeVars
<1> QED
  BY <1>1, <1>2, <1>3, <1>4, <1>5, <1>6, <1>7, <1>8, <1>9, <1>10, <1>11, <1>12, <1>13, <1>14,
     <1>15, <1>16, <1>17, <1>18, <1>19, <1>20, <1>21, <1>22, <1>23, <1>24, <1>25
     DEF TimeNext, Tick, Stop

\* Nobody uses the handle of a clock after its memory was freed, and it is freed
\* once, whenever either kind of stop comes and whatever the thread was doing: but
\* for the look a stop that does not block has at max_drift (amtime_preiodic_stop).
THEOREM ClockFreedOnce == TimeSpec => []OnlyStopReadsFreed
<1>1. TimeInit => TimeInvariant
  BY ClockInit
<1>2. TimeInvariant /\ [TimeNext]_timeVars => TimeInvariant'
  BY ClockStep
<1>3. TimeInvariant => OnlyStopReadsFreed
  BY DEF TimeInvariant, TimeTyped, OnlyStopReadsFreed
<1> QED
  BY <1>1, <1>2, <1>3, PTL DEF TimeSpec

-----------------------------------------------------------------------------
(* The lists.  A ring holds a list when the links lead through it, both ways. *)
Seat(s, head, i) == IF i \in 1 .. Len(s) THEN s[i] ELSE head

Leads(f, head, s) == \A i \in 0 .. Len(s) : f[Seat(s, head, i)] = Seat(s, head, i + 1)

Memory(D, V) == [next : [D -> V], prev : [D -> V]]

Ring(m, head, s) ==
    /\ head \notin Range(s) /\ IsInjective(s)
    /\ Leads(m.next, head, s)
    /\ \A i \in 0 .. Len(s) : m.prev[Seat(s, head, i + 1)] = Seat(s, head, i)

LEMMA NextRemainder ==
  ASSUME NEW M \in Nat \ {0}, NEW k \in Nat \ {0}
  PROVE  k % M = IF (k - 1) % M = M - 1 THEN 0 ELSE ((k - 1) % M) + 1
<1> DEFINE j == (k - 1) % M
<1>1. PICK q \in Int : k - 1 = M * q + j
  BY Quotient, k - 1 \in Int
<1>2. j \in 0 .. M - 1
  BY Quotient, k - 1 \in Int
<1> HIDE DEF j
<1>3. CASE j = M - 1
  <2>1. k = M * (q + 1) + 0
    BY <1>1, <1>3
  <2>2. 0 \in 0 .. M - 1
    OBVIOUS
  <2>3. k % M = 0
    BY <2>1, <2>2, q + 1 \in Int, k \in Int, OnlyRemainder
  <2> QED
    BY <2>3, <1>3 DEF j
<1>4. CASE j # M - 1
  <2>1. k = M * q + (j + 1) /\ j + 1 \in 0 .. M - 1
    BY <1>1, <1>2, <1>4
  <2>2. k % M = j + 1
    BY <2>1, k \in Int, OnlyRemainder
  <2> QED
    BY <2>2, <1>4 DEF j
<1> QED
  BY <1>3, <1>4

LEMMA ListSize ==
  ASSUME NEW D, IsFiniteSet(D), NEW s \in Seq(D), IsInjective(s),
         NEW head \in D, head \notin Range(s)
  PROVE  Cardinality(D) \in Nat /\ Len(s) + 1 <= Cardinality(D)
<1> DEFINE R == Range(s)
<1>1. R \subseteq D /\ IsFiniteSet(R) /\ Cardinality(D) \in Nat /\ Cardinality(R) \in Nat
  BY RangeInside, FS_Subset, FS_CardinalityType
<1>2. s \in Bijection(1 .. Len(s), R)
  BY DEF Range, IsInjective, Bijection, Injection, Surjection
<1>3. Cardinality(R) = Len(s)
  BY <1>2, FS_CountingElements DEF ExistsBijection
<1>4. Cardinality(R \cup {head}) = Cardinality(R) + 1
  BY <1>1, FS_AddElement
<1>5. Cardinality(R \cup {head}) <= Cardinality(D)
  BY <1>1, FS_Subset, R \cup {head} \in SUBSET D
<1> QED
  BY <1>1, <1>3, <1>4, <1>5

\* A walk finds the list.
LEMMA WalkIs ==
  ASSUME NEW D, IsFiniteSet(D), NEW V, NEW f \in [D -> V], NEW s \in Seq(D), IsInjective(s),
         NEW head \in D, head \notin Range(s), Leads(f, head, s)
  PROVE  Walk(f, head) = s
<1> DEFINE n == Len(s)
           M == n + 1
           bound == Cardinality(DOMAIN f)
           Unfolds(g) == g = [k \in 0 .. bound |-> IF k = 0 THEN head ELSE f[g[k - 1]]]
           at == CHOOSE g : Unfolds(g)
           w == [k \in 0 .. bound |-> Seat(s, head, k % M)]
           end == IF \E k \in 1 .. bound : at[k] = head
                  THEN CHOOSE k \in 1 .. bound : at[k] = head /\ \A j \in 1 .. k - 1 : at[j] # head
                  ELSE bound
<1>1. n \in Nat /\ M \in Nat \ {0} /\ bound \in Nat /\ M <= bound
  BY ListSize
<1>2. \A i \in 0 .. n : f[Seat(s, head, i)] = Seat(s, head, i + 1)
  BY DEF Leads
<1>3. Seat(s, head, 0) = head /\ Seat(s, head, M) = head
  BY <1>1 DEF Seat
<1>4. \A i \in 1 .. n : Seat(s, head, i) = s[i] /\ s[i] # head
  BY DEF Seat, Range
<1>5. ASSUME NEW k \in 0 .. bound
      PROVE  w[k] = IF k = 0 THEN head ELSE f[w[k - 1]]
  <2>1. CASE k = 0
    <3>1. 0 % M = 0
      BY <1>1
    <3> QED
      BY <2>1, <3>1, <1>1, <1>3
  <2>2. CASE k # 0
    <3>1. (k - 1) % M \in 0 .. n
      <4>1. k - 1 \in Int /\ 0 .. M - 1 = 0 .. n
        BY <1>1
      <4> HIDE DEF M
      <4> QED
        BY <4>1, <1>1, Quotient
    <3>2. k % M = IF (k - 1) % M = M - 1 THEN 0 ELSE ((k - 1) % M) + 1
      <4>1. k \in Nat \ {0}
        BY <2>2, <1>1
      <4> HIDE DEF M
      <4> QED
        BY <4>1, <1>1, NextRemainder
    <3>3. w[k] = Seat(s, head, k % M) /\ w[k - 1] = Seat(s, head, (k - 1) % M)
      BY <2>2, <1>1
    <3>4. Seat(s, head, k % M) = Seat(s, head, ((k - 1) % M) + 1)
      BY <3>1, <3>2, <1>1, <1>3
    <3> QED
      BY <2>2, <3>1, <3>3, <3>4, <1>2
  <2> QED
    BY <2>1, <2>2
<1>6. Unfolds(w)
  BY <1>5
<1>7. Unfolds(at)
  <2> HIDE DEF w
  <2> QED
    BY <1>6
<1>8. \A k \in 0 .. bound : at[k] = w[k]
  <2> DEFINE N == {k \in 0 .. bound : at[k] # w[k]}
  <2> SUFFICES ASSUME N # {} PROVE FALSE
    OBVIOUS
  <2>1. N \in SUBSET Nat
    BY <1>1
  <2>2. PICK k \in N : \A j \in N : k <= j
    <3> HIDE DEF N
    <3> QED
      BY <2>1, LeastNumber
  <2>3. at[k] = IF k = 0 THEN head ELSE f[at[k - 1]]
    <3> HIDE DEF at, w
    <3> QED
      BY <1>7
  <2>4. w[k] = IF k = 0 THEN head ELSE f[w[k - 1]]
    <3> HIDE DEF at, w
    <3> QED
      BY <1>5
  <2>5. k # 0 => at[k - 1] = w[k - 1]
    <3> HIDE DEF at, w
    <3> QED
      BY <2>2, <1>1
  <2> HIDE DEF at, w
  <2> QED
    BY <2>2, <2>3, <2>4, <2>5
<1>9. \A k \in 1 .. n : at[k] = s[k] /\ at[k] # head
  <2> TAKE k \in 1 .. n
  <2>1. k % M = k /\ k \in 0 .. bound
    BY <1>1
  <2>2. w[k] = Seat(s, head, k)
    BY <2>1
  <2> HIDE DEF at, w
  <2> QED
    BY <2>1, <2>2, <1>8, <1>4
<1>10. at[M] = head
  <2>1. M % M = 0 /\ M \in 0 .. bound
    BY <1>1
  <2>2. w[M] = head
    BY <2>1, <1>3
  <2> HIDE DEF at, w
  <2> QED
    BY <2>1, <2>2, <1>8
<1>11. end = M
  <2> DEFINE Back(k) == at[k] = head /\ \A j \in 1 .. k - 1 : at[j] # head
  <2>1. M \in 1 .. bound /\ Back(M)
    <3> HIDE DEF at
    <3> QED
      BY <1>1, <1>9, <1>10
  <2>2. ASSUME NEW k \in 1 .. bound, Back(k) PROVE k = M
    <3> HIDE DEF at
    <3> QED
      BY <2>2, <1>1, <1>9, <1>10
  <2> HIDE DEF at, M
  <2>3. end = CHOOSE k \in 1 .. bound : Back(k)
    BY <2>1
  <2> HIDE DEF Back
  <2> QED
    BY <2>1, <2>2, <2>3
<1>12. Walk(f, head) = [k \in 1 .. end - 1 |-> at[k]]
  BY DEF Walk
<1>13. Walk(f, head) = [k \in 1 .. n |-> s[k]]
  <2> HIDE DEF at, end
  <2> QED
    BY <1>1, <1>9, <1>11, <1>12
<1> QED
  BY <1>13

LEMMA SeatsAre ==
  ASSUME NEW D, NEW s \in Seq(D), IsInjective(s), NEW head \in D, head \notin Range(s)
  PROVE  /\ Len(s) \in Nat
         /\ Seat(s, head, 0) = head /\ Seat(s, head, Len(s) + 1) = head
         /\ \A i \in 1 .. Len(s) : /\ Seat(s, head, i) = s[i] /\ s[i] # head
                                   /\ s[i] \in Range(s)
         /\ \A i \in 0 .. Len(s) + 1 : /\ Seat(s, head, i) \in D
                                       /\ Seat(s, head, i) \in Range(s) \cup {head}
         /\ \A i, j \in 0 .. Len(s) : Seat(s, head, i) = Seat(s, head, j) => i = j
         /\ \A i, j \in 1 .. Len(s) + 1 : Seat(s, head, i) = Seat(s, head, j) => i = j
BY DEF Seat, Range, IsInjective

LEMMA RingInit ==
  ASSUME NEW D, NEW nil, NEW head \in D
  PROVE  LET m == ListInit(Links(D, nil), head)
         IN  m \in Memory(D, D \cup {nil}) /\ Ring(m, head, <<>>)
<1> DEFINE m == ListInit(Links(D, nil), head)
<1>1. m = [next |-> [[l \in D |-> nil] EXCEPT ![head] = head],
           prev |-> [[l \in D |-> nil] EXCEPT ![head] = head]]
  <2> DEFINE f == [l \in D |-> nil]
  <2>1. Links(D, nil) = [next |-> f, prev |-> f]
    BY DEF Links
  <2> HIDE DEF f
  <2>2. m = [[next |-> f, prev |-> f] EXCEPT !.next[head] = head, !.prev[head] = head]
    BY <2>1 DEF ListInit
  <2>3. m = [next |-> [f EXCEPT ![head] = head], prev |-> [f EXCEPT ![head] = head]]
    BY <2>2
  <2> QED
    BY <2>3 DEF f
<1>2. m.next[head] = head /\ m.prev[head] = head
  BY <1>1
<1>3. m \in Memory(D, D \cup {nil})
  BY <1>1 DEF Memory
<1>4. Range(<<>>) = {} /\ IsInjective(<<>>)
  BY DEF Range, IsInjective
<1>5. \A i \in 0 .. Len(<<>>) : i = 0
  OBVIOUS
<1>6. Seat(<<>>, head, 0) = head /\ Seat(<<>>, head, 1) = head
  BY DEF Seat
<1> HIDE DEF m
<1> QED
  BY <1>2, <1>3, <1>4, <1>5, <1>6 DEF Ring, Leads, m

LEMMA RingAppend ==
  ASSUME NEW D, NEW V, D \subseteq V, NEW m \in Memory(D, V), NEW s \in Seq(D), NEW head \in D,
         Ring(m, head, s), NEW e \in D, e # head, e \notin Range(s)
  PROVE  /\ ListAddTail(m, head, e) \in Memory(D, V)
         /\ Ring(ListAddTail(m, head, e), head, Append(s, e))
<1> DEFINE n == Len(s)
           t == Append(s, e)
           last == m.prev[head]
           m2 == ListAddTail(m, head, e)
<1>1. IsInjective(s) /\ head \notin Range(s)
  BY DEF Ring
<1>2. /\ n \in Nat
      /\ Seat(s, head, 0) = head /\ Seat(s, head, n + 1) = head
      /\ \A i \in 1 .. n : Seat(s, head, i) = s[i] /\ s[i] # head /\ s[i] \in Range(s)
      /\ \A i \in 0 .. n + 1 : Seat(s, head, i) \in D /\ Seat(s, head, i) \in Range(s) \cup {head}
      /\ \A i, j \in 0 .. n : Seat(s, head, i) = Seat(s, head, j) => i = j
  BY <1>1, SeatsAre
<1>3. /\ \A i \in 0 .. n : m.next[Seat(s, head, i)] = Seat(s, head, i + 1)
      /\ \A i \in 0 .. n : m.prev[Seat(s, head, i + 1)] = Seat(s, head, i)
  BY DEF Ring, Leads
<1>4. last = Seat(s, head, n) /\ last # e /\ last \in D
  BY <1>2, <1>3
<1>5. /\ m2 \in Memory(D, V)
      /\ \A x \in D : m2.next[x] = IF x = last THEN e ELSE IF x = e THEN head ELSE m.next[x]
      /\ \A x \in D : m2.prev[x] = IF x = e THEN last ELSE IF x = head THEN e ELSE m.prev[x]
  BY <1>4 DEF ListAddTail, LinkBetween, Memory
<1>6. /\ t \in Seq(D) /\ Len(t) = n + 1 /\ DOMAIN t = 1 .. n + 1 /\ DOMAIN s = 1 .. n
      /\ t[n + 1] = e /\ \A i \in 1 .. n : t[i] = s[i]
  OBVIOUS
<1>7. /\ \A i \in 0 .. n : Seat(t, head, i) = Seat(s, head, i)
      /\ Seat(t, head, n + 1) = e /\ Seat(t, head, n + 2) = head
  BY <1>2, <1>6 DEF Seat
<1>8. Range(t) = Range(s) \cup {e}
  BY RangeAppend
<1>9. IsInjective(t)
  BY <1>1, <1>6 DEF IsInjective, Range
<1> HIDE DEF m2, t, last
<1>10. \A i \in 0 .. n + 1 : m2.next[Seat(t, head, i)] = Seat(t, head, i + 1)
  <2> TAKE i \in 0 .. n + 1
  <2>1. CASE i < n
    <3>1. Seat(s, head, i) # last /\ Seat(s, head, i) # e /\ Seat(s, head, i) \in D
      BY <2>1, <1>2, <1>4
    <3>2. m2.next[Seat(s, head, i)] = Seat(s, head, i + 1)
      BY <2>1, <3>1, <1>2, <1>3, <1>5
    <3> QED
      BY <2>1, <3>2, <1>2, <1>7
  <2>2. CASE i = n
    BY <2>2, <1>2, <1>4, <1>5, <1>7
  <2>3. CASE i = n + 1
    BY <2>3, <1>2, <1>4, <1>5, <1>7
  <2> QED
    BY <2>1, <2>2, <2>3, <1>2
<1>11. \A i \in 0 .. n + 1 : m2.prev[Seat(t, head, i + 1)] = Seat(t, head, i)
  <2> TAKE i \in 0 .. n + 1
  <2>1. CASE i < n
    <3>1. Seat(s, head, i + 1) # head /\ Seat(s, head, i + 1) # e /\ Seat(s, head, i + 1) \in D
      BY <2>1, <1>2
    <3>2. m2.prev[Seat(s, head, i + 1)] = Seat(s, head, i)
      BY <2>1, <3>1, <1>2, <1>3, <1>5
    <3> QED
      BY <2>1, <3>2, <1>2, <1>7
  <2>2. CASE i = n
    BY <2>2, <1>2, <1>4, <1>5, <1>7
  <2>3. CASE i = n + 1
    BY <2>3, <1>2, <1>4, <1>5, <1>7
  <2> QED
    BY <2>1, <2>2, <2>3, <1>2
<1>12. Ring(m2, head, t)
  BY <1>1, <1>6, <1>8, <1>9, <1>10, <1>11 DEF Ring, Leads
<1> QED
  BY <1>5, <1>12 DEF m2, t

LEMMA RingTail ==
  ASSUME NEW D, NEW V, D \subseteq V, NEW m \in Memory(D, V), NEW s \in Seq(D), NEW head \in D,
         Ring(m, head, s), s # <<>>
  PROVE  ListDel(m, Head(s)) \in Memory(D, V) /\ Ring(ListDel(m, Head(s)), head, Tail(s))
<1> DEFINE n == Len(s)
           t == Tail(s)
           e == Head(s)
           m2 == ListDel(m, e)
<1>1. IsInjective(s) /\ head \notin Range(s)
  BY DEF Ring
<1>2. /\ n \in Nat
      /\ Seat(s, head, 0) = head /\ Seat(s, head, n + 1) = head
      /\ \A i \in 1 .. n : Seat(s, head, i) = s[i] /\ s[i] # head /\ s[i] \in Range(s)
      /\ \A i \in 0 .. n + 1 : Seat(s, head, i) \in D /\ Seat(s, head, i) \in Range(s) \cup {head}
      /\ \A i, j \in 1 .. n + 1 : Seat(s, head, i) = Seat(s, head, j) => i = j
  BY <1>1, SeatsAre
<1>3. /\ \A i \in 0 .. n : m.next[Seat(s, head, i)] = Seat(s, head, i + 1)
      /\ \A i \in 0 .. n : m.prev[Seat(s, head, i + 1)] = Seat(s, head, i)
  BY DEF Ring, Leads
<1>4. /\ n > 0 /\ e = s[1] /\ t \in Seq(D) /\ Len(t) = n - 1
      /\ \A i \in 1 .. n - 1 : t[i] = s[i + 1]
  OBVIOUS
<1>5. /\ e = Seat(s, head, 1) /\ m.prev[e] = head /\ m.next[e] = Seat(s, head, 2)
      /\ Seat(s, head, 2) \in D /\ e \in D
  BY <1>2, <1>3, <1>4
<1>6. /\ m2 \in Memory(D, V)
      /\ \A x \in D : m2.next[x] = IF x = head THEN Seat(s, head, 2) ELSE m.next[x]
      /\ \A x \in D : m2.prev[x] = IF x = Seat(s, head, 2) THEN head ELSE m.prev[x]
  BY <1>5 DEF ListDel, Memory
<1>7. Seat(t, head, 0) = head /\ \A i \in 1 .. n : Seat(t, head, i) = Seat(s, head, i + 1)
  BY <1>2, <1>4 DEF Seat
<1>8. IsInjective(t) /\ Range(t) = Range(s) \ {e}
  BY <1>1, ListTail
<1> HIDE DEF m2, t, e
<1>9. \A i \in 0 .. n - 1 : m2.next[Seat(t, head, i)] = Seat(t, head, i + 1)
  <2> TAKE i \in 0 .. n - 1
  <2>1. CASE i = 0
    BY <2>1, <1>2, <1>4, <1>6, <1>7
  <2>2. CASE i # 0
    <3>1. Seat(s, head, i + 1) # head /\ Seat(s, head, i + 1) \in D
      BY <2>2, <1>2
    <3>2. m2.next[Seat(s, head, i + 1)] = Seat(s, head, i + 2)
      BY <2>2, <3>1, <1>2, <1>3, <1>6
    <3>3. i \in 1 .. n /\ i + 1 \in 1 .. n /\ (i + 1) + 1 = i + 2
      BY <2>2, <1>2
    <3>4. Seat(t, head, i) = Seat(s, head, i + 1) /\ Seat(t, head, i + 1) = Seat(s, head, i + 2)
      BY <3>3, <1>7
    <3> QED
      BY <3>2, <3>4
  <2> QED
    BY <2>1, <2>2
<1>10. \A i \in 0 .. n - 1 : m2.prev[Seat(t, head, i + 1)] = Seat(t, head, i)
  <2> TAKE i \in 0 .. n - 1
  <2>1. CASE i = 0
    BY <2>1, <1>2, <1>4, <1>5, <1>6, <1>7
  <2>2. CASE i # 0
    <3>1. Seat(s, head, i + 2) # Seat(s, head, 2) /\ Seat(s, head, i + 2) \in D
      BY <2>2, <1>2
    <3>2. m2.prev[Seat(s, head, i + 2)] = Seat(s, head, i + 1)
      BY <2>2, <3>1, <1>2, <1>3, <1>6
    <3>3. i \in 1 .. n /\ i + 1 \in 1 .. n /\ (i + 1) + 1 = i + 2
      BY <2>2, <1>2
    <3>4. Seat(t, head, i) = Seat(s, head, i + 1) /\ Seat(t, head, i + 1) = Seat(s, head, i + 2)
      BY <3>3, <1>7
    <3> QED
      BY <3>2, <3>4
  <2> QED
    BY <2>1, <2>2
<1>11. Ring(m2, head, t)
  BY <1>1, <1>4, <1>8, <1>9, <1>10 DEF Ring, Leads
<1> QED
  BY <1>6, <1>11 DEF m2, t, e

\* A ring is walked in either direction.
LEMMA RingWalks ==
  ASSUME NEW D, IsFiniteSet(D), NEW V, NEW m \in Memory(D, V), NEW s \in Seq(D), NEW head \in D,
         Ring(m, head, s)
  PROVE  ListEntries(m, head) = s /\ Reverse(Walk(m.prev, head)) = s
<1> DEFINE n == Len(s)
           r == Reverse(s)
<1>1. IsInjective(s) /\ head \notin Range(s) /\ Leads(m.next, head, s)
  BY DEF Ring
<1>2. m.next \in [D -> V] /\ m.prev \in [D -> V]
  BY DEF Memory
<1>3. Walk(m.next, head) = s
  BY <1>1, <1>2, WalkIs
<1>4. r \in Seq(D) /\ Range(r) = Range(s) /\ IsInjective(r)
  BY <1>1, ReverseIs
<1>5. n \in Nat /\ r = [i \in 1 .. n |-> s[(n - i) + 1]] /\ Len(r) = n
  BY DEF Reverse
<1>6. \A i \in 0 .. n + 1 : Seat(r, head, i) = Seat(s, head, (n - i) + 1)
  BY <1>5 DEF Seat
<1>7. Leads(m.prev, head, r)
  <2> SUFFICES ASSUME NEW i \in 0 .. n PROVE m.prev[Seat(r, head, i)] = Seat(r, head, i + 1)
    BY <1>5 DEF Leads
  <2>1. n - i \in 0 .. n
    BY <1>5
  <2>2. m.prev[Seat(s, head, (n - i) + 1)] = Seat(s, head, n - i)
    BY <2>1 DEF Ring
  <2>3. (n - (i + 1)) + 1 = n - i /\ i + 1 \in 0 .. n + 1 /\ i \in 0 .. n + 1
    BY <1>5
  <2> HIDE DEF r, n
  <2> QED
    BY <2>2, <2>3, <1>6
<1>8. Walk(m.prev, head) = r
  <2> HIDE DEF r
  <2> QED
    BY <1>1, <1>2, <1>4, <1>7, WalkIs
<1>9. Reverse(r) = s
  <2>1. \A i \in 1 .. n : r[(n - i) + 1] = s[i]
    BY <1>5
  <2> HIDE DEF r
  <2> QED
    BY <2>1, <1>5 DEF Reverse
<1> QED
  BY <1>3, <1>8, <1>9 DEF ListEntries

-----------------------------------------------------------------------------
(* The options.                                                             *)

OptLinks == Options \cup {OptAnchor}

OptsTyped ==
    /\ opt_list \in Memory(OptLinks, OptLinks \cup {Absent})
    /\ known \in Seq(Options)
    /\ DOMAIN member = Options /\ member = [o \in DOMAIN member |-> member[o]]

\* A standard option is not registered twice because it has a parsing function
\* from the first time on, and a flag has no validation to refuse it.
Registered ==
    \A o \in Range(known) :
        /\ Descriptor[o].type # "CUSTOM" => o \in parse
        /\ Descriptor[o].type = "FLAG" => Descriptor[o].accepts = Absent

ShadowedIn(opts, o) == \E i, j \in 1 .. Len(opts) :
    /\ i < j /\ opts[j] = o
    /\ Descriptor[opts[i]].form_long = Descriptor[o].form_long
    /\ Descriptor[o].form_short = ""

\* A value that may be stored as long as none was refused: the default's, or one
\* that the validation accepts.
Meant(o, v) ==
    \/ Descriptor[o].accepts # Absent => v \in Descriptor[o].accepts
    \/ /\ Descriptor[o].default_value # Absent
       /\ v \in Parsed(o, Descriptor[o].default_value)

\* Options that are set have a value, and were named if they were mandatory; those
\* that are not are mandatory.
Given ==
    \A o \in Range(known) :
        IF o \in is_set
        THEN /\ member[o] # Absent /\ (clean => Meant(o, member[o]))
             /\ Starred(o) => ~ShadowedIn(known, o)
        ELSE Starred(o)

OptsInvariant ==
    /\ OptsTyped /\ Registered /\ Given
    /\ Ring(opt_list, OptAnchor, known)
    /\ reading => outcome = "none"
    /\ ReadHonest

LEMMA HonestIs ==
  ReadHonest <=>
    /\ outcome = "SUCCESS" => \A o \in Range(known) :
         /\ member[o] # Absent /\ (clean => Meant(o, member[o]))
         /\ Starred(o) => ~ShadowedIn(known, o)
    /\ outcome = "missing" => \E o \in Range(known) : Starred(o) /\ o \notin is_set
BY DEF ReadHonest, ToSet, Range, Meant, Starred, ShadowedIn,
       Shadowed, Accepted

LEMMA HonestNext ==
  ReadHonest' <=>
    /\ outcome' = "SUCCESS" => \A o \in Range(known') :
         /\ member'[o] # Absent /\ (clean' => Meant(o, member'[o]))
         /\ Starred(o) => ~ShadowedIn(known', o)
    /\ outcome' = "missing" => \E o \in Range(known') : Starred(o) /\ o \notin is_set'
BY DEF ReadHonest, ToSet, Range, Meant, Starred, ShadowedIn,
       Shadowed, Accepted

LEMMA OptsWalks ==
  ASSUME OptsInvariant
  PROVE  /\ ListEntries(opt_list, OptAnchor) = known
         /\ Reverse(Walk(opt_list.prev, OptAnchor)) = known
<1>1. IsFiniteSet(OptLinks) /\ OptAnchor \in OptLinks
  BY OptsAssumption, FS_AddElement DEF OptLinks
<1>2. known \in Seq(OptLinks)
  BY DEF OptsInvariant, OptsTyped, OptLinks
<1>3. ListEntries(opt_list, OptAnchor) = known /\ Reverse(Walk(opt_list.prev, OptAnchor)) = known
  BY <1>1, <1>2, RingWalks DEF OptsInvariant, OptsTyped
<1> QED
  BY <1>3

\* The first option of a name is registered, and it is not one that an earlier
\* option shadows.
LEMMA NamedIs ==
  ASSUME OptsInvariant, NEW text, Named(text) # Absent
  PROVE  /\ Named(text) \in Range(known)
         /\ ~ShadowedIn(known, Named(text))
<1> DEFINE at == {i \in DOMAIN known : Matches(known[i], text)}
<1>1. Named(text) = IF at = {} THEN Absent ELSE known[Min(at)]
  BY OptsWalks DEF Named
<1>2. at # {} /\ at \in SUBSET Nat /\ DOMAIN known = 1 .. Len(known)
  BY <1>1 DEF OptsInvariant, OptsTyped
<1>3. PICK k \in at : \A i \in at : k <= i
  <2> HIDE DEF at
  <2> QED
    BY <1>2, LeastNumber
<1>4. Min(at) = k
  <2>1. \A i \in at : (\A j \in at : i <= j) => i = k
    BY <1>2, <1>3
  <2> HIDE DEF at
  <2> QED
    BY <2>1, <1>3 DEF Min
<1>5. Named(text) = known[k] /\ k \in DOMAIN known /\ Matches(known[k], text)
  BY <1>1, <1>2, <1>3, <1>4
<1>6. ASSUME ShadowedIn(known, known[k]) PROVE FALSE
  <2>1. PICK i, j \in 1 .. Len(known) :
            /\ i < j /\ known[j] = known[k]
            /\ Descriptor[known[i]].form_long = Descriptor[known[k]].form_long
            /\ Descriptor[known[k]].form_short = ""
    BY <1>6 DEF ShadowedIn
  <2>2. j = k
    BY <2>1, <1>2, <1>5 DEF OptsInvariant, Ring, IsInjective
  <2>3. Matches(known[i], text)
    BY <2>1, <1>5 DEF Matches
  <2>4. i \in at
    BY <2>1, <2>3, <1>2
  <2>5. k <= i
    BY <2>4, <1>3
  <2>6. i \in Nat /\ k \in Nat
    BY <1>2, <2>4
  <2> HIDE DEF at
  <2>7. i < k
    BY <2>1, <2>2
  <2> QED
    BY <2>5, <2>6, <2>7
<1> QED
  BY <1>5, <1>6 DEF Range

LEMMA OptsBegin == OptsInit => OptsInvariant
<1> SUFFICES ASSUME OptsInit PROVE OptsInvariant
  OBVIOUS
<1>1. known = <<>> /\ Range(<<>>) = {} /\ <<>> \in Seq(Options)
  BY DEF OptsInit, Range
<1>2. opt_list = ListInit(Links(OptLinks, Absent), OptAnchor)
  BY DEF OptsInit, OptLinks
<1>3. opt_list \in Memory(OptLinks, OptLinks \cup {Absent}) /\ Ring(opt_list, OptAnchor, known)
  BY <1>1, <1>2, RingInit DEF OptLinks
<1>4. OptsTyped /\ Registered /\ Given
  BY <1>1, <1>3 DEF OptsTyped, Registered, Given, OptsInit
<1>5. reading = FALSE /\ outcome = "none"
  BY DEF OptsInit
<1> QED
  BY <1>3, <1>4, <1>5, HonestIs DEF OptsInvariant

\* An option that comes to the end of the list shadows none before it.
LEMMA ListGrows ==
  ASSUME OptsInvariant, NEW o \in Options, o \notin Range(known)
  PROVE  /\ ListAddTail(opt_list, OptAnchor, o) \in Memory(OptLinks, OptLinks \cup {Absent})
         /\ Ring(ListAddTail(opt_list, OptAnchor, o), OptAnchor, Append(known, o))
         /\ Append(known, o) \in Seq(Options)
         /\ Range(Append(known, o)) = Range(known) \cup {o}
         /\ \A x \in Range(known) : ShadowedIn(Append(known, o), x) => ShadowedIn(known, x)
<1> DEFINE t == Append(known, o)
<1>1. known \in Seq(Options) /\ known \in Seq(OptLinks)
  BY DEF OptsInvariant, OptsTyped, OptLinks
<1>2. t \in Seq(Options) /\ Range(t) = Range(known) \cup {o}
  BY <1>1, RangeAppend
<1>4. /\ ListAddTail(opt_list, OptAnchor, o) \in Memory(OptLinks, OptLinks \cup {Absent})
      /\ Ring(ListAddTail(opt_list, OptAnchor, o), OptAnchor, t)
  <2>1. o \in OptLinks /\ o # OptAnchor /\ OptAnchor \in OptLinks
        /\ OptLinks \subseteq OptLinks \cup {Absent}
    BY OptsAssumption DEF OptLinks
  <2> QED
    BY <2>1, <1>1, RingAppend DEF OptsInvariant, OptsTyped
<1>5. ASSUME NEW x \in Range(known), ShadowedIn(t, x) PROVE ShadowedIn(known, x)
  <2>1. PICK i, j \in 1 .. Len(t) :
            /\ i < j /\ t[j] = x
            /\ Descriptor[t[i]].form_long = Descriptor[x].form_long
            /\ Descriptor[x].form_short = ""
    BY <1>5 DEF ShadowedIn
  <2>2. /\ Len(t) = Len(known) + 1 /\ t[Len(known) + 1] = o
        /\ \A k \in 1 .. Len(known) : t[k] = known[k]
    BY <1>1
  <2>3. x # o /\ Len(known) \in Nat
    BY <1>1
  <2>4. j \in 1 .. Len(known) /\ i \in 1 .. Len(known)
    <3>1. j # Len(known) + 1
      BY <2>1, <2>2, <2>3
    <3>2. i \in 1 .. Len(known) + 1 /\ j \in 1 .. Len(known) + 1 /\ i < j
      BY <2>1, <2>2
    <3> HIDE DEF t
    <3> QED
      BY <3>1, <3>2, <2>3
  <2> QED
    BY <2>1, <2>2, <2>4 DEF ShadowedIn
<1> QED
  BY <1>2, <1>4, <1>5

\* The option is new to the list: a custom one by the program's care, any other since
\* it has no parsing function yet.
LEMMA NewOption ==
  ASSUME OptsInvariant, NEW o \in Options,
         Registers(o), Valid(o)
  PROVE  o \notin Range(known) /\ ~reading
BY DEF OptsInvariant, Registered, Registers, Valid, ToSet, Range

LEMMA Registering ==
  ASSUME OptsInvariant, NEW o \in Options,
         \/ RegisterInvalid(o) \/ RegisterFlag(o)
         \/ RegisterMandatory(o) \/ RegisterDefault(o)
  PROVE  OptsInvariant'
<1>1. CASE /\ UNCHANGED <<opt_list, member, known, clean>>
           /\ is_set' = is_set \/ (is_set' = is_set \ {o} /\ o \notin Range(known))
           /\ parse \subseteq parse' /\ ~reading /\ reading' = reading
           /\ outcome' = "invalid"
  <2>1. OptsTyped' /\ Registered' /\ Ring(opt_list, OptAnchor, known)'
    BY <1>1 DEF OptsInvariant, OptsTyped, Registered
  <2>2. Given'
    BY <1>1 DEF OptsInvariant, Given
  <2>3. ReadHonest'
    BY <1>1, HonestNext
  <2> QED
    BY <1>1, <2>1, <2>2, <2>3 DEF OptsInvariant
<1>2. ASSUME Append_(o), o \notin Range(known), o \in parse', parse \subseteq parse',
             ~reading, reading' = reading, outcome' = "registered", clean' = clean,
             Descriptor[o].type = "FLAG" => Descriptor[o].accepts = Absent,
             DOMAIN member' = Options, member' = [x \in DOMAIN member' |-> member'[x]],
             \A x \in Options \ {o} : member'[x] = member[x] /\ (x \in is_set' <=> x \in is_set),
             IF o \in is_set' THEN member'[o] # Absent /\ Meant(o, member'[o]) /\ ~Starred(o)
                              ELSE Starred(o)
      PROVE  OptsInvariant'
  <2>1. /\ opt_list' \in Memory(OptLinks, OptLinks \cup {Absent})
        /\ Ring(opt_list', OptAnchor, known')
        /\ known' \in Seq(Options) /\ Range(known') = Range(known) \cup {o}
        /\ \A x \in Range(known) : ShadowedIn(known', x) => ShadowedIn(known, x)
    BY <1>2, ListGrows DEF Append_
  <2>2. Range(known) \subseteq Options
    BY RangeInside DEF OptsInvariant, OptsTyped
  <2>3. OptsTyped' /\ Registered'
    BY <1>2, <2>1 DEF OptsInvariant, OptsTyped, Registered
  <2>4. Given'
    <3> SUFFICES ASSUME NEW x \in Range(known')
                 PROVE  IF x \in is_set'
                        THEN /\ member'[x] # Absent /\ (clean' => Meant(x, member'[x]))
                             /\ Starred(x) => ~ShadowedIn(known', x)
                        ELSE Starred(x)
      BY DEF Given, Meant, Starred
    <3>1. CASE x = o
      BY <3>1, <1>2
    <3>2. CASE x # o
      BY <3>2, <1>2, <2>1, <2>2 DEF OptsInvariant, Given
    <3> QED
      BY <3>1, <3>2
  <2>5. ReadHonest'
    BY <1>2, HonestNext
  <2> QED
    BY <1>2, <2>1, <2>3, <2>4, <2>5 DEF OptsInvariant
<1>3. DOMAIN member = Options /\ member = [x \in DOMAIN member |-> member[x]]
  BY DEF OptsInvariant, OptsTyped
<1>4. CASE RegisterInvalid(o)
  BY <1>4, <1>1 DEF RegisterInvalid, Registers
<1>5. CASE RegisterFlag(o)
  <2>1. o \notin Range(known) /\ ~reading
    BY <1>5, NewOption DEF RegisterFlag
  <2>2. Descriptor[o].accepts = Absent /\ Meant(o, member'[o]) /\ ~Starred(o)
    BY <1>5 DEF RegisterFlag, Valid, Meant, Starred
  <2>3. DOMAIN member' = Options /\ member' = [x \in DOMAIN member' |-> member'[x]]
    BY <1>3, <1>5 DEF RegisterFlag
  <2>4. member'[o] \in {0, 1} /\ member'[o] # Absent
    BY <1>3, <1>5, OptsAssumption DEF RegisterFlag
  <2>5. \A x \in Options \ {o} : member'[x] = member[x] /\ (x \in is_set' <=> x \in is_set)
    BY <1>3, <1>5 DEF RegisterFlag
  <2>6. /\ Append_(o) /\ o \in parse' /\ parse \subseteq parse' /\ reading' = reading
        /\ outcome' = "registered" /\ clean' = clean /\ o \in is_set'
    BY <1>5 DEF RegisterFlag
  <2> QED
    BY <2>1, <2>2, <2>3, <2>4, <2>5, <2>6, <1>2
<1>6. CASE RegisterMandatory(o)
  <2>1. o \notin Range(known) /\ ~reading
    BY <1>6, NewOption DEF RegisterMandatory
  <2>2. Starred(o)
    BY <1>6 DEF RegisterMandatory, Starred
  <2>3. member' = member /\ o \notin is_set' /\ Descriptor[o].type # "FLAG"
    BY <1>6 DEF RegisterMandatory
  <2>4. /\ Append_(o) /\ o \in parse' /\ parse \subseteq parse' /\ reading' = reading
        /\ outcome' = "registered" /\ clean' = clean
        /\ \A x \in Options \ {o} : x \in is_set' <=> x \in is_set
    BY <1>6 DEF RegisterMandatory
  <2> QED
    BY <2>1, <2>2, <2>3, <2>4, <1>2, <1>3
<1>7. CASE RegisterDefault(o)
  <2>1. PICK v \in Parsed(o, Descriptor[o].default_value) :
          /\ Registers(o) /\ Valid(o)
          /\ Descriptor[o].type # "FLAG" /\ Descriptor[o].default_value # Absent
          /\ parse' = parse \cup {o}
          /\ \/ /\ v # Absent
                /\ is_set' = is_set \cup {o}
                /\ member' = [member EXCEPT ![o] = v]
                /\ Append_(o)
                /\ outcome' = "registered"
             \/ /\ v = Absent
                /\ is_set' = is_set \ {o}
                /\ outcome' = "invalid"
                /\ UNCHANGED <<opt_list, member, known>>
          /\ UNCHANGED <<reading, reads, clean>>
    BY <1>7 DEF RegisterDefault
  <2>2. o \notin Range(known) /\ ~reading
    BY <2>1, NewOption
  <2>3. CASE v = Absent
    BY <2>1, <2>2, <2>3, <1>1
  <2>4. CASE v # Absent
    <3>1. DOMAIN member' = Options /\ member' = [x \in DOMAIN member' |-> member'[x]]
      BY <1>3, <2>1, <2>4
    <3>2. member'[o] = v /\ \A x \in Options \ {o} : member'[x] = member[x]
      BY <1>3, <2>1, <2>4
    <3>3. Meant(o, member'[o]) /\ ~Starred(o)
      BY <2>1, <3>2 DEF Meant, Starred
    <3>4. /\ Append_(o) /\ o \in parse' /\ parse \subseteq parse' /\ reading' = reading
          /\ outcome' = "registered" /\ clean' = clean /\ o \in is_set'
          /\ \A x \in Options \ {o} : x \in is_set' <=> x \in is_set
      BY <2>1, <2>4
    <3> QED
      BY <2>1, <2>2, <2>4, <3>1, <3>2, <3>3, <3>4, <1>2
  <2> QED
    BY <2>3, <2>4
<1> QED
  BY <1>4, <1>5, <1>6, <1>7

\* A step of a read that changes neither the list nor a value.
LEMMA ReadingStays ==
  ASSUME OptsInvariant,
         UNCHANGED <<opt_list, parse, is_set, member, known, clean>>,
         reading' => outcome' = "none",
         outcome' = "SUCCESS" => Range(known) \subseteq is_set,
         outcome' = "missing" => \E o \in Range(known) : o \notin is_set
  PROVE  OptsInvariant'
<1>1. OptsTyped' /\ Registered' /\ Ring(opt_list, OptAnchor, known)'
  BY DEF OptsInvariant, OptsTyped, Registered
<1>2. Given /\ Given'
  BY DEF OptsInvariant, Given
<1>3. outcome' = "SUCCESS" => \A o \in Range(known) :
         /\ member[o] # Absent /\ (clean => Meant(o, member[o]))
         /\ Starred(o) => ~ShadowedIn(known, o)
  BY <1>2 DEF Given
<1>4. outcome' = "missing" => \E o \in Range(known) : Starred(o) /\ o \notin is_set
  BY <1>2 DEF Given
<1>5. ReadHonest'
  BY <1>3, <1>4, HonestNext
<1> QED
  BY <1>1, <1>2, <1>5 DEF OptsInvariant

\* One that stores a value for an option that was named.
LEMMA ReadingStores ==
  ASSUME OptsInvariant, reading, NEW o \in Range(known), NEW v, v # Absent,
         ~ShadowedIn(known, o),
         UNCHANGED <<opt_list, parse, known>>, member' = [member EXCEPT ![o] = v],
         reading' => outcome' = "none", outcome' \notin {"SUCCESS", "missing"},
         clean' => clean /\ Meant(o, v),
         \A x \in Options \ {o} : x \in is_set' <=> x \in is_set,
         o \in is_set => o \in is_set'
  PROVE  OptsInvariant'
<1>1. o \in Options /\ Range(known) \subseteq Options
  BY RangeInside DEF OptsInvariant, OptsTyped
<1>2. /\ DOMAIN member' = Options /\ member' = [x \in DOMAIN member' |-> member'[x]]
      /\ member'[o] = v /\ \A x \in Options \ {o} : member'[x] = member[x]
  BY <1>1 DEF OptsInvariant, OptsTyped
<1>3. OptsTyped' /\ Registered' /\ Ring(opt_list, OptAnchor, known)'
  BY <1>2 DEF OptsInvariant, OptsTyped, Registered
<1>4. Given'
  <2> SUFFICES ASSUME NEW x \in Range(known)
               PROVE  IF x \in is_set'
                      THEN /\ member'[x] # Absent /\ (clean' => Meant(x, member'[x]))
                           /\ Starred(x) => ~ShadowedIn(known, x)
                      ELSE Starred(x)
    BY DEF Given, Meant, Starred
  <2>1. IF x \in is_set
        THEN /\ member[x] # Absent /\ (clean => Meant(x, member[x]))
             /\ Starred(x) => ~ShadowedIn(known, x)
        ELSE Starred(x)
    BY DEF OptsInvariant, Given
  <2>2. CASE x = o
    BY <2>1, <2>2, <1>2
  <2>3. CASE x # o
    BY <2>1, <2>3, <1>1, <1>2
  <2> QED
    BY <2>2, <2>3
<1>5. ReadHonest'
  BY HonestNext
<1> QED
  BY <1>3, <1>4, <1>5 DEF OptsInvariant

LEMMA OptsStep ==
  OptsInvariant /\ [OptsNext]_optsVars => OptsInvariant'
<1> SUFFICES ASSUME OptsInvariant, [OptsNext]_optsVars
             PROVE  OptsInvariant'
  OBVIOUS
<1>0. reading => outcome = "none"
  BY DEF OptsInvariant
<1>u. Unset = Range(known) \ is_set
  BY OptsWalks DEF Unset, ToSet, Range
<1>1. ASSUME NEW o \in Options,
             \/ RegisterInvalid(o) \/ RegisterFlag(o)
             \/ RegisterMandatory(o) \/ RegisterDefault(o)
      PROVE  OptsInvariant'
  BY <1>1, Registering
<1>2. CASE ReadCall
  BY <1>2, ReadingStays DEF ReadCall
<1>3. CASE ReadMissing
  BY <1>3, <1>u, ReadingStays DEF ReadMissing, EndRead
<1>4. CASE ReadDone
  BY <1>4, <1>u, ReadingStays DEF ReadDone, EndRead
<1>5. ASSUME NEW text \in Texts, ReadUnknown(text)
      PROVE  OptsInvariant'
  BY <1>5, ReadingStays DEF ReadUnknown, EndRead
<1>6. ASSUME NEW text \in Texts, ReadFlag(text)
      PROVE  OptsInvariant'
  <2> DEFINE o == Named(text)
  <2>1. /\ reading /\ o # Absent /\ Descriptor[o].type = "FLAG"
        /\ member' = [member EXCEPT ![o] = 1]
        /\ UNCHANGED <<opt_list, parse, is_set, reading, outcome, reads, known, clean>>
    BY <1>6 DEF ReadFlag
  <2>2. o \in Range(known) /\ ~ShadowedIn(known, o)
    BY <2>1, NamedIs
  <2>3. Meant(o, 1)
    BY <2>1, <2>2 DEF OptsInvariant, Registered, Meant
  <2>4. 1 # Absent
    BY OptsAssumption
  <2> HIDE DEF o
  <2> QED
    BY <2>1, <2>2, <2>3, <2>4, <1>0, ReadingStores
<1>7. ASSUME NEW text \in Texts, ReadNoValue(text)
      PROVE  OptsInvariant'
  BY <1>7, ReadingStays DEF ReadNoValue, EndRead
<1>8. ASSUME NEW text \in Texts, NEW given \in Texts, ReadOption(text, given)
      PROVE  OptsInvariant'
  <2> DEFINE o == Named(text)
  <2>1. reading /\ o # Absent
    BY <1>8 DEF ReadOption
  <2>2. PICK v \in Parsed(o, given) \ {Absent} :
          /\ member' = [member EXCEPT ![o] = v]
          /\ \/ /\ Accepted(o, v)
                /\ is_set' = is_set \cup {o}
                /\ UNCHANGED <<reading, outcome, clean>>
             \/ /\ ~Accepted(o, v)
                /\ EndRead("refused")
                /\ clean' = FALSE
                /\ UNCHANGED is_set
          /\ UNCHANGED <<opt_list, parse, reads, known>>
    BY <1>8 DEF ReadOption, ReadValue
  <2>3. o \in Range(known) /\ ~ShadowedIn(known, o)
    BY <2>1, NamedIs
  <2>4. Accepted(o, v) => Meant(o, v)
    BY DEF Accepted, Meant
  <2> HIDE DEF o
  <2>5. v # Absent /\ member' = [member EXCEPT ![o] = v] /\ UNCHANGED <<opt_list, parse, known>>
    BY <2>2
  <2>6. CASE Accepted(o, v) /\ is_set' = is_set \cup {o} /\ UNCHANGED <<reading, outcome, clean>>
    <3>1. outcome' = "none" /\ (clean' => clean /\ Meant(o, v)) /\ (o \in is_set => o \in is_set')
      BY <2>1, <2>4, <2>6, <1>0
    <3>2. \A x \in Options \ {o} : x \in is_set' <=> x \in is_set
      BY <2>6
    <3> QED
      BY <2>1, <2>3, <2>5, <3>1, <3>2, ReadingStores
  <2>7. CASE EndRead("refused") /\ clean' = FALSE /\ UNCHANGED is_set
    <3>1. reading' = FALSE /\ outcome' = "refused"
      BY <2>7 DEF EndRead
    <3> QED
      BY <2>1, <2>3, <2>5, <2>7, <3>1, ReadingStores
  <2> QED
    BY <2>2, <2>6, <2>7
<1>9. CASE UNCHANGED optsVars
  <2>1. UNCHANGED <<opt_list, parse, is_set, member, reading, outcome, known, clean>>
    BY <1>9 DEF optsVars
  <2>2. OptsTyped' /\ Registered' /\ Given' /\ Ring(opt_list, OptAnchor, known)'
    BY <2>1 DEF OptsInvariant, OptsTyped, Registered, Given
  <2>3. ReadHonest'
    BY <2>1, HonestIs, HonestNext DEF OptsInvariant
  <2> QED
    BY <2>1, <2>2, <2>3, <1>0 DEF OptsInvariant
<1> QED
  BY <1>1, <1>2, <1>3, <1>4, <1>5, <1>6, <1>7, <1>8, <1>9 DEF OptsNext

\* For any descriptors and command lines, any number of options and of reads: the
\* list of amopts_register is that of the options registered, both ways; and when
\* amopts_read accepts a line every option has a value, and a mandatory one has a name.
THEOREM OptionsHonest == OptsSpec => []OptsSound
<1>1. OptsInit => OptsInvariant
  BY OptsBegin
<1>2. OptsInvariant /\ [OptsNext]_optsVars => OptsInvariant'
  BY OptsStep
<1>3. OptsInvariant => OptsSound
  <2> SUFFICES ASSUME OptsInvariant PROVE OptsSound
    OBVIOUS
  <2>1. RegistryListed
    BY OptsWalks DEF RegistryListed, OptsInvariant, Ring
  <2> QED
    BY <2>1 DEF OptsInvariant, OptsSound
<1> QED
  BY <1>1, <1>2, <1>3, PTL DEF OptsSpec

-----------------------------------------------------------------------------
(* The stream.                                                              *)

Ends == Stream!Ends

StreamTyped ==
    /\ pipe \in Seq(Int) /\ got \in [1 .. Length -> Int]
    /\ io \in [Ends -> [at : {"in", "out"}, length : Int, remaining : Int, buf : Int]]
    /\ offset \in [Ends -> Int]
    /\ setting \in [Ends -> [ignore : Ignores, blocking : Blocking]]

\* A call asks for all that its end has not moved yet, and its pointer has moved as
\* far as its count.  One that ignores everything is the first and only one.
CallSound(e) ==
    /\ 0 <= offset[e] /\ offset[e] <= Length
    /\ io[e].at = "in" => /\ io[e].length = Length - offset[e]
                          /\ 0 < io[e].remaining /\ io[e].remaining <= io[e].length
                          /\ io[e].buf = Stream!Settled(e) + 1
    /\ Stream!IgnoresAll(e) => offset[e] = 0 \/ (io[e].at = "out" /\ offset[e] = Length)

StreamInvariant ==
    /\ StreamTyped
    /\ \A e \in Ends : CallSound(e)
    /\ Stream!BytesInOrder

LEMMA StreamInit == Stream!StreamAssumption /\ Stream!Init => StreamInvariant
<1> SUFFICES ASSUME Stream!StreamAssumption, Stream!Init PROVE StreamInvariant
  OBVIOUS
<1>1. Length \in Nat /\ Ends = {"send", "recv"}
  BY DEF Stream!StreamAssumption, Ends, Stream!Ends
<1>2. StreamTyped
  BY <1>1 DEF Stream!Init, StreamTyped, Ends
<1>3. \A e \in Ends : Stream!Settled(e) = 0 /\ io[e].at = "out" /\ offset[e] = 0
  BY DEF Stream!Init, Stream!Settled, Ends
<1>4. pipe = <<>>
  BY DEF Stream!Init
<1> QED
  BY <1>1, <1>2, <1>3, <1>4 DEF StreamInvariant, CallSound, Stream!BytesInOrder

\* What an end that moves n bytes knows of it, and the other end does not.
LEMMA MovedKeeps ==
  ASSUME Stream!StreamAssumption, StreamInvariant, NEW e \in Ends, io[e].at = "in",
         NEW n \in 1 .. io[e].remaining, Stream!Moved(e, n), UNCHANGED setting
  PROVE  /\ io' \in [Ends -> [at : {"in", "out"}, length : Int, remaining : Int, buf : Int]]
         /\ offset' \in [Ends -> Int] /\ \A f \in Ends : CallSound(f)'
         /\ Stream!Settled(e)' = Stream!Settled(e) + n
         /\ \A f \in Ends \ {e} : Stream!Settled(f)' = Stream!Settled(f)
<1> DEFINE r == io[e].remaining - n
<1>1. /\ io \in [Ends -> [at : {"in", "out"}, length : Int, remaining : Int, buf : Int]]
      /\ offset \in [Ends -> Int] /\ Length \in Nat /\ n \in Int /\ n >= 1
      /\ \A f \in Ends : CallSound(f)
  BY DEF StreamInvariant, StreamTyped, Stream!StreamAssumption
<1>2. /\ r \in Int /\ r >= 0 /\ io[e].length = Length - offset[e] /\ r < io[e].length
      /\ 0 <= offset[e] /\ offset[e] <= Length
      /\ io[e].buf = Stream!Settled(e) + 1
      /\ Stream!Settled(e) = offset[e] + (io[e].length - io[e].remaining)
      /\ Stream!IgnoresAll(e) => offset[e] = 0
  BY <1>1 DEF CallSound, Stream!Settled
<1>3. \A f \in Ends \ {e} : io'[f] = io[f] /\ offset'[f] = offset[f]
  BY <1>1 DEF Stream!Moved, Stream!Return
<1>4. \A f \in Ends \ {e} : Stream!Settled(f)' = Stream!Settled(f) /\ CallSound(f)'
  BY <1>1, <1>3 DEF Stream!Settled, CallSound, Stream!IgnoresAll
<1>5. CASE r = 0 \/ "PACKET" \notin setting[e].ignore
  <2>1. io' = [io EXCEPT ![e].at = "out"] /\ offset' = [offset EXCEPT ![e] = @ + io[e].length - r]
    BY <1>5 DEF Stream!Moved, Stream!Return
  <2>2. /\ io' \in [Ends -> [at : {"in", "out"}, length : Int, remaining : Int, buf : Int]]
        /\ offset' \in [Ends -> Int]
        /\ io'[e].at = "out" /\ offset'[e] = (offset[e] + io[e].length) - r
    BY <1>1, <1>2, <2>1
  <2>3. Stream!Settled(e)' = Stream!Settled(e) + n
    BY <1>1, <1>2, <2>2 DEF Stream!Settled
  <2>4. 0 <= offset'[e] /\ offset'[e] <= Length
    BY <1>1, <1>2, <2>2
  <2>5. ASSUME Stream!IgnoresAll(e)' PROVE offset'[e] = Length
    <3>1. Stream!IgnoresAll(e) /\ r = 0
      BY <1>5, <2>5 DEF Stream!IgnoresAll
    <3> QED
      BY <1>1, <1>2, <2>2, <3>1
  <2>6. CallSound(e)'
    BY <2>2, <2>4, <2>5 DEF CallSound
  <2> QED
    BY <1>4, <2>2, <2>3, <2>6
<1>6. CASE ~(r = 0 \/ "PACKET" \notin setting[e].ignore)
  <2>1. /\ io' = [io EXCEPT ![e].remaining = r, ![e].buf = @ + n]
        /\ offset' = offset
    BY <1>6 DEF Stream!Moved
  <2>2. /\ io' \in [Ends -> [at : {"in", "out"}, length : Int, remaining : Int, buf : Int]]
        /\ io'[e].at = "in" /\ io'[e].remaining = r /\ io'[e].buf = io[e].buf + n
        /\ io'[e].length = io[e].length
    BY <1>1, <1>2, <2>1
  <2>3. Stream!Settled(e)' = Stream!Settled(e) + n
    BY <1>1, <1>2, <2>1, <2>2 DEF Stream!Settled
  <2>4. Stream!Settled(e) \in Int
    BY <1>1, <1>2
  <2>5. CallSound(e)'
    BY <1>1, <1>2, <1>6, <2>1, <2>2, <2>3, <2>4 DEF CallSound, Stream!IgnoresAll
  <2> QED
    BY <1>1, <1>4, <2>1, <2>2, <2>3, <2>5
<1> QED
  BY <1>5, <1>6

\* A call that fails has moved what it moved before.
LEMMA FailsKeeps ==
  ASSUME Stream!StreamAssumption, StreamInvariant, NEW e \in Ends, io[e].at = "in",
         Stream!Fails(e), ~Stream!IgnoresAll(e)
  PROVE  StreamInvariant'
<1>1. /\ io \in [Ends -> [at : {"in", "out"}, length : Int, remaining : Int, buf : Int]]
      /\ offset \in [Ends -> Int] /\ Length \in Nat
      /\ \A f \in Ends : CallSound(f)
  BY DEF StreamInvariant, StreamTyped, Stream!StreamAssumption
<1>2. /\ io' = [io EXCEPT ![e].at = "out"]
      /\ offset' = [offset EXCEPT ![e] = @ + io[e].length - io[e].remaining]
      /\ UNCHANGED <<pipe, got, setting>>
  BY DEF Stream!Fails, Stream!Return
<1>3. /\ io' \in [Ends -> [at : {"in", "out"}, length : Int, remaining : Int, buf : Int]]
      /\ offset' \in [Ends -> Int]
      /\ io'[e].at = "out" /\ offset'[e] = (offset[e] + io[e].length) - io[e].remaining
      /\ \A f \in Ends \ {e} : io'[f] = io[f] /\ offset'[f] = offset[f]
  BY <1>1, <1>2
<1>4. StreamTyped'
  BY <1>2, <1>3 DEF StreamInvariant, StreamTyped
<1>5. \A f \in Ends : Stream!Settled(f)' = Stream!Settled(f)
  BY <1>1, <1>3 DEF Stream!Settled
<1>6. \A f \in Ends \ {e} : CallSound(f)'
  BY <1>1, <1>2, <1>3, <1>5 DEF CallSound, Stream!IgnoresAll
<1>7. CallSound(e)'
  BY <1>1, <1>2, <1>3 DEF CallSound, Stream!IgnoresAll
<1>8. Stream!BytesInOrder'
  <2>1. "send" \in Ends /\ "recv" \in Ends
    BY DEF Ends, Stream!Ends
  <2>2. Stream!Settled("send")' = Stream!Settled("send")
        /\ Stream!Settled("recv")' = Stream!Settled("recv")
    BY <1>5, <2>1
  <2> QED
    BY <1>2, <2>2 DEF StreamInvariant, Stream!BytesInOrder
<1> QED
  BY <1>4, <1>6, <1>7, <1>8 DEF StreamInvariant

LEMMA CallKeeps ==
  ASSUME Stream!StreamAssumption, StreamInvariant, NEW e \in Ends, Stream!Call(e)
  PROVE  StreamInvariant'
<1>1. /\ io \in [Ends -> [at : {"in", "out"}, length : Int, remaining : Int, buf : Int]]
      /\ offset \in [Ends -> Int] /\ Length \in Nat
      /\ \A f \in Ends : CallSound(f)
  BY DEF StreamInvariant, StreamTyped, Stream!StreamAssumption
<1>2. /\ io[e].at = "out" /\ offset[e] < Length
      /\ io' = [io EXCEPT ![e] = [at |-> "in", length |-> Length - offset[e],
                                  remaining |-> Length - offset[e], buf |-> offset[e] + 1]]
      /\ UNCHANGED <<pipe, got, offset, setting>>
  BY DEF Stream!Call
<1>3. /\ io' \in [Ends -> [at : {"in", "out"}, length : Int, remaining : Int, buf : Int]]
      /\ io'[e] = [at |-> "in", length |-> Length - offset[e],
                   remaining |-> Length - offset[e], buf |-> offset[e] + 1]
      /\ \A f \in Ends \ {e} : io'[f] = io[f]
  BY <1>1, <1>2
<1>4. StreamTyped'
  BY <1>2, <1>3 DEF StreamInvariant, StreamTyped
<1>5. \A f \in Ends : Stream!Settled(f)' = Stream!Settled(f)
  BY <1>1, <1>2, <1>3 DEF Stream!Settled
<1>6. \A f \in Ends \ {e} : CallSound(f)'
  BY <1>1, <1>2, <1>3, <1>5 DEF CallSound, Stream!IgnoresAll
<1>7. CallSound(e)'
  <2>1. Stream!Settled(e)' = offset[e]
    BY <1>1, <1>2, <1>3 DEF Stream!Settled
  <2> QED
    BY <1>1, <1>2, <1>3, <2>1 DEF CallSound, Stream!IgnoresAll
<1>8. Stream!BytesInOrder'
  <2>1. "send" \in Ends /\ "recv" \in Ends
    BY DEF Ends, Stream!Ends
  <2>2. Stream!Settled("send")' = Stream!Settled("send")
        /\ Stream!Settled("recv")' = Stream!Settled("recv")
    BY <1>5, <2>1
  <2> QED
    BY <1>2, <2>2 DEF StreamInvariant, Stream!BytesInOrder
<1> QED
  BY <1>4, <1>6, <1>7, <1>8 DEF StreamInvariant

LEMMA SendKeeps ==
  ASSUME Stream!StreamAssumption, StreamInvariant, Stream!Send PROVE StreamInvariant'
<1> DEFINE s == Stream!Settled("send")
           r == Stream!Settled("recv")
<1>1. PICK n \in 1 .. io["send"].remaining :
        /\ io["send"].at = "in" /\ Stream!Moved("send", n)
        /\ pipe' = pipe \o [i \in 1 .. n |-> io["send"].buf + i - 1]
        /\ UNCHANGED <<got, setting>>
  BY DEF Stream!Send
<1>2. "send" \in Ends /\ "recv" \in Ends \ {"send"} /\ Ends = {"send", "recv"}
  BY DEF Ends, Stream!Ends
<1>3. /\ io' \in [Ends -> [at : {"in", "out"}, length : Int, remaining : Int, buf : Int]]
      /\ offset' \in [Ends -> Int] /\ \A f \in Ends : CallSound(f)'
      /\ s' = s + n /\ r' = r
  BY <1>1, <1>2, MovedKeeps
<1>4. /\ pipe \in Seq(Int) /\ io["send"].buf = s + 1 /\ io["send"].buf \in Int
      /\ io["send"].remaining \in Int
      /\ s = r + Len(pipe) /\ \A i \in 1 .. Len(pipe) : pipe[i] = r + i
      /\ \A i \in 1 .. r : got[i] = i
  BY <1>1, <1>2 DEF StreamInvariant, StreamTyped, CallSound, Stream!BytesInOrder
<1>5. s \in Int /\ r \in Int
  BY <1>2 DEF StreamInvariant, StreamTyped, Stream!Settled
<1> HIDE DEF s, r
<1> DEFINE b == io["send"].buf
           t == [i \in 1 .. n |-> b + i - 1]
<1>6. n \in Nat /\ b \in Int /\ b = s + 1
  BY <1>4
<1> HIDE DEF b
<1>7. t \in Seq(Int) /\ Len(t) = n /\ \A i \in 1 .. n : t[i] = (b + i) - 1
  BY <1>6
<1>8. pipe' = pipe \o t
  BY <1>1 DEF b
<1> HIDE DEF t
<1>9. /\ pipe' \in Seq(Int) /\ Len(pipe') = Len(pipe) + n
      /\ \A i \in 1 .. Len(pipe) + n :
           pipe'[i] = IF i <= Len(pipe) THEN pipe[i] ELSE t[i - Len(pipe)]
  <2>1. \A i \in 1 .. Len(pipe) + Len(t) :
           (pipe \o t)[i] = IF i <= Len(pipe) THEN pipe[i] ELSE t[i - Len(pipe)]
    BY <1>4, <1>7, ConcatProperties
  <2>2. pipe' \in Seq(Int) /\ Len(pipe') = Len(pipe) + n
    <3>1. (pipe \o t) \in Seq(Int) /\ Len(pipe \o t) = Len(pipe) + Len(t)
      BY <1>4, <1>7, ConcatProperties
    <3> QED
      BY <1>7, <1>8, <3>1
  <2>3. \A i \in 1 .. Len(pipe) + n :
           (pipe \o t)[i] = IF i <= Len(pipe) THEN pipe[i] ELSE t[i - Len(pipe)]
    BY <1>7, <2>1
  <2> QED
    BY <1>8, <2>2, <2>3
<1> DEFINE m == Len(pipe)
<1>10. \A i \in 1 .. Len(pipe') : pipe'[i] = r + i
  <2>1. m \in Nat /\ s = r + m /\ Len(pipe') = m + n
    BY <1>4, <1>9
  <2>2. \A i \in 1 .. m + n : pipe'[i] = IF i <= m THEN pipe[i] ELSE t[i - m]
    BY <1>9
  <2>3. \A i \in 1 .. m : pipe[i] = r + i
    BY <1>4
  <2> HIDE DEF m
  <2>4. ASSUME NEW i \in 1 .. m + n, i > m PROVE t[i - m] = r + i
    <3>1. i - m \in 1 .. n
      BY <1>6, <2>1, <2>4
    <3>2. t[i - m] = (b + (i - m)) - 1
      BY <1>7, <3>1
    <3> QED
      BY <1>5, <1>6, <2>1, <2>4, <3>2
  <2> QED
    BY <1>6, <2>1, <2>2, <2>3, <2>4
<1>11. Stream!BytesInOrder'
  <2>1. s' = r' + Len(pipe')
    BY <1>3, <1>4, <1>5, <1>6, <1>9
  <2>2. \A i \in 1 .. r' : got'[i] = i
    BY <1>1, <1>3, <1>4
  <2>3. \A i \in 1 .. Len(pipe') : pipe'[i] = r' + i
    BY <1>3, <1>10
  <2> QED
    BY <2>1, <2>2, <2>3 DEF Stream!BytesInOrder, s, r
<1>12. StreamTyped'
  BY <1>1, <1>3, <1>9 DEF StreamInvariant, StreamTyped
<1> QED
  BY <1>3, <1>11, <1>12 DEF StreamInvariant

LEMMA RecvKeeps ==
  ASSUME Stream!StreamAssumption, StreamInvariant, Stream!Recv PROVE StreamInvariant'
<1> DEFINE s == Stream!Settled("send")
           r == Stream!Settled("recv")
           b == io["recv"].buf
<1>1. PICK n \in 1 .. io["recv"].remaining :
        /\ io["recv"].at = "in" /\ n <= Len(pipe) /\ Stream!Moved("recv", n)
        /\ got' = [i \in 1 .. Length |-> LET k == i - b + 1
                                         IN  IF k \in 1 .. n THEN pipe[k] ELSE got[i]]
        /\ pipe' = SubSeq(pipe, n + 1, Len(pipe))
        /\ UNCHANGED setting
  BY DEF Stream!Recv
<1>2. "recv" \in Ends /\ "send" \in Ends \ {"recv"} /\ Ends = {"send", "recv"}
  BY DEF Ends, Stream!Ends
<1>3. /\ io' \in [Ends -> [at : {"in", "out"}, length : Int, remaining : Int, buf : Int]]
      /\ offset' \in [Ends -> Int] /\ \A f \in Ends : CallSound(f)'
      /\ r' = r + n /\ s' = s
  BY <1>1, <1>2, MovedKeeps
<1>4. /\ pipe \in Seq(Int) /\ b = r + 1 /\ b \in Int
      /\ io["recv"].remaining \in Int
      /\ s = r + Len(pipe) /\ \A i \in 1 .. Len(pipe) : pipe[i] = r + i
      /\ \A i \in 1 .. r : got[i] = i
      /\ got \in [1 .. Length -> Int]
  BY <1>1, <1>2 DEF StreamInvariant, StreamTyped, CallSound, Stream!BytesInOrder
<1>5. s \in Int /\ r \in Int
  BY <1>2 DEF StreamInvariant, StreamTyped, Stream!Settled
<1>6. r + n <= Length /\ r >= 0
  <2> DEFINE l == io["recv"].length
             m == io["recv"].remaining
             o == offset["recv"]
  <2>1. /\ r = o + (l - m) /\ l = Length - o /\ m <= l /\ n \in 1 .. m /\ 0 <= o
        /\ l \in Int /\ m \in Int /\ o \in Int /\ Length \in Int
    BY <1>1, <1>2 DEF StreamInvariant, StreamTyped, CallSound, Stream!Settled,
                      Stream!StreamAssumption
  <2> HIDE DEF l, m, o, r
  <2> QED
    BY <2>1
<1> HIDE DEF s, r, b
<1>7. n \in Nat /\ n >= 1 /\ n <= Len(pipe) /\ Len(pipe) \in Nat /\ Length \in Nat
  BY <1>1, <1>4 DEF Stream!StreamAssumption
<1>8. /\ pipe' \in Seq(Int) /\ Len(pipe') = Len(pipe) - n
      /\ \A i \in 1 .. Len(pipe) - n : pipe'[i] = pipe[n + i]
  BY <1>1, <1>4, <1>7
<1>9. /\ got' \in [1 .. Length -> Int]
      /\ \A i \in 1 .. Length :
           got'[i] = IF (i - b) + 1 \in 1 .. n THEN pipe[(i - b) + 1] ELSE got[i]
  <2>1. \A i \in 1 .. Length :
           got'[i] = IF (i - b) + 1 \in 1 .. n THEN pipe[(i - b) + 1] ELSE got[i]
    BY <1>1
  <2>2. ASSUME NEW i \in 1 .. Length PROVE got'[i] \in Int
    <3>1. CASE (i - b) + 1 \in 1 .. n
      <4>1. (i - b) + 1 \in 1 .. Len(pipe)
        BY <1>4, <1>7, <3>1
      <4>2. pipe[(i - b) + 1] \in Int
        BY <1>4, <4>1
      <4> QED
        BY <2>1, <3>1, <4>2
    <3>2. CASE (i - b) + 1 \notin 1 .. n
      BY <1>4, <2>1, <3>2
    <3> QED
      BY <3>1, <3>2
  <2> DEFINE v(i) == IF (i - b) + 1 \in 1 .. n THEN pipe[(i - b) + 1] ELSE got[i]
  <2>3. got' = [i \in 1 .. Length |-> v(i)] /\ \A i \in 1 .. Length : got'[i] = v(i)
    BY <1>1
  <2> HIDE DEF v
  <2>4. got' \in [1 .. Length -> Int]
    BY <2>2, <2>3
  <2> QED
    BY <2>1, <2>4
<1>10. \A i \in 1 .. r + n : got'[i] = i
  <2>1. ASSUME NEW i \in 1 .. r + n PROVE got'[i] = i
    <3>1. i \in 1 .. Length
      BY <1>5, <1>6, <1>7
    <3>2. CASE i <= r
      BY <1>4, <1>5, <1>7, <1>9, <3>1, <3>2
    <3>3. CASE i > r
      <4> DEFINE k == (i - b) + 1
      <4>1. k \in 1 .. n /\ k \in 1 .. Len(pipe) /\ r + k = i
        BY <1>4, <1>5, <1>7, <3>3
      <4> QED
        BY <1>4, <1>9, <3>1, <4>1
    <3> QED
      BY <1>5, <3>2, <3>3
  <2> QED
    BY <2>1
<1>11. Stream!BytesInOrder'
  <2>1. s' = r' + Len(pipe')
    BY <1>3, <1>4, <1>5, <1>7, <1>8
  <2>2. \A i \in 1 .. r' : got'[i] = i
    BY <1>3, <1>10
  <2>3. ASSUME NEW i \in 1 .. Len(pipe') PROVE pipe'[i] = r' + i
    <3>1. i \in 1 .. Len(pipe) - n /\ n + i \in 1 .. Len(pipe)
      BY <1>7, <1>8
    <3> QED
      BY <1>3, <1>4, <1>5, <1>7, <1>8, <3>1
  <2> QED
    BY <2>1, <2>2, <2>3 DEF Stream!BytesInOrder, s, r
<1>12. StreamTyped'
  BY <1>1, <1>3, <1>8, <1>9 DEF StreamInvariant, StreamTyped
<1> QED
  BY <1>3, <1>11, <1>12 DEF StreamInvariant

LEMMA StreamStep ==
  Stream!StreamAssumption /\ StreamInvariant /\ [Stream!Next]_Stream!streamVars
     => StreamInvariant'
<1> SUFFICES ASSUME Stream!StreamAssumption, StreamInvariant, [Stream!Next]_Stream!streamVars
             PROVE  StreamInvariant'
  OBVIOUS
<1>1. CASE UNCHANGED <<pipe, got, io, offset, setting>>
  BY <1>1 DEF StreamInvariant, StreamTyped, CallSound, Stream!BytesInOrder, Stream!Settled,
              Stream!IgnoresAll
<1>2. ASSUME NEW e \in Ends, Stream!Refused(e) PROVE StreamInvariant'
  BY <1>2, FailsKeeps DEF Stream!Refused, Stream!IgnoresAll
<1>3. ASSUME NEW e \in Ends, Stream!Interrupted(e) PROVE StreamInvariant'
  BY <1>1, <1>3, FailsKeeps DEF Stream!Interrupted, Stream!IgnoresAll
<1>4. UNCHANGED Stream!streamVars => UNCHANGED <<pipe, got, io, offset, setting>>
  BY DEF Stream!streamVars
<1> QED
  BY <1>1, <1>2, <1>3, <1>4, CallKeeps, SendKeeps, RecvKeeps DEF Stream!Next, Ends

\* For any number of bytes, through any buffer, in any pieces, and however often a
\* call is refused or interrupted and made again for the rest: the bytes sent are
\* those received and those on their way, in order and once, and a call that
\* ignores all interruptions moves all it was asked to (amskt_send, amskt_recv).
THEOREM StreamFaithful == Stream!StreamAssumption => (Stream!Spec => []Stream!StreamSound)
<1> SUFFICES ASSUME Stream!StreamAssumption PROVE Stream!Spec => []Stream!StreamSound
  OBVIOUS
<1>1. Stream!Init => StreamInvariant
  BY StreamInit
<1>2. StreamInvariant /\ [Stream!Next]_Stream!streamVars => StreamInvariant'
  BY StreamStep
<1>3. StreamInvariant => Stream!StreamSound
  BY DEF StreamInvariant, CallSound, Stream!StreamSound, Stream!ExactLength, Ends
<1> QED
  BY <1>1, <1>2, <1>3, PTL DEF Stream!Spec

-----------------------------------------------------------------------------
(* The echo test.                                                           *)

EchoTyped ==
    /\ type \in {"STREAM", "DGRAM"}
    /\ srv.err = IF Echo!NeverUp THEN 1 ELSE 0
    /\ sthr.at \notin {"none", "start", "gone"} => srv.up
    /\ sthr.at \in {"none", "start"} => ~srv.up
    /\ srv \in [up : BOOLEAN, keep_running : BOOLEAN, err : Int]
    /\ sthr \in [at : {"none", "start", "check", "accept", "recv", "waiting", "echo", "send",
                       "end", "gone"}, client : Int, buffer : Int]
    /\ main \in [at : {"create", "up", "connect", "send", "receive", "close", "stop", "kill",
                       "join", "ended"}, client : Echo!Rounds, remaining : Int]
    /\ net \in [Echo!Rounds -> [to : Seq(Int), from : Seq(Int),
                                conn : {"none", "pending", "accepted", "gone"},
                                closed : BOOLEAN]]

\* A client has one request at a time, which is on its way to the server, with it,
\* or on its way back.
OneRequest ==
    LET c == main.client
        m == main.remaining
    IN  /\ main.at # "receive" => /\ net[c].to = <<>> /\ net[c].from = <<>>
                                  /\ sthr.at # "send"
        /\ main.at = "receive" =>
             \/ net[c].to = <<m>> /\ net[c].from = <<>> /\ sthr.at # "send"
             \/ net[c].to = <<>> /\ net[c].from = <<m>> /\ sthr.at # "send"
             \/ /\ net[c].to = <<>> /\ net[c].from = <<>>
                /\ sthr.at = "send" /\ sthr.client = c /\ sthr.buffer = m
        /\ \A o \in Echo!Rounds \ {c} : net[o].to = <<>> /\ net[o].from = <<>>

\* The clients before this one have closed their ends, and an accepted connection
\* is the one the server is at.
Connections ==
    /\ \A o \in Echo!Rounds : o < main.client => net[o].closed
    /\ main.at \in {"stop", "kill", "join", "ended"} =>
         main.client = Clients /\ net[main.client].closed
    /\ main.at = "create" => sthr.at = "none"
    /\ main.at = "ended" => sthr.at = "gone"
    /\ \A o \in Echo!Rounds :
         /\ type = "DGRAM" => net[o].conn \in {"none", "gone"}
         /\ net[o].conn = "accepted" => sthr.at \in {"echo", "send"} /\ sthr.client = o
    /\ sthr.at = "echo" => sthr.client \in Echo!Rounds

EchoInvariant == EchoTyped /\ OneRequest /\ Connections

\* One field of one client changes, and the rest of the network stays.
Network == [Echo!Rounds -> [to : Seq(Int), from : Seq(Int),
                            conn : {"none", "pending", "accepted", "gone"}, closed : BOOLEAN]]

ToIs(n, n2, c, q) == n2 = [n EXCEPT ![c].to = q]
FromIs(n, n2, c, q) == n2 = [n EXCEPT ![c].from = q]
Carries(n, n2, c, to, from) ==
    /\ n2[c].to = to /\ n2[c].from = from
    /\ \A o \in Echo!Rounds \ {c} : n2[o] = n[o]
    /\ \A o \in Echo!Rounds : n2[o].conn = n[o].conn /\ n2[o].closed = n[o].closed

LEMMA NetTo ==
  ASSUME NEW n \in Network, NEW n2, NEW c \in Echo!Rounds, NEW q \in Seq(Int), ToIs(n, n2, c, q)
  PROVE  n2 \in Network /\ Carries(n, n2, c, q, n[c].from)
<1>1. /\ n2[c].to = q /\ n2[c].from = n[c].from
      /\ n2[c].conn = n[c].conn /\ n2[c].closed = n[c].closed
      /\ \A o \in Echo!Rounds \ {c} : n2[o] = n[o]
  BY DEF Network, ToIs
<1>2. n2 \in Network
  BY DEF Network, ToIs
<1>3. Carries(n, n2, c, q, n[c].from)
  BY <1>1 DEF Carries
<1> QED
  BY <1>2, <1>3

LEMMA NetFrom ==
  ASSUME NEW n \in Network, NEW n2, NEW c \in Echo!Rounds, NEW q \in Seq(Int),
         FromIs(n, n2, c, q)
  PROVE  n2 \in Network /\ Carries(n, n2, c, n[c].to, q)
<1>1. /\ n2[c].to = n[c].to /\ n2[c].from = q
      /\ n2[c].conn = n[c].conn /\ n2[c].closed = n[c].closed
      /\ \A o \in Echo!Rounds \ {c} : n2[o] = n[o]
  BY DEF Network, FromIs
<1>2. n2 \in Network
  BY DEF Network, FromIs
<1>3. Carries(n, n2, c, n[c].to, q)
  BY <1>1 DEF Carries
<1> QED
  BY <1>2, <1>3

ConnIs(n, n2, c, v) == n2 = [n EXCEPT ![c].conn = v]
Connected(n, n2, c, v) ==
    /\ n2[c].conn = v /\ \A o \in Echo!Rounds \ {c} : n2[o].conn = n[o].conn
    /\ \A o \in Echo!Rounds : /\ n2[o].to = n[o].to /\ n2[o].from = n[o].from
                              /\ n2[o].closed = n[o].closed

LEMMA NetConn ==
  ASSUME NEW n \in Network, NEW n2, NEW c \in Echo!Rounds,
         NEW v \in {"none", "pending", "accepted", "gone"}, ConnIs(n, n2, c, v)
  PROVE  n2 \in Network /\ Connected(n, n2, c, v)
<1>1. /\ n2[c].conn = v /\ n2[c].to = n[c].to /\ n2[c].from = n[c].from
      /\ n2[c].closed = n[c].closed
      /\ \A o \in Echo!Rounds \ {c} : n2[o] = n[o]
  BY DEF Network, ConnIs
<1>2. n2 \in Network
  BY DEF Network, ConnIs
<1>3. Connected(n, n2, c, v)
  BY <1>1 DEF Connected
<1> QED
  BY <1>2, <1>3

ShutIs(n, n2, c) == n2 = [n EXCEPT ![c].closed = TRUE]
Shut(n, n2, c) ==
    /\ n2[c].closed /\ \A o \in Echo!Rounds \ {c} : n2[o].closed = n[o].closed
    /\ \A o \in Echo!Rounds : /\ n2[o].to = n[o].to /\ n2[o].from = n[o].from
                              /\ n2[o].conn = n[o].conn

LEMMA NetShut ==
  ASSUME NEW n \in Network, NEW n2, NEW c \in Echo!Rounds, ShutIs(n, n2, c)
  PROVE  n2 \in Network /\ Shut(n, n2, c)
<1>1. /\ n2[c].closed = TRUE /\ n2[c].to = n[c].to /\ n2[c].from = n[c].from
      /\ n2[c].conn = n[c].conn
      /\ \A o \in Echo!Rounds \ {c} : n2[o] = n[o]
  BY DEF Network, ShutIs
<1>2. n2 \in Network
  BY DEF Network, ShutIs
<1>3. Shut(n, n2, c)
  BY <1>1 DEF Shut
<1> QED
  BY <1>2, <1>3

LEMMA EchoInit == Echo!EchoAssumption /\ Echo!Init => EchoInvariant
BY DEF Echo!EchoAssumption, Echo!Init, EchoInvariant, EchoTyped, OneRequest, Connections,
       Echo!Rounds, Echo!NeverUp

ServerArgs == [up : BOOLEAN, keep_running : BOOLEAN, err : Int]

LEMMA ServerErr ==
  ASSUME NEW s \in ServerArgs, NEW s2, s2 = [s EXCEPT !.keep_running = FALSE, !.err = 0 + 1]
  PROVE  s2 \in ServerArgs /\ s2.err = 1 /\ s2.up = s.up
<1>1. s2 = [up |-> s.up, keep_running |-> FALSE, err |-> 0 + 1]
  BY Zenon DEF ServerArgs
<1>2. s.up \in BOOLEAN
  BY Zenon DEF ServerArgs
<1>3. 0 + 1 = 1 /\ 0 + 1 \in Int
  OBVIOUS
<1> QED
  BY <1>1, <1>2, <1>3, Zenon DEF ServerArgs

LEMMA EchoStep ==
  Echo!EchoAssumption /\ EchoInvariant /\ [Echo!Next]_Echo!echoVars => EchoInvariant'
<1> SUFFICES ASSUME Echo!EchoAssumption, EchoInvariant, [Echo!Next]_Echo!echoVars
             PROVE  EchoInvariant'
  OBVIOUS
<1> DEFINE R == Echo!Rounds
<1>a. Clients \in Nat \ {0} /\ Requests \in Nat \ {0} /\ R = 1 .. Clients
  BY DEF Echo!EchoAssumption, Echo!Rounds
<1> DEFINE T == [to : Seq(Int), from : Seq(Int), conn : {"none", "pending", "accepted", "gone"},
                 closed : BOOLEAN]
<1>b. net \in [R -> T] /\ main.client \in R /\ sthr.client \in Int /\ sthr.buffer \in Int
      /\ main.remaining \in Int
  BY DEF EchoInvariant, EchoTyped
<1>c. net \in Network
  BY <1>b DEF Network, R
<1> USE DEF EchoInvariant, EchoTyped, OneRequest, Connections, Echo!NeverUp
<1> HIDE DEF R
<1>1. CASE Echo!ServerUp
  BY <1>1 DEF Echo!ServerUp, Echo!ServerAt
<1>19. CASE Echo!ServerFails
  <2>1. /\ sthr.at = "start" /\ sthr'.at = "gone"
        /\ sthr'.client = sthr.client /\ sthr'.buffer = sthr.buffer
        /\ sthr' \in [at : {"gone"}, client : Int, buffer : Int]
        /\ UNCHANGED <<type, main, net>>
    BY <1>19, <1>b DEF Echo!ServerFails, Echo!ServerAt
  <2>2. ~srv.up /\ srv.err = 0
    BY <2>1
  <2>3. /\ srv'.err = 1 /\ srv'.up = srv.up
        /\ srv' \in ServerArgs
    <3>1. srv' = [srv EXCEPT !.keep_running = FALSE, !.err = 0 + 1]
      BY <1>19, <2>2 DEF Echo!ServerFails
    <3>2. srv \in ServerArgs
      BY DEF ServerArgs
    <3> QED
      BY <3>1, <3>2, ServerErr, Zenon
  <2>4. EchoTyped'
    BY <2>1, <2>2, <2>3 DEF ServerArgs
  <2>5. OneRequest' /\ Connections'
    BY <2>1
  <2> QED
    BY <2>4, <2>5
<1>2. CASE Echo!ServerCheck
  BY <1>2 DEF Echo!ServerCheck, Echo!ServerAt
<1>3. CASE Echo!ServerAccept
  <2>1. CASE sthr' = [sthr EXCEPT !.at = "check"] /\ UNCHANGED net
    BY <1>3, <2>1 DEF Echo!ServerAccept
  <2>2. ASSUME NEW c \in R, sthr.at = "accept", net[c].conn = "pending",
               sthr' = [sthr EXCEPT !.at = "echo", !.client = c],
               net' = [net EXCEPT ![c].conn = "accepted"],
               UNCHANGED <<type, srv, main>>
        PROVE  EchoInvariant'
    <3>0. ConnIs(net, net', c, "accepted") /\ c \in Echo!Rounds
      BY <2>2 DEF ConnIs, R
    <3>1. /\ net' \in [R -> T] /\ net'[c].conn = "accepted"
          /\ \A o \in R \ {c} : net'[o].conn = net[o].conn
          /\ \A o \in R : /\ net'[o].to = net[o].to /\ net'[o].from = net[o].from
                          /\ net'[o].closed = net[o].closed
      <4>1. net' \in Network /\ Connected(net, net', c, "accepted")
        BY <1>c, <3>0, NetConn
      <4> QED
        BY <4>1 DEF Network, Connected, R
    <3>2. sthr'.at = "echo" /\ sthr'.client = c /\ sthr'.buffer = sthr.buffer
      BY <2>2
    <3>a. /\ type' \in {"STREAM", "DGRAM"} /\ srv' = srv /\ main' = main
          /\ sthr'.at = "echo" /\ sthr.at = "accept"
      BY <2>2
    <3>b. c \in Int
      BY <1>a
    <3>c. sthr' \in [at : {"none", "start", "check", "accept", "recv", "waiting", "echo", "send",
                          "end", "gone"}, client : Int, buffer : Int]
      BY <2>2, <3>b
    <3>3. EchoTyped'
      BY <3>a, <3>c, <3>1 DEF R
    <3>4. OneRequest'
      BY <1>b, <2>2, <3>1, <3>2 DEF R
    <3>5. Connections'
      BY <1>b, <2>2, <3>1, <3>2 DEF R
    <3> QED
      BY <3>3, <3>4, <3>5
  <2> QED
    BY <1>3, <2>1, <2>2 DEF Echo!ServerAccept, R
<1>4. CASE Echo!ServerWait
  BY <1>4 DEF Echo!ServerWait, Echo!ServerAt
<1>5. CASE Echo!ServerRecv
  <2>1. PICK c \in R :
          /\ sthr.at = "waiting" \/ (sthr.at = "echo" /\ c = sthr.client)
          /\ net[c].to # <<>>
          /\ sthr' = [at |-> "send", client |-> c, buffer |-> Head(net[c].to)]
          /\ net' = [net EXCEPT ![c].to = Tail(@)]
          /\ UNCHANGED <<type, srv, main>>
    BY <1>5 DEF Echo!ServerRecv, R
  <2> DEFINE m == main.remaining
  <2>2. c = main.client /\ main.at = "receive" /\ net[c].to = <<m>> /\ net[c].from = <<>>
    BY <2>1 DEF R
  <2>3. Head(<<m>>) = m /\ Tail(<<m>>) = <<>>
    OBVIOUS
  <2>a. net' = [net EXCEPT ![c].to = <<>>]
    BY <2>1, <2>2, <2>3
  <2>e. <<>> \in Seq(Int)
    OBVIOUS
  <2>4. /\ net' \in [R -> T] /\ net'[c].to = <<>> /\ net'[c].from = <<>>
        /\ \A o \in R \ {c} : net'[o] = net[o]
        /\ \A o \in R : net'[o].conn = net[o].conn /\ net'[o].closed = net[o].closed
    <3>1. ToIs(net, net', c, <<>>) /\ c \in Echo!Rounds /\ <<>> \in Seq(Int)
      BY <2>a, <2>e DEF ToIs, R
    <3>2. net' \in Network /\ Carries(net, net', c, <<>>, net[c].from)
      BY <1>c, <3>1, NetTo
    <3> QED
      BY <2>2, <3>2 DEF Network, Carries, R
  <2>5. sthr' = [at |-> "send", client |-> c, buffer |-> m]
    BY <2>1, <2>2, <2>3
  <2>6. EchoTyped'
    <3>1. c \in Int /\ m \in Int
      BY <1>a, <1>b
    <3>2. sthr' \in [at : {"none", "start", "check", "accept", "recv", "waiting", "echo", "send",
                          "end", "gone"}, client : Int, buffer : Int]
      BY <2>5, <3>1
    <3> QED
      BY <2>1, <2>4, <3>2 DEF R
  <2>7. OneRequest'
    BY <1>b, <2>1, <2>2, <2>4, <2>5 DEF R
  <2>8. Connections'
    BY <1>b, <2>1, <2>2, <2>4, <2>5 DEF R
  <2> QED
    BY <2>6, <2>7, <2>8
<1>6. CASE Echo!ServerSend
  <2> DEFINE c == main.client
             m == main.remaining
  <2>1. /\ sthr.at = "send" /\ sthr' = [sthr EXCEPT !.at = IF type = "STREAM" THEN "echo"
                                                                    ELSE "check"]
        /\ net' = [net EXCEPT ![sthr.client].from = Append(@, sthr.buffer)]
        /\ UNCHANGED <<type, srv, main>>
    BY <1>6 DEF Echo!ServerSend, Echo!ServerAt
  <2>2. /\ sthr.client = c /\ sthr.buffer = m /\ main.at = "receive"
        /\ net[c].to = <<>> /\ net[c].from = <<>>
    BY <2>1
  <2>3. Append(<<>>, m) = <<m>> /\ <<m>> \in Seq(Int)
    BY <1>b
  <2>a. net' = [net EXCEPT ![c].from = Append(@, m)]
    BY <2>1, <2>2
  <2>b. net' = [net EXCEPT ![c].from = <<m>>]
    BY <2>2, <2>3, <2>a
  <2>4. /\ net' \in [R -> T] /\ net'[c].to = <<>> /\ net'[c].from = <<m>>
        /\ \A o \in R \ {c} : net'[o] = net[o]
        /\ \A o \in R : net'[o].conn = net[o].conn /\ net'[o].closed = net[o].closed
    <3>1. FromIs(net, net', c, <<m>>) /\ c \in Echo!Rounds /\ <<m>> \in Seq(Int)
      BY <1>b, <2>3, <2>b DEF FromIs, R
    <3>2. net' \in Network /\ Carries(net, net', c, net[c].to, <<m>>)
      BY <1>c, <3>1, NetFrom
    <3> QED
      BY <2>2, <3>2 DEF Network, Carries, R
  <2>5. /\ sthr'.at \in {"echo", "check"} /\ sthr'.client = sthr.client
        /\ type = "STREAM" => sthr'.at = "echo"
    BY <2>1
  <2>6. EchoTyped'
    BY <1>a, <1>b, <2>1, <2>4, <2>5 DEF R
  <2>7. OneRequest'
    BY <1>b, <2>1, <2>2, <2>4, <2>5 DEF R
  <2>8. Connections'
    BY <1>b, <2>1, <2>2, <2>4, <2>5 DEF R
  <2> QED
    BY <2>6, <2>7, <2>8
<1>7. CASE Echo!ServerClose
  <2> DEFINE c == sthr.client
  <2>1. /\ sthr.at = "echo" /\ sthr' = [sthr EXCEPT !.at = "check", !.client = 0]
        /\ net' = [net EXCEPT ![c].conn = "gone"] /\ c \in R
        /\ UNCHANGED <<type, srv, main>>
    BY <1>7 DEF Echo!ServerClose, R
  <2>0. ConnIs(net, net', c, "gone") /\ c \in Echo!Rounds
    BY <2>1 DEF ConnIs, R
  <2>a. net' \in Network /\ Connected(net, net', c, "gone")
    BY <1>c, <2>0, NetConn
  <2>b. \A o \in R \ {c} : net[o].conn # "accepted"
    BY <1>b, <2>1
  <2>2. /\ net' \in [R -> T] /\ net'[c].conn = "gone"
        /\ \A o \in R \ {c} : net'[o].conn = net[o].conn /\ net[o].conn # "accepted"
        /\ \A o \in R : /\ net'[o].to = net[o].to /\ net'[o].from = net[o].from
                        /\ net'[o].closed = net[o].closed
    BY <2>a, <2>b DEF Network, Connected, R
  <2>3. sthr'.at = "check"
    BY <2>1
  <2>4. EchoTyped'
    BY <1>a, <1>b, <2>1, <2>2 DEF R
  <2>5. OneRequest'
    BY <1>b, <2>1, <2>2, <2>3 DEF R
  <2>6. Connections'
    BY <1>b, <2>1, <2>2, <2>3 DEF R
  <2> QED
    BY <2>4, <2>5, <2>6
<1>8. CASE Echo!ServerEnd
  BY <1>8 DEF Echo!ServerEnd, Echo!ServerAt
<1>9. CASE Echo!Create
  BY <1>9 DEF Echo!Create, Echo!MainAt
<1>10. CASE Echo!WaitUp
  BY <1>10 DEF Echo!WaitUp, Echo!MainAt
<1>11. CASE Echo!Connect
  <2> DEFINE c == main.client
             new == IF type = "STREAM" THEN "pending" ELSE "gone"
  <2>1. /\ main.at = "connect" /\ main' = [main EXCEPT !.at = "send"]
        /\ net' = [net EXCEPT ![c].conn = new]
        /\ UNCHANGED <<type, srv, sthr>>
    BY <1>11 DEF Echo!Connect, Echo!MainAt
  <2>2. new \in {"pending", "gone"} /\ (type = "DGRAM" => new = "gone")
    OBVIOUS
  <2> HIDE DEF new
  <2>3. /\ net' \in [R -> T] /\ net'[c].conn = new
        /\ \A o \in R \ {c} : net'[o].conn = net[o].conn
        /\ \A o \in R : /\ net'[o].to = net[o].to /\ net'[o].from = net[o].from
                        /\ net'[o].closed = net[o].closed
    BY <1>b, <2>1, <2>2
  <2>4. main'.at = "send" /\ main'.client = c /\ main'.remaining = main.remaining
    BY <2>1
  <2>5. EchoTyped'
    BY <1>a, <1>b, <2>1, <2>3 DEF R
  <2>6. OneRequest'
    BY <1>b, <2>1, <2>3, <2>4 DEF R
  <2>7. Connections'
    BY <1>b, <2>1, <2>2, <2>3, <2>4 DEF R
  <2> QED
    BY <2>5, <2>6, <2>7
<1>12. CASE Echo!Send
  <2> DEFINE c == main.client
             m == main.remaining - 1
  <2>1. /\ main.at = "send" /\ main' = [main EXCEPT !.at = "receive", !.remaining = m]
        /\ net' = [net EXCEPT ![c].to = Append(@, m)]
        /\ UNCHANGED <<type, srv, sthr>>
    BY <1>12 DEF Echo!Send
  <2>2. net[c].to = <<>> /\ net[c].from = <<>> /\ sthr.at # "send"
    BY <2>1
  <2>3. Append(<<>>, m) = <<m>> /\ <<m>> \in Seq(Int) /\ m \in Int
    BY <1>b
  <2>b. net' = [net EXCEPT ![c].to = <<m>>]
    BY <2>1, <2>2, <2>3
  <2>4. /\ net' \in [R -> T] /\ net'[c].to = <<m>> /\ net'[c].from = <<>>
        /\ \A o \in R \ {c} : net'[o] = net[o]
        /\ \A o \in R : net'[o].conn = net[o].conn /\ net'[o].closed = net[o].closed
    <3>1. ToIs(net, net', c, <<m>>) /\ c \in Echo!Rounds /\ <<m>> \in Seq(Int)
      BY <1>b, <2>2, <2>3, <2>b DEF ToIs, R
    <3>2. net' \in Network /\ Carries(net, net', c, <<m>>, net[c].from)
      BY <1>c, <3>1, NetTo
    <3> QED
      BY <2>2, <3>2 DEF Network, Carries, R
  <2>5. main'.at = "receive" /\ main'.client = c /\ main'.remaining = m
    BY <2>1
  <2>6. EchoTyped'
    BY <1>a, <1>b, <2>1, <2>3, <2>4 DEF R
  <2>7. OneRequest'
    BY <1>b, <2>1, <2>2, <2>4, <2>5 DEF R
  <2>8. Connections'
    BY <1>b, <2>1, <2>2, <2>4, <2>5 DEF R
  <2> QED
    BY <2>6, <2>7, <2>8
<1>13. CASE Echo!Receive
  <2> DEFINE c == main.client
             m == main.remaining
  <2>1. main.at = "receive" /\ net[c].from # <<>>
    BY <1>13 DEF Echo!Receive
  <2>2. net[c].to = <<>> /\ net[c].from = <<m>> /\ sthr.at # "send"
    BY <2>1
  <2>3. Head(<<m>>) = m /\ Tail(<<m>>) = <<>>
    OBVIOUS
  <2>4. /\ net' = [net EXCEPT ![c].from = Tail(@)] /\ srv' = srv /\ UNCHANGED <<type, sthr>>
        /\ main' = [main EXCEPT !.at = IF m > 0 THEN "send" ELSE "close"]
    BY <1>13, <2>2, <2>3 DEF Echo!Receive
  <2>a. net' = [net EXCEPT ![c].from = <<>>]
    BY <2>2, <2>3, <2>4
  <2>e. <<>> \in Seq(Int)
    OBVIOUS
  <2>5. /\ net' \in [R -> T] /\ net'[c].to = <<>> /\ net'[c].from = <<>>
        /\ \A o \in R \ {c} : net'[o] = net[o]
        /\ \A o \in R : net'[o].conn = net[o].conn /\ net'[o].closed = net[o].closed
    <3>1. FromIs(net, net', c, <<>>) /\ c \in Echo!Rounds /\ <<>> \in Seq(Int)
      BY <1>b, <2>2, <2>a, <2>e DEF FromIs, R
    <3>2. net' \in Network /\ Carries(net, net', c, net[c].to, <<>>)
      BY <1>c, <3>1, NetFrom
    <3> QED
      BY <2>2, <3>2 DEF Network, Carries, R
  <2>6. main'.at \in {"send", "close"} /\ main'.client = c /\ main'.remaining = m
    BY <2>4
  <2>7. EchoTyped'
    BY <1>a, <1>b, <2>4, <2>5 DEF R
  <2>8. OneRequest'
    BY <1>b, <2>2, <2>4, <2>5, <2>6 DEF R
  <2>9. Connections'
    BY <1>b, <2>1, <2>4, <2>5, <2>6 DEF R
  <2> QED
    BY <2>7, <2>8, <2>9
<1>14. CASE Echo!ClientClose
  <2> DEFINE c == main.client
  <2>1. /\ main.at = "close" /\ net' = [net EXCEPT ![c].closed = TRUE]
        /\ UNCHANGED <<type, srv, sthr>>
        /\ main' = IF c < Clients
                   THEN [at |-> "connect", client |-> c + 1, remaining |-> Requests]
                   ELSE [main EXCEPT !.at = "stop"]
    BY <1>14 DEF Echo!ClientClose
  <2>2. /\ net' \in [R -> T] /\ net'[c].closed
        /\ \A o \in R \ {c} : net'[o].closed = net[o].closed
        /\ \A o \in R : /\ net'[o].to = net[o].to /\ net'[o].from = net[o].from
                        /\ net'[o].conn = net[o].conn
    <3>1. ShutIs(net, net', c) /\ c \in Echo!Rounds
      BY <1>b, <2>1 DEF ShutIs, R
    <3>2. net' \in Network /\ Shut(net, net', c)
      BY <1>c, <3>1, NetShut
    <3> QED
      BY <3>2 DEF Network, Shut, R
  <2>3. \A o \in R : net[o].to = <<>> /\ net[o].from = <<>>
    BY <1>b, <2>1 DEF R
  <2>4. \/ main'.at = "connect" /\ main'.client = c + 1 /\ c < Clients
        \/ main'.at = "stop" /\ main'.client = c /\ c = Clients
    BY <1>a, <1>b, <2>1
  <2>5. c \in Int /\ main'.client \in R
        /\ main' \in [at : {"connect", "stop"}, client : R, remaining : Int]
    <3>1. c \in R /\ main \in [at : {"close"}, client : R, remaining : Int]
      BY <1>b, <2>1
    <3>2. CASE c < Clients
      <4>1. main' = [at |-> "connect", client |-> c + 1, remaining |-> Requests]
        BY <2>1, <3>2
      <4>2. c + 1 \in R /\ c \in Int
        BY <1>a, <3>1, <3>2
      <4> HIDE DEF c
      <4> QED
        BY <1>a, <4>1, <4>2
    <3>3. CASE ~ (c < Clients)
      <4>1. main' = [main EXCEPT !.at = "stop"]
        BY <2>1, <3>3
      <4>2. main' \in [at : {"stop"}, client : R, remaining : Int] /\ main'.client = c
        BY <3>1, <4>1
      <4> QED
        BY <1>a, <3>1, <4>2
    <3> QED
      BY <3>2, <3>3
  <2>6. EchoTyped'
    BY <2>1, <2>2, <2>5 DEF R
  <2>7. OneRequest'
    BY <2>1, <2>2, <2>3, <2>4, <2>5 DEF R
  <2>8. Connections'
    <3>1. \A o \in R : o < main'.client => net'[o].closed
      <4> SUFFICES ASSUME NEW o \in R, o < main'.client PROVE net'[o].closed
        OBVIOUS
      <4>1. CASE o = c
        BY <2>2, <4>1
      <4>2. CASE o # c
        <5>1. o < c
          BY <1>a, <2>4, <2>5, <4>2
        <5>2. net[o].closed
          BY <5>1 DEF R
        <5> QED
          BY <2>2, <4>2, <5>2
      <4> QED
        BY <4>1, <4>2
    <3> QED
      BY <2>1, <2>2, <2>4, <2>5, <3>1 DEF R
  <2> QED
    BY <2>6, <2>7, <2>8
<1>15. CASE Echo!Stop
  BY <1>15 DEF Echo!Stop, Echo!MainAt
<1>16. CASE Echo!Kill
  BY <1>16 DEF Echo!Kill, Echo!MainAt
<1>17. CASE Echo!Join
  BY <1>17 DEF Echo!Join, Echo!MainAt
<1>18. CASE UNCHANGED Echo!echoVars
  BY <1>18 DEF Echo!echoVars
<1> QED
  BY <1>1, <1>2, <1>3, <1>4, <1>5, <1>6, <1>7, <1>8, <1>9, <1>10, <1>11, <1>12, <1>13, <1>14,
     <1>15, <1>16, <1>17, <1>18, <1>19 DEF Echo!Next, Echo!Server, Echo!Main

LEMMA EchoIs ==
  ASSUME Echo!EchoAssumption, EchoInvariant
  PROVE  Echo!EchoFaithful
<1>1. srv.err = IF Echo!NeverUp THEN 1 ELSE 0
  BY DEF EchoInvariant, EchoTyped
<1>2. ASSUME NEW c \in Echo!Rounds, net[c].from # <<>>
      PROVE  c = main.client /\ main.at = "receive" /\ net[c].from = <<main.remaining>>
  BY <1>2 DEF EchoInvariant, OneRequest
<1>3. ASSUME main.at = "ended", NEW c \in Echo!Rounds
      PROVE  net[c].to = <<>> /\ net[c].from = <<>>
  BY <1>3 DEF EchoInvariant, OneRequest
<1>4. ASSUME main.at = "ended", NEW c \in Echo!Rounds
      PROVE  net[c].closed
  <2>1. main.client = Clients /\ net[main.client].closed
    BY <1>4 DEF EchoInvariant, Connections
  <2>2. c = Clients \/ c < Clients
    BY DEF Echo!Rounds, Echo!EchoAssumption
  <2> QED
    BY <2>1, <2>2 DEF EchoInvariant, Connections
<1>5. ASSUME main.at = "ended", NEW c \in Echo!Rounds
      PROVE  net[c].conn # "accepted"
  BY <1>5 DEF EchoInvariant, Connections
<1> QED
  BY <1>1, <1>2, <1>3, <1>4, <1>5 DEF Echo!EchoFaithful

\* For any number of clients and requests, over connections or datagrams: every
\* client gets back its own requests and no others, and when the test is over
\* nothing is on its way and both ends of every connection are closed; the only
\* error is that of a server that gives up before it is up
\* (_test_server_tcp_thread, _test_server_udp_thread, _test_client_tcp_socket).
THEOREM EchoesRight == Echo!EchoAssumption => (Echo!Spec => []Echo!EchoFaithful)
<1> SUFFICES ASSUME Echo!EchoAssumption PROVE Echo!Spec => []Echo!EchoFaithful
  OBVIOUS
<1>1. Echo!Init => EchoInvariant
  BY EchoInit
<1>2. EchoInvariant /\ [Echo!Next]_Echo!echoVars => EchoInvariant'
  BY EchoStep
<1>3. EchoInvariant => Echo!EchoFaithful
  BY EchoIs
<1> QED
  BY <1>1, <1>2, <1>3, PTL DEF Echo!Spec

-----------------------------------------------------------------------------
(* The log lines of a test set.                                             *)

LogLinks == LogLines \cup {Anchor}
Logged == {l \in LogLines : shown[l] = "listed"}
NewLines == {l \in LogLines : shown[l] = "new"}

LogTyped ==
    /\ list \in Memory(LogLinks, LogLinks \cup {NULL})
    /\ queue \in [inq : Seq(Buffers), outq : Seq(Buffers)]
    /\ logger \in [at : {"none", "check", "poll", "empty", "add", "return", "gone"},
                   ent : Buffers \cup {NULL}, old : BOOLEAN]
    /\ run \in [at : {"start", "tests", "aborted", "unregister", "snapshot", "wait", "drain",
                      "stop", "join", "ended"}, left : Int, back : {"tests", "stop"}]
    /\ shown \in [LogLines -> {"new", "listed", "flushed"}]

Listed == \E s \in Seq(LogLines) : Ring(list, Anchor, s) /\ Range(s) = Logged

\* A message on its way to the list has a line that is not in use.
Buffered ==
    /\ logger.ent # NULL <=> logger.at \in {"add", "return"}
    /\ Len(queue.inq) + Len(queue.outq) + (IF logger.ent = NULL THEN 0 ELSE 1)
       = Cardinality(Buffers)
    /\ Len(queue.inq) + (IF logger.at = "add" THEN 1 ELSE 0) <= Cardinality(NewLines)

\* From the snapshot on nothing is logged.  A poll that found the queue empty after
\* it, whether counted yet or not, leaves nothing that the thread could add.
Quiet ==
    /\ run.at = "start" => logger.at = "none"
    /\ run.at \in {"snapshot", "wait", "drain"} => ~sink
    /\ run.at = "drain" => slept
    /\ run.at \in {"wait", "drain"} /\ ~logger.old /\ (slept \/ logger.at = "empty") =>
         queue.inq = <<>> /\ logger.at # "add"

LogInvariant == LogTyped /\ Listed /\ Buffered /\ Quiet

LEMMA LogCardinality ==
  /\ \A S : Log!Cardinality(S) = Cardinality(S)
  /\ \A S : Log!IsFiniteSet(S) <=> IsFiniteSet(S)
<1>1. \A S : Log!Cardinality(S) = Cardinality(S)
  BY DEF Log!Cardinality, Cardinality
<1>2. \A S : Log!IsFiniteSet(S) <=> IsFiniteSet(S)
  BY DEF Log!IsFiniteSet, IsFiniteSet
<1> QED
  BY <1>1, <1>2

LEMMA LogFinite ==
  ASSUME Log!TestLogAssumption
  PROVE  /\ IsFiniteSet(Buffers) /\ Cardinality(Buffers) \in Nat
         /\ IsFiniteSet(LogLines) /\ IsFiniteSet(LogLinks) /\ IsFiniteSet(NewLines)
         /\ Anchor \in LogLinks /\ Anchor \notin LogLines /\ NULL \notin Buffers
         /\ Cardinality(NewLines) \in Nat
<1>1. IsFiniteSet(Buffers) /\ IsFiniteSet(LogLines)
  BY LogCardinality DEF Log!TestLogAssumption
<1>2. NewLines \in SUBSET LogLines
  BY DEF NewLines
<1>3. IsFiniteSet(NewLines) /\ IsFiniteSet(LogLinks)
  BY <1>1, <1>2, FS_Subset, FS_AddElement DEF LogLinks
<1> QED
  BY <1>1, <1>3, FS_CardinalityType DEF Log!TestLogAssumption, LogLinks

\* A sequence of a finite set's elements, each once.
LEMMA AllOnce ==
  ASSUME NEW S, IsFiniteSet(S)
  PROVE  Log!SetToSeq(S) \in Seq(S) /\ Len(Log!SetToSeq(S)) = Cardinality(S)
<1>1. \E f \in [1 .. Cardinality(S) -> S] : Log!IsInjective(f)
  BY FS_CardinalityType DEF ExistsBijection, Bijection, Injection, IsInjective, Log!IsInjective
<1>2. Log!SetToSeq(S) = CHOOSE f \in [1 .. Cardinality(S) -> S] : Log!IsInjective(f)
  BY LogCardinality DEF Log!SetToSeq
<1>3. Log!SetToSeq(S) \in [1 .. Cardinality(S) -> S]
  BY <1>1, <1>2
<1> QED
  BY <1>3, FS_CardinalityType

LEMMA LogBegin == Log!TestLogAssumption /\ Log!Init => LogInvariant
<1> SUFFICES ASSUME Log!TestLogAssumption, Log!Init PROVE LogInvariant
  OBVIOUS
<1>1. list = ListInit(Links(LogLinks, NULL), Anchor)
  BY DEF Log!Init, Log!ListInit, Log!Links, ListInit, Links, LogLinks
<1>2. list \in Memory(LogLinks, LogLinks \cup {NULL}) /\ Ring(list, Anchor, <<>>)
  BY <1>1, RingInit, LogFinite
<1>3. Log!SetToSeq(Buffers) \in Seq(Buffers) /\ Len(Log!SetToSeq(Buffers)) = Cardinality(Buffers)
  BY LogFinite, AllOnce
<1>4. LogTyped
  BY <1>2, <1>3 DEF Log!Init, LogTyped, Log!TestLogAssumption
<1>5. Logged = {} /\ Range(<<>>) = {} /\ <<>> \in Seq(LogLines)
  BY DEF Log!Init, Logged, Range
<1>6. Listed
  BY <1>2, <1>5 DEF Listed
<1>7. Buffered
  BY <1>3, LogFinite DEF Log!Init, Buffered
<1>8. Quiet
  BY DEF Log!Init, Quiet
<1> QED
  BY <1>4, <1>6, <1>7, <1>8 DEF LogInvariant

\* The line that the thread takes for a message.
LEMMA LineTaken ==
  ASSUME Log!TestLogAssumption, LogInvariant, Log!LoggerAdd
  PROVE  \E l \in LogLines :
           /\ shown[l] = "new" /\ shown' = [shown EXCEPT ![l] = "listed"]
           /\ list' = ListAddTail(list, Anchor, l)
           /\ NewLines' = NewLines \ {l} /\ Logged' = Logged \cup {l}
<1> DEFINE l == CHOOSE l \in LogLines : shown[l] = "new"
<1>1. Cardinality(NewLines) # 0
  <2>1. logger.at = "add" /\ Len(queue.inq) \in Nat
    BY DEF Log!LoggerAdd, Log!LoggerAt, LogInvariant, LogTyped
  <2> QED
    BY <2>1, LogFinite DEF LogInvariant, Buffered
<1>2. NewLines # {}
  BY <1>1, FS_EmptySet
<1>3. l \in LogLines /\ shown[l] = "new"
  BY <1>2 DEF NewLines
<1>4. shown' = [shown EXCEPT ![l] = "listed"] /\ list' = ListAddTail(list, Anchor, l)
  BY DEF Log!LoggerAdd, Log!ListAddTail, ListAddTail, Log!LinkBetween, LinkBetween
<1> HIDE DEF l
<1>5. NewLines' = NewLines \ {l} /\ Logged' = Logged \cup {l}
  BY <1>3, <1>4 DEF NewLines, Logged, LogInvariant, LogTyped
<1> QED
  BY <1>3, <1>4, <1>5

LEMMA ListedStep ==
  ASSUME Log!TestLogAssumption, LogInvariant,
         Log!LoggerAdd \/ Log!FlushLine \/ UNCHANGED <<list, shown>>
  PROVE  /\ list' \in Memory(LogLinks, LogLinks \cup {NULL})
         /\ shown' \in [LogLines -> {"new", "listed", "flushed"}]
         /\ Listed'
<1>1. PICK s \in Seq(LogLines) : Ring(list, Anchor, s) /\ Range(s) = Logged
  BY DEF LogInvariant, Listed
<1>2. s \in Seq(LogLinks) /\ Anchor \in LogLinks /\ Anchor \notin LogLines
      /\ list \in Memory(LogLinks, LogLinks \cup {NULL})
      /\ LogLinks \subseteq LogLinks \cup {NULL}
  BY <1>1, LogFinite DEF LogLinks, LogInvariant, LogTyped
<1>3. CASE Log!LoggerAdd
  <2>1. PICK l \in LogLines :
           /\ shown[l] = "new" /\ shown' = [shown EXCEPT ![l] = "listed"]
           /\ list' = ListAddTail(list, Anchor, l)
           /\ NewLines' = NewLines \ {l} /\ Logged' = Logged \cup {l}
    BY <1>3, LineTaken
  <2>2. l \notin Range(s) /\ l \in LogLinks /\ l # Anchor
    BY <1>1, <1>2, <2>1 DEF Logged, LogLinks
  <2>3. list' \in Memory(LogLinks, LogLinks \cup {NULL}) /\ Ring(list', Anchor, Append(s, l))
    BY <1>1, <1>2, <2>1, <2>2, RingAppend
  <2>4. Append(s, l) \in Seq(LogLines) /\ Range(Append(s, l)) = Range(s) \cup {l}
    BY <1>1, RangeAppend
  <2> QED
    BY <1>1, <2>1, <2>3, <2>4 DEF Listed, LogInvariant, LogTyped
<1>4. CASE Log!FlushLine
  <2>1. /\ list.next[Anchor] # Anchor
        /\ shown' = [shown EXCEPT ![list.next[Anchor]] = "flushed"]
        /\ list' = ListDel(list, list.next[Anchor])
    BY <1>4 DEF Log!FlushLine, Log!ListEmpty, Log!ListFirst, Log!ListDel, ListDel
  <2>2. list.next[Anchor] = Seat(s, Anchor, 1)
    <3>1. list.next[Seat(s, Anchor, 0)] = Seat(s, Anchor, 0 + 1) /\ Seat(s, Anchor, 0) = Anchor
      BY <1>1 DEF Ring, Leads, Seat
    <3> QED
      BY <3>1
  <2>3. s # <<>> /\ list.next[Anchor] = Head(s) /\ IsInjective(s)
    BY <1>1, <2>1, <2>2 DEF Seat, Ring
  <2>4. /\ ListDel(list, Head(s)) \in Memory(LogLinks, LogLinks \cup {NULL})
        /\ Ring(ListDel(list, Head(s)), Anchor, Tail(s))
    BY <1>1, <1>2, <2>3, RingTail
  <2>5. Tail(s) \in Seq(LogLines) /\ Range(Tail(s)) = Range(s) \ {Head(s)} /\ Head(s) \in LogLines
    BY <1>1, <2>3, ListTail
  <2>6. Logged' = Logged \ {Head(s)}
    BY <2>1, <2>3, <2>5 DEF Logged, LogInvariant, LogTyped
  <2> QED
    BY <1>1, <2>1, <2>3, <2>4, <2>5, <2>6 DEF Listed, LogInvariant, LogTyped
<1>5. CASE UNCHANGED <<list, shown>>
  BY <1>5 DEF Listed, Logged, LogInvariant, LogTyped
<1> QED
  BY <1>3, <1>4, <1>5

\* The first line of the list is one that was listed.
LEMMA FirstListed ==
  ASSUME Log!TestLogAssumption, LogInvariant, Log!FlushLine
  PROVE  list.next[Anchor] \in LogLines /\ shown[list.next[Anchor]] = "listed"
<1>1. PICK s \in Seq(LogLines) : Ring(list, Anchor, s) /\ Range(s) = Logged
  BY DEF LogInvariant, Listed
<1>2. list.next[Seat(s, Anchor, 0)] = Seat(s, Anchor, 0 + 1) /\ Seat(s, Anchor, 0) = Anchor
  BY <1>1 DEF Ring, Leads, Seat
<1>3. list.next[Anchor] # Anchor
  BY DEF Log!FlushLine, Log!ListEmpty
<1>4. 1 \in 1 .. Len(s) /\ list.next[Anchor] = s[1]
  BY <1>2, <1>3 DEF Seat
<1>5. s[1] \in Logged
  BY <1>1, <1>4 DEF Range
<1> QED
  BY <1>4, <1>5 DEF Logged

WalkUpTo(bound, f, head) ==
    LET at[k \in 0 .. bound] == IF k = 0 THEN head ELSE f[at[k - 1]]
        end == IF \E k \in 1 .. bound : at[k] = head
               THEN CHOOSE k \in 1 .. bound : at[k] = head /\ \A j \in 1 .. k - 1 : at[j] # head
               ELSE bound
    IN  [k \in 1 .. end - 1 |-> at[k]]

LEMMA LogWalks ==
  ASSUME Log!TestLogAssumption, LogInvariant
  PROVE  Log!ToSet(Log!ListEntries(list, Anchor)) = Logged
<1>1. PICK s \in Seq(LogLines) : Ring(list, Anchor, s) /\ Range(s) = Logged
  BY DEF LogInvariant, Listed
<1>2. s \in Seq(LogLinks)
  BY <1>1 DEF LogLinks
<1>3. ListEntries(list, Anchor) = s
  BY <1>1, <1>2, LogFinite, RingWalks DEF LogInvariant, LogTyped
<1>4. Walk(list.next, Anchor) = WalkUpTo(Cardinality(DOMAIN list.next), list.next, Anchor)
  BY DEF Walk, WalkUpTo
<1>5. Log!Walk(list.next, Anchor) = WalkUpTo(Log!Cardinality(DOMAIN list.next), list.next, Anchor)
  BY DEF Log!Walk, WalkUpTo
<1>6. Log!ListEntries(list, Anchor) = s
  BY <1>3, <1>4, <1>5, LogCardinality DEF ListEntries, Log!ListEntries
<1> QED
  BY <1>1, <1>6 DEF Log!ToSet, Range

\* The thread's steps, and those of the main thread, with the lists of the queues.
LEMMA LoggerKeeps ==
  ASSUME Log!TestLogAssumption, LogInvariant, Log!Logger
  PROVE  LogInvariant'
<1> USE DEF LogInvariant, LogTyped, Log!LoggerAt
<1>0. /\ Len(queue.inq) \in Nat /\ Len(queue.outq) \in Nat
      /\ Cardinality(NewLines) \in Nat /\ Cardinality(Buffers) \in Nat /\ NULL \notin Buffers
  BY LogFinite
<1>1. CASE Log!LoggerCheck
  <2>1. UNCHANGED <<queue, list, sink, slept, run, keep, shown>>
    BY <1>1 DEF Log!LoggerCheck
  <2>2. logger.at = "check" /\ logger' = [logger EXCEPT !.at = IF keep THEN "poll" ELSE "gone"]
    BY <1>1 DEF Log!LoggerCheck
  <2>3. logger'.at \in {"poll", "gone"} /\ logger'.ent = logger.ent /\ logger'.old = logger.old
    BY <2>2
  <2>4. Listed' /\ NewLines' = NewLines
    BY <2>1, ListedStep DEF NewLines
  <2>5. Buffered'
    BY <2>1, <2>2, <2>3, <2>4 DEF Buffered
  <2>6. Quiet'
    BY <2>1, <2>2, <2>3 DEF Quiet
  <2>7. LogTyped'
    BY <2>1, <2>2
  <2> QED
    BY <2>4, <2>5, <2>6, <2>7
<1>2. CASE Log!LoggerPoll /\ queue.inq = <<>>
  <2>1. UNCHANGED <<queue, list, sink, slept, run, keep, shown>>
    BY <1>2 DEF Log!LoggerPoll
  <2>2. logger.at = "poll" /\ logger' = [logger EXCEPT !.at = "empty", !.old = FALSE]
    BY <1>2 DEF Log!LoggerPoll
  <2>4. Listed' /\ NewLines' = NewLines
    BY <2>1, ListedStep DEF NewLines
  <2>5. Buffered'
    BY <2>1, <2>2, <2>4 DEF Buffered
  <2>6. Quiet'
    BY <1>2, <2>1, <2>2 DEF Quiet
  <2>7. LogTyped'
    BY <2>1, <2>2
  <2> QED
    BY <2>4, <2>5, <2>6, <2>7
<1>3. CASE Log!LoggerPoll /\ queue.inq # <<>>
  <2>1. UNCHANGED <<list, sink, slept, run, keep, shown>>
    BY <1>3 DEF Log!LoggerPoll
  <2>2. /\ logger.at = "poll"
        /\ logger' = [logger EXCEPT !.at = "add", !.ent = Head(queue.inq)]
        /\ queue' = [queue EXCEPT !.inq = Tail(@)]
    BY <1>3 DEF Log!LoggerPoll
  <2>3. /\ Head(queue.inq) \in Buffers /\ Tail(queue.inq) \in Seq(Buffers)
        /\ Len(Tail(queue.inq)) = Len(queue.inq) - 1
    BY <1>3
  <2>4. Listed' /\ NewLines' = NewLines
    BY <2>1, ListedStep DEF NewLines
  <2>5. Buffered'
    <3>1. /\ queue'.inq = Tail(queue.inq) /\ queue'.outq = queue.outq
          /\ logger'.at = "add" /\ logger'.ent = Head(queue.inq) /\ logger'.ent # NULL
      BY <1>0, <2>2, <2>3
    <3>2. logger.ent = NULL
      BY <2>2 DEF Buffered
    <3>3. /\ Len(queue'.inq) + Len(queue'.outq) + 1 = Cardinality(Buffers)
          /\ Len(queue'.inq) + 1 <= Cardinality(NewLines')
      BY <1>0, <2>2, <2>3, <2>4, <3>1, <3>2 DEF Buffered
    <3> QED
      BY <3>1, <3>3 DEF Buffered
  <2>6. Quiet'
    BY <1>3, <2>1, <2>2 DEF Quiet
  <2>7. LogTyped'
    BY <2>1, <2>2, <2>3
  <2> QED
    BY <2>4, <2>5, <2>6, <2>7
<1>4. CASE Log!LoggerSleep
  <2>1. UNCHANGED <<queue, list, sink, run, keep, shown>> /\ slept' = TRUE
    BY <1>4 DEF Log!LoggerSleep
  <2>2. logger.at = "empty" /\ logger' = [logger EXCEPT !.at = "check"]
    BY <1>4 DEF Log!LoggerSleep
  <2>4. Listed' /\ NewLines' = NewLines
    BY <2>1, ListedStep DEF NewLines
  <2>5. Buffered'
    BY <2>1, <2>2, <2>4 DEF Buffered
  <2>6. Quiet'
    BY <2>1, <2>2 DEF Quiet
  <2>7. LogTyped'
    BY <2>1, <2>2
  <2> QED
    BY <2>4, <2>5, <2>6, <2>7
<1>5. CASE Log!LoggerAdd
  <2>1. UNCHANGED <<queue, sink, slept, run, keep>>
    BY <1>5 DEF Log!LoggerAdd
  <2>2. logger.at = "add" /\ logger' = [logger EXCEPT !.at = "return"]
    BY <1>5 DEF Log!LoggerAdd
  <2>3. PICK l \in LogLines : shown[l] = "new" /\ NewLines' = NewLines \ {l}
    BY <1>5, LineTaken
  <2>4. Cardinality(NewLines') = Cardinality(NewLines) - 1
    <3>1. l \in NewLines /\ IsFiniteSet(NewLines)
      BY <2>3, LogFinite DEF NewLines
    <3> QED
      BY <2>3, <3>1, FS_RemoveElement
  <2>5. Buffered'
    BY <1>0, <2>1, <2>2, <2>4 DEF Buffered
  <2>6. Quiet'
    BY <2>1, <2>2 DEF Quiet
  <2>7. LogTyped' /\ Listed'
    BY <1>5, <2>1, <2>2, ListedStep
  <2> QED
    BY <2>5, <2>6, <2>7
<1>6. CASE Log!LoggerReturn
  <2>1. UNCHANGED <<list, sink, slept, run, keep, shown>>
    BY <1>6 DEF Log!LoggerReturn
  <2>2. /\ logger.at = "return" /\ logger' = [logger EXCEPT !.at = "check", !.ent = NULL]
        /\ queue' = [queue EXCEPT !.outq = Append(@, logger.ent)]
    BY <1>6 DEF Log!LoggerReturn
  <2>3. /\ logger.ent # NULL /\ logger.ent \in Buffers
        /\ Append(queue.outq, logger.ent) \in Seq(Buffers)
        /\ Len(Append(queue.outq, logger.ent)) = Len(queue.outq) + 1
    BY <2>2 DEF Buffered
  <2>4. Listed' /\ NewLines' = NewLines
    BY <2>1, ListedStep DEF NewLines
  <2>5. Buffered'
    BY <1>0, <2>1, <2>2, <2>3, <2>4 DEF Buffered
  <2>6. Quiet'
    BY <2>1, <2>2 DEF Quiet
  <2>7. LogTyped'
    BY <2>1, <2>2, <2>3
  <2> QED
    BY <2>4, <2>5, <2>6, <2>7
<1> QED
  BY <1>1, <1>2, <1>3, <1>4, <1>5, <1>6 DEF Log!Logger, Log!LoggerPoll

\* A step of the main thread that leaves the queues and the list alone.
LEMMA RunMoves ==
  ASSUME Log!TestLogAssumption, LogInvariant, UNCHANGED <<queue, list, shown>>,
         run' \in [at : {"start", "tests", "aborted", "unregister", "snapshot", "wait", "drain",
                         "stop", "join", "ended"}, left : Int, back : {"tests", "stop"}],
         logger' = logger, Quiet'
  PROVE  LogInvariant'
<1>1. Listed' /\ NewLines' = NewLines
  BY ListedStep DEF NewLines
<1>2. Buffered'
  BY <1>1 DEF LogInvariant, Buffered
<1> QED
  BY <1>1, <1>2 DEF LogInvariant, LogTyped

LEMMA RunKeeps ==
  ASSUME Log!TestLogAssumption, LogInvariant, Log!Run
  PROVE  LogInvariant'
<1> USE DEF LogInvariant, LogTyped, Log!RunAt
<1>0. /\ Len(queue.inq) \in Nat /\ Len(queue.outq) \in Nat
      /\ Cardinality(NewLines) \in Nat /\ Cardinality(Buffers) \in Nat /\ NULL \notin Buffers
  BY LogFinite
<1>1. CASE Log!StartLogger
  <2>1. /\ UNCHANGED <<queue, list, sink, slept, keep, shown>>
        /\ run.at = "start" /\ run' = [run EXCEPT !.at = "unregister"]
        /\ logger' = [logger EXCEPT !.at = "check"]
    BY <1>1 DEF Log!StartLogger
  <2>2. Listed' /\ NewLines' = NewLines
    BY <2>1, ListedStep DEF NewLines
  <2>3. Buffered'
    BY <2>1, <2>2 DEF Buffered, Quiet
  <2>4. Quiet'
    BY <2>1 DEF Quiet
  <2>5. LogTyped'
    BY <2>1
  <2> QED
    BY <2>2, <2>3, <2>4, <2>5
<1>2. CASE Log!LogMessage /\ queue.outq = <<>>
  BY <1>2, RunMoves DEF Log!LogMessage, Quiet
<1>3. CASE Log!LogMessage /\ queue.outq # <<>>
  <2>1. /\ UNCHANGED <<list, sink, slept, run, logger, keep, shown>> /\ run.at = "tests"
        /\ queue' = [inq |-> Append(queue.inq, Head(queue.outq)), outq |-> Tail(queue.outq)]
        /\ Log!Unlogged > 0
    BY <1>3 DEF Log!LogMessage
  <2>2. /\ Head(queue.outq) \in Buffers /\ Tail(queue.outq) \in Seq(Buffers)
        /\ Len(Tail(queue.outq)) = Len(queue.outq) - 1
        /\ Append(queue.inq, Head(queue.outq)) \in Seq(Buffers)
        /\ Len(Append(queue.inq, Head(queue.outq))) = Len(queue.inq) + 1
    BY <1>3
  <2>3. Listed' /\ NewLines' = NewLines
    BY <2>1, ListedStep DEF NewLines
  <2>4. Len(queue.inq) + (IF logger.at = "add" THEN 1 ELSE 0) < Cardinality(NewLines)
    BY <1>0, <2>1, LogCardinality DEF Log!Unlogged, NewLines
  <2>5. Buffered'
    BY <1>0, <2>1, <2>2, <2>3, <2>4 DEF Buffered
  <2>6. Quiet'
    BY <2>1 DEF Quiet
  <2>7. LogTyped'
    BY <2>1, <2>2
  <2> QED
    BY <2>3, <2>5, <2>6, <2>7
<1>4. CASE Log!TestDone
  <2>1. /\ UNCHANGED <<queue, list, sink, slept, logger, keep, shown>>
        /\ run.at = "tests" /\ run' = [run EXCEPT !.at = "unregister", !.left = @ - 1]
    BY <1>4 DEF Log!TestDone
  <2>2. Quiet'
    BY <2>1 DEF Quiet
  <2>3. run.left - 1 \in Int /\ run.back \in {"tests", "stop"}
    OBVIOUS
  <2>4. run' = [at |-> "unregister", left |-> run.left - 1, back |-> run.back]
    BY <2>1
  <2>5. run' \in [at : {"start", "tests", "aborted", "unregister", "snapshot", "wait", "drain",
                        "stop", "join", "ended"}, left : Int, back : {"tests", "stop"}]
    BY <2>3, <2>4
  <2> QED
    BY <2>1, <2>2, <2>5, RunMoves
<1>5. CASE Log!StopLogger
  BY <1>5, RunMoves DEF Log!StopLogger, Quiet
<1>6. CASE Log!FlushUnregister
  BY <1>6, RunMoves DEF Log!FlushUnregister, Quiet
<1>7. CASE Log!FlushSnapshot
  <2>1. /\ UNCHANGED <<queue, list, sink, keep, shown>> /\ slept' = FALSE
        /\ run.at = "snapshot" /\ run' = [run EXCEPT !.at = "wait"]
        /\ logger' = [logger EXCEPT !.old = logger.at = "empty"]
    BY <1>7 DEF Log!FlushSnapshot
  <2>2. logger'.at = logger.at /\ logger'.ent = logger.ent
        /\ (logger'.old <=> logger.at = "empty")
    BY <2>1
  <2>3. Listed' /\ NewLines' = NewLines
    BY <2>1, ListedStep DEF NewLines
  <2>4. Buffered'
    BY <2>1, <2>2, <2>3 DEF Buffered
  <2>5. Quiet'
    BY <2>1, <2>2 DEF Quiet
  <2>6. LogTyped'
    BY <2>1
  <2> QED
    BY <2>3, <2>4, <2>5, <2>6
<1>8. CASE Log!FlushWait
  BY <1>8, RunMoves DEF Log!FlushWait, Quiet
<1>9. CASE Log!FlushLine
  <2>1. UNCHANGED <<queue, sink, slept, logger, run, keep>> /\ run.at = "drain"
    BY <1>9 DEF Log!FlushLine
  <2>2. LogTyped' /\ Listed'
    BY <1>9, <2>1, ListedStep
  <2>3. NewLines' = NewLines
    <3>1. list.next[Anchor] \notin NewLines
      BY <1>9, FirstListed DEF NewLines
    <3>2. shown' = [shown EXCEPT ![list.next[Anchor]] = "flushed"]
      BY <1>9 DEF Log!FlushLine, Log!ListFirst
    <3> QED
      BY <3>1, <3>2 DEF NewLines
  <2>4. Buffered' /\ Quiet'
    BY <2>1, <2>3 DEF Buffered, Quiet
  <2> QED
    BY <2>2, <2>4
<1>10. CASE Log!FlushEnd
  BY <1>10, RunMoves DEF Log!FlushEnd, Quiet
<1>11. CASE Log!StopRunning
  BY <1>11, RunMoves DEF Log!StopRunning, Quiet
<1>12. CASE Log!JoinLogger
  BY <1>12, RunMoves DEF Log!JoinLogger, Quiet
<1> QED
  BY <1>1, <1>2, <1>3, <1>4, <1>5, <1>6, <1>7, <1>8, <1>9, <1>10, <1>11, <1>12
     DEF Log!Run, Log!LogMessage

LEMMA LogStep ==
  ASSUME Log!TestLogAssumption, LogInvariant, [Log!Next]_Log!testLogVars
  PROVE  LogInvariant'
<1>1. CASE Log!Next
  BY <1>1, LoggerKeeps, RunKeeps DEF Log!Next
<1>2. CASE UNCHANGED Log!testLogVars
  <2>1. UNCHANGED <<queue, list, sink, slept, logger, run, shown>>
    BY <1>2 DEF Log!testLogVars
  <2>2. Quiet'
    BY <2>1 DEF Quiet, LogInvariant
  <2> QED
    BY <2>1, <2>2, RunMoves DEF LogInvariant, LogTyped
<1> QED
  BY <1>1, <1>2

\* For any number of tests, messages and buffers: _test_flush_logger has the list to
\* itself and finds all that was logged in it, but for a poll that began before the
\* sink was unregistered; no line and no buffer is lost (test_base.h).
THEOREM FlushedAlone == Log!TestLogAssumption => (Log!Spec => []Log!FlushAlone)
<1> SUFFICES ASSUME Log!TestLogAssumption PROVE Log!Spec => []Log!FlushAlone
  OBVIOUS
<1>1. Log!Init => LogInvariant
  BY LogBegin
<1>2. LogInvariant /\ [Log!Next]_Log!testLogVars => LogInvariant'
  BY LogStep
<1>3. LogInvariant => Log!FlushAlone
  <2> SUFFICES ASSUME LogInvariant PROVE Log!FlushAlone
    OBVIOUS
  <2>1. Log!ToSet(Log!ListEntries(list, Anchor)) = Logged
    BY LogWalks
  <2>2. Len(queue.inq) + Len(queue.outq) + (IF logger.ent = NULL THEN 0 ELSE 1)
        = Log!Cardinality(Buffers)
    BY LogCardinality DEF LogInvariant, Buffered
  <2> QED
    BY <2>1, <2>2 DEF Log!FlushAlone, Logged, LogInvariant, Quiet
<1> QED
  BY <1>1, <1>2, <1>3, PTL DEF Log!Spec
=============================================================================
