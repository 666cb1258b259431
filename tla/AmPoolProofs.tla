---------------------------- MODULE AmPoolProofs ----------------------------
(***************************************************************************)
(* Theorems of AmPool, for any finite sets of threads, sizes and chunks.   *)
(***************************************************************************)
EXTENDS AmPool, Basics

-----------------------------------------------------------------------------
(* Buckets, and the lists they keep.                                        *)
PB == Pools \X Buckets

LEMMA BucketIsOne == ASSUME NEW s \in Sizes PROVE BucketOf(s) \in Buckets
BY DEF Buckets

LEMMA BucketsFinite == IsFiniteSet(Buckets)
<1> DEFINE f == [s \in Sizes |-> BucketOf(s)]
<1>1. f \in Surjection(Sizes, Buckets)
  BY DEF Surjection, Buckets
<1> QED
  BY <1>1, FiniteAssumption, FS_Surjection

LEMMA MinIsIn == ASSUME NEW S \in SUBSET Chunks, S # {} PROVE Min(S) \in S
<1>1. \E m \in S : \A n \in S : m <= n
  BY SizesAssumption, LeastNumber
<1> QED
  BY <1>1 DEF Min

(* The first chunk is taken off a free list, or one is put before it.       *)
LEMMA ListCons ==
  ASSUME NEW s \in Seq(Chunks), NEW c \in Chunks, IsInjective(s), c \notin Range(s)
  PROVE  /\ <<c>> \o s \in Seq(Chunks) /\ Len(<<c>> \o s) = Len(s) + 1
         /\ IsInjective(<<c>> \o s)
         /\ Range(<<c>> \o s) = Range(s) \cup {c}
<1>1. <<c>> \in Seq(Chunks) /\ Len(<<c>>) = 1 /\ <<c>>[1] = c
  OBVIOUS
<1> DEFINE r == <<c>> \o s
           n == Len(s)
<1>2. /\ r \in Seq(Chunks) /\ Len(r) = 1 + n
      /\ \A i \in 1 .. 1 + n : r[i] = IF i <= 1 THEN <<c>>[i] ELSE s[i - 1]
  BY <1>1, ConcatProperties
<1>3. n \in Nat /\ DOMAIN s = 1 .. n /\ DOMAIN r = 1 .. Len(r)
  BY <1>2, LenProperties
<1> HIDE DEF r, n
<1>4. /\ \A i \in 1 .. n + 1 : i # 1 => i - 1 \in 1 .. n /\ r[i] = s[i - 1]
      /\ 1 \in 1 .. n + 1 /\ r[1] = c
      /\ \A i \in 1 .. n : s[i] # c
      /\ \A i \in 1 .. n : \A j \in 1 .. n : s[i] = s[j] => i = j
  <2>1. \A i \in 1 .. n : s[i] # c
    BY <1>3 DEF Range
  <2>2. \A i \in 1 .. n : \A j \in 1 .. n : s[i] = s[j] => i = j
    BY <1>3 DEF IsInjective
  <2> QED
    BY <1>1, <1>2, <1>3, <2>1, <2>2
<1>5. \A i \in 1 .. n + 1 : \A j \in 1 .. n + 1 : r[i] = r[j] => i = j
  <2> SUFFICES ASSUME NEW i \in 1 .. n + 1, NEW j \in 1 .. n + 1, r[i] = r[j] PROVE i = j
    OBVIOUS
  <2>1. CASE i = 1 \/ j = 1
    BY <1>4, <2>1
  <2>2. CASE i # 1 /\ j # 1
    <3>1. i - 1 = j - 1
      BY <1>4, <2>2
    <3> QED
      BY <1>3, <3>1
  <2> QED
    BY <2>1, <2>2
<1>6. IsInjective(r)
  <2>1. DOMAIN r = 1 .. n + 1
    BY <1>2, <1>3
  <2> QED
    BY <1>5, <2>1 DEF IsInjective
<1>7. Range(r) = Range(s) \cup {c}
  <2>0. Range(r) = {r[i] : i \in 1 .. n + 1} /\ Range(s) = {s[i] : i \in 1 .. n}
    <3>1. DOMAIN r = 1 .. n + 1 /\ DOMAIN s = 1 .. n
      BY <1>2, <1>3
    <3> QED
      BY <3>1 DEF Range
  <2>1. ASSUME NEW i \in 1 .. n PROVE s[i] \in Range(r)
    <3>1. i + 1 \in 1 .. n + 1 /\ i + 1 # 1 /\ (i + 1) - 1 = i
      BY <1>3
    <3>2. r[i + 1] = s[i]
      BY <1>4, <3>1
    <3> QED
      BY <2>0, <3>1, <3>2
  <2>2. ASSUME NEW i \in 1 .. n + 1 PROVE r[i] \in Range(s) \cup {c}
    <3>1. CASE i = 1
      BY <1>4, <3>1
    <3>2. CASE i # 1
      <4>1. i - 1 \in 1 .. n /\ r[i] = s[i - 1]
        BY <1>4, <3>2
      <4> QED
        BY <2>0, <4>1
    <3> QED
      BY <3>1, <3>2
  <2>3. c \in Range(r)
    BY <2>0, <1>4
  <2>4. Range(s) \cup {c} \subseteq Range(r)
    BY <2>0, <2>1, <2>3
  <2>5. Range(r) \subseteq Range(s) \cup {c}
    BY <2>0, <2>2
  <2> QED
    BY <2>4, <2>5
<1> QED
  BY <1>2, <1>3, <1>6, <1>7 DEF r, n

-----------------------------------------------------------------------------
(* The invariant.                                                           *)
Handles == [pool : Pools, chunk : Chunks, size : Sizes]
Calls == [at : {"idle", "take", "fill", "add", "release", "mark", "subtract"},
          pool : Pools \cup {NULL}, size : Nat, chunk : Chunks \cup {NULL},
          old : SUBSET Handles, new : SUBSET Handles]

TypeOK ==
    /\ pools \in SUBSET Pools
    /\ used \in [PB -> SUBSET Chunks]
    /\ free \in [PB -> Seq(Chunks)]
    /\ used_size \in [PB -> Int] /\ used_count \in [PB -> Int]
    /\ total_size \in [PB -> Int] /\ total_count \in [PB -> Int]
    /\ size \in [Pools -> Int]
    /\ element_count \in [Pools -> Int]
    /\ chunk_size \in [Chunks -> Nat]
    /\ magic \in [Chunks -> {"used", "freed"}]
    /\ heap \in SUBSET Chunks
    /\ held \in SUBSET Handles
    /\ call \in [Threads -> Calls]

\* What a call works with.
CallOK(c) ==
    /\ c.at = "idle" <=> c.pool = NULL
    /\ c.at = "idle" => c.old = {} /\ c.new = {}
    /\ c.at # "idle" => c.pool \in pools /\ c.size \in Sizes
    /\ c.at \in {"fill", "add", "release", "mark", "subtract"} => c.chunk \in Chunks
    /\ c.old # {} => c.at \in {"take", "fill", "add"}
    /\ c.new # {} => c.at \in {"release", "mark", "subtract"}
    /\ \A h \in c.old : \A g \in c.old : h = g
    /\ \A h \in c.new : \A g \in c.new : h = g
    /\ \A h \in c.old \cup c.new : h.pool = c.pool
Locals ==
    /\ \A t \in Threads : CallOK(call[t])
    /\ \A h \in held : h.pool \in pools

Typed == TypeOK /\ Locals

LEMMA ConstantsKnown ==
  /\ NULL \notin Pools /\ Sizes \subseteq Nat /\ 0 \notin Sizes /\ Chunks \subseteq Nat
BY PoolsAssumption, SizesAssumption

LEMMA IdleIsCall == Idle \in Calls /\ Idle.at = "idle" /\ Idle.pool = NULL
                    /\ Idle.old = {} /\ Idle.new = {}
BY DEF Idle, Calls

(* What a call does is done to the bucket of its pool and size.             *)
LEMMA CallTyped ==
  ASSUME Typed, NEW t \in Threads
  PROVE  /\ call[t] \in Calls /\ CallOK(call[t])
         /\ ~ At(t, "idle") => Bucket(t) \in PB
<1>1. call[t] \in Calls /\ CallOK(call[t])
  BY DEF Typed, TypeOK, Locals
<1>2. ASSUME ~ At(t, "idle") PROVE Bucket(t) \in PB
  <2>1. call[t].pool \in Pools /\ call[t].size \in Sizes
    BY <1>1, <1>2 DEF At, CallOK, Typed, TypeOK
  <2> QED
    BY <2>1, BucketIsOne DEF Bucket, PB
<1> QED
  BY <1>1, <1>2

(* The second half of a realloc is a free of the old chunk.                 *)
LEMMA ListHead == ASSUME NEW s \in Seq(Chunks), s # <<>> PROVE Head(s) \in Chunks
BY EmptySeq, LenProperties, ElementOfSeq

LEMMA OldCall ==
  ASSUME Typed, NEW t \in Threads, call[t] \in Calls, CallOK(call[t]), call[t].at # "idle",
         NEW new \in SUBSET Handles, \A h \in new : \A g \in new : h = g,
         \A h \in new : h.pool = call[t].pool, FreeOld(t, new)
  PROVE  \E c \in Calls : call' = [call EXCEPT ![t] = c] /\ CallOK(c)
<1>1. CASE call[t].old = {}
  <2>1. call' = [call EXCEPT ![t] = Idle]
    BY <1>1 DEF FreeOld
  <2>2. CallOK(Idle)
    BY IdleIsCall DEF CallOK
  <2> QED
    BY <2>1, <2>2, IdleIsCall
<1>2. CASE call[t].old # {}
  <2>1. PICK h \in call[t].old :
          call' = [call EXCEPT ![t] = [Idle EXCEPT !.at = "release", !.pool = h.pool,
                                         !.size = h.size, !.chunk = h.chunk, !.new = new]]
    BY <1>2 DEF FreeOld
  <2> DEFINE c == [Idle EXCEPT !.at = "release", !.pool = h.pool,
                               !.size = h.size, !.chunk = h.chunk, !.new = new]
  <2>2. h \in Handles /\ h.pool = call[t].pool
    BY <2>1 DEF Calls, CallOK
  <2>3. c \in Calls
    BY <2>2, ConstantsKnown DEF Calls, Handles, Idle
  <2>4. /\ c.at = "release" /\ c.pool = h.pool /\ c.size = h.size /\ c.chunk = h.chunk
        /\ c.old = {} /\ c.new = new
    BY DEF Idle
  <2> HIDE DEF c
  <2>5. CallOK(c)
    BY <2>2, <2>4, ConstantsKnown DEF CallOK, Handles
  <2>6. call' = [call EXCEPT ![t] = c]
    BY <2>1 DEF c
  <2> QED
    BY <2>3, <2>5, <2>6
<1> QED
  BY <1>1, <1>2

(* A call stays one, and works on a pool that exists.                       *)
LEMMA CallStep ==
  ASSUME Typed, [Next]_vars
  PROVE  call' \in [Threads -> Calls] /\ \A u \in Threads : CallOK(call[u])'
  <2> USE ConstantsKnown, IdleIsCall
  <2>0. TypeOK /\ Locals /\ \A u \in Threads : CallOK(call[u])
    BY DEF Typed, Locals
  <2>1. CASE UNCHANGED vars
    BY <2>0, <2>1 DEF vars, TypeOK, CallOK
  <2>2. ASSUME NEW t \in Threads, Alloc(t)
        PROVE  call' \in [Threads -> Calls] /\ \A u \in Threads : CallOK(call[u])'
    <3>1. PICK p \in pools, s \in Sizes : /\ At(t, "idle") /\ pools' = pools
            /\ call' = [call EXCEPT ![t] = [Idle EXCEPT !.at = "take", !.pool = p, !.size = s]]
            /\ p \in Pools
      BY <2>2, <2>0 DEF Alloc, TypeOK
    <3> DEFINE c == [Idle EXCEPT !.at = "take", !.pool = p, !.size = s]
    <3>2. call' = [call EXCEPT ![t] = c] /\ pools' = pools
      BY <3>1, <2>0 DEF Idle, TypeOK
    <3>3. call[t] \in Calls /\ CallOK(call[t]) /\ call[t].at = "idle"
      BY <3>1, CallTyped DEF Idle, At
    <3>4. /\ c \in Calls
          /\ c.at = "take" /\ c.pool = p /\ c.size = s /\ c.old = {} /\ c.new = {}
      BY <3>3, <2>0, <3>1 DEF Calls, Idle, Handles, TypeOK
    <3> HIDE DEF c
    <3>5. CallOK(c)
      BY <2>0, <3>3, <3>4, <3>1 DEF CallOK
    <3> QED
      BY <2>0, <3>2, <3>4, <3>5 DEF TypeOK, CallOK
  <2>3. ASSUME NEW t \in Threads, Realloc(t)
        PROVE  call' \in [Threads -> Calls] /\ \A u \in Threads : CallOK(call[u])'
    <3>1. PICK h \in held, s \in Sizes : /\ At(t, "idle") /\ pools' = pools
            /\ call' = [call EXCEPT ![t] = [Idle EXCEPT !.at = "take", !.pool = h.pool,
                                                       !.size = s, !.old = {h}]]
            /\ h \in Handles /\ h.pool \in pools /\ h.pool \in Pools
      BY <2>3, <2>0 DEF Realloc, TypeOK, Locals
    <3> DEFINE c == [Idle EXCEPT !.at = "take", !.pool = h.pool, !.size = s, !.old = {h}]
    <3>2. call' = [call EXCEPT ![t] = c] /\ pools' = pools
      BY <3>1, <2>0 DEF Idle, TypeOK
    <3>3. call[t] \in Calls /\ CallOK(call[t]) /\ call[t].at = "idle"
      BY <3>1, CallTyped DEF Idle, At
    <3>4. /\ c \in Calls
          /\ c.at = "take" /\ c.pool = h.pool /\ c.size = s /\ c.old = {h} /\ c.new = {}
      BY <3>3, <2>0, <3>1 DEF Calls, Idle, Handles, TypeOK
    <3> HIDE DEF c
    <3>5. CallOK(c)
      BY <2>0, <3>3, <3>4, <3>1 DEF CallOK
    <3> QED
      BY <2>0, <3>2, <3>4, <3>5 DEF TypeOK, CallOK
  <2>4. ASSUME NEW t \in Threads, TakeFree(t)
        PROVE  call' \in [Threads -> Calls] /\ \A u \in Threads : CallOK(call[u])'
    <3>0. Head(free[Bucket(t)]) \in Chunks
      BY <2>4, <2>0, CallTyped, ListHead DEF TakeFree, At, TypeOK
    <3>1. PICK k \in Chunks : /\ At(t, "take") /\ pools' = pools
            /\ call' = [call EXCEPT ![t].at = "fill", ![t].chunk = k]
      BY <2>4, <3>0 DEF TakeFree, Take
    <3> DEFINE c == [call[t] EXCEPT !.at = "fill", !.chunk = k]
    <3>2. call' = [call EXCEPT ![t] = c] /\ pools' = pools
      BY <3>1, <2>0 DEF Idle, TypeOK
    <3>3. call[t] \in Calls /\ CallOK(call[t]) /\ call[t].at = "take"
      BY <3>1, CallTyped DEF Idle, At
    <3>4. /\ c \in Calls
          /\ c.at = "fill" /\ c.chunk = k
          /\ c.pool = call[t].pool /\ c.size = call[t].size
          /\ c.old = call[t].old /\ c.new = call[t].new
      BY <3>3, <2>0, <3>1 DEF Calls, Idle, Handles, TypeOK
    <3> HIDE DEF c
    <3>5. CallOK(c)
      BY <2>0, <3>3, <3>4, <3>1 DEF CallOK
    <3> QED
      BY <2>0, <3>2, <3>4, <3>5 DEF TypeOK, CallOK
  <2>5. ASSUME NEW t \in Threads, TakeNew(t)
        PROVE  call' \in [Threads -> Calls] /\ \A u \in Threads : CallOK(call[u])'
    <3>0. Min(heap) \in Chunks
      BY <2>5, <2>0, MinIsIn DEF TakeNew, TypeOK
    <3>1. PICK k \in Chunks : /\ At(t, "take") /\ pools' = pools
            /\ call' = [call EXCEPT ![t].at = "fill", ![t].chunk = k]
      BY <2>5, <3>0 DEF TakeNew, Take
    <3> DEFINE c == [call[t] EXCEPT !.at = "fill", !.chunk = k]
    <3>2. call' = [call EXCEPT ![t] = c] /\ pools' = pools
      BY <3>1, <2>0 DEF Idle, TypeOK
    <3>3. call[t] \in Calls /\ CallOK(call[t]) /\ call[t].at = "take"
      BY <3>1, CallTyped DEF Idle, At
    <3>4. /\ c \in Calls
          /\ c.at = "fill" /\ c.chunk = k
          /\ c.pool = call[t].pool /\ c.size = call[t].size
          /\ c.old = call[t].old /\ c.new = call[t].new
      BY <3>3, <2>0, <3>1 DEF Calls, Idle, Handles, TypeOK
    <3> HIDE DEF c
    <3>5. CallOK(c)
      BY <2>0, <3>3, <3>4, <3>1 DEF CallOK
    <3> QED
      BY <2>0, <3>2, <3>4, <3>5 DEF TypeOK, CallOK
  <2>6. ASSUME NEW t \in Threads, TakeNothing(t)
        PROVE  call' \in [Threads -> Calls] /\ \A u \in Threads : CallOK(call[u])'
    <3>1. PICK c \in Calls : /\ call' = [call EXCEPT ![t] = c] /\ pools' = pools
                             /\ CallOK(c)
      <4>1. call[t] \in Calls /\ CallOK(call[t]) /\ call[t].at = "take"
            /\ FreeOld(t, {}) /\ pools' = pools
        BY <2>6, CallTyped DEF TakeNothing, At
      <4> QED
        BY <4>1, OldCall
    <3> QED
      BY <2>0, <3>1 DEF TypeOK, CallOK
  <2>7. ASSUME NEW t \in Threads, Fill(t)
        PROVE  call' \in [Threads -> Calls] /\ \A u \in Threads : CallOK(call[u])'
    <3> DEFINE c == [call[t] EXCEPT !.at = "add"]
    <3>2. call' = [call EXCEPT ![t] = c] /\ pools' = pools
      BY <2>7, <2>0 DEF Fill, Goto, TypeOK
    <3>3. call[t] \in Calls /\ CallOK(call[t]) /\ call[t].at = "fill"
      BY <2>7, CallTyped DEF Fill, Goto, At
    <3>4. /\ c \in Calls
          /\ c.at = "add" /\ c.chunk = call[t].chunk
          /\ c.pool = call[t].pool /\ c.size = call[t].size
          /\ c.old = call[t].old /\ c.new = call[t].new
      BY <3>3, <2>0 DEF Calls, Idle, Handles, TypeOK
    <3> HIDE DEF c
    <3>5. CallOK(c)
      BY <2>0, <3>3, <3>4 DEF CallOK
    <3> QED
      BY <2>0, <3>2, <3>4, <3>5 DEF TypeOK, CallOK
  <2>8. ASSUME NEW t \in Threads, Add(t)
        PROVE  call' \in [Threads -> Calls] /\ \A u \in Threads : CallOK(call[u])'
    <3> DEFINE n == [pool |-> call[t].pool, chunk |-> call[t].chunk, size |-> call[t].size]
    <3>1. PICK c \in Calls : /\ call' = [call EXCEPT ![t] = c] /\ pools' = pools
                             /\ CallOK(c)
      <4>1. call[t] \in Calls /\ CallOK(call[t]) /\ call[t].at = "add"
            /\ FreeOld(t, {n}) /\ pools' = pools
        BY <2>8, CallTyped DEF Add, At
      <4>2. n \in Handles /\ n.pool = call[t].pool
        BY <2>0, <4>1 DEF CallOK, Handles, TypeOK
      <4> HIDE DEF n
      <4> QED
        BY <4>1, <4>2, OldCall
    <3> QED
      BY <2>0, <3>1 DEF TypeOK, CallOK
  <2>9. ASSUME NEW t \in Threads, Free(t)
        PROVE  call' \in [Threads -> Calls] /\ \A u \in Threads : CallOK(call[u])'
    <3>1. PICK h \in held : /\ At(t, "idle") /\ pools' = pools
            /\ call' = [call EXCEPT ![t] = [Idle EXCEPT !.at = "release", !.pool = h.pool,
                                                       !.size = h.size, !.chunk = h.chunk]]
            /\ h \in Handles /\ h.pool \in pools /\ h.pool \in Pools
            /\ h.chunk \in Chunks /\ h.size \in Sizes
      BY <2>9, <2>0 DEF Free, TypeOK, Locals, Handles
    <3> DEFINE c == [Idle EXCEPT !.at = "release", !.pool = h.pool,
                             !.size = h.size, !.chunk = h.chunk]
    <3>2. call' = [call EXCEPT ![t] = c] /\ pools' = pools
      BY <3>1, <2>0 DEF Idle, TypeOK
    <3>3. call[t] \in Calls /\ CallOK(call[t]) /\ call[t].at = "idle"
      BY <3>1, CallTyped DEF Idle, At
    <3>4. /\ c \in Calls
          /\ c.at = "release" /\ c.pool = h.pool /\ c.size = h.size /\ c.chunk = h.chunk
          /\ c.old = {} /\ c.new = {}
      BY <3>3, <2>0, <3>1 DEF Calls, Idle, Handles, TypeOK
    <3> HIDE DEF c
    <3>5. CallOK(c)
      BY <2>0, <3>3, <3>4, <3>1 DEF CallOK
    <3> QED
      BY <2>0, <3>2, <3>4, <3>5 DEF TypeOK, CallOK
  <2>10. ASSUME NEW t \in Threads, Release(t)
         PROVE  call' \in [Threads -> Calls] /\ \A u \in Threads : CallOK(call[u])'
    <3> DEFINE c == [call[t] EXCEPT !.at = "mark"]
    <3>2. call' = [call EXCEPT ![t] = c] /\ pools' = pools
      BY <2>10, <2>0 DEF Release, Goto, TypeOK
    <3>3. call[t] \in Calls /\ CallOK(call[t]) /\ call[t].at = "release"
      BY <2>10, CallTyped DEF Release, Goto, At
    <3>4. /\ c \in Calls
          /\ c.at = "mark" /\ c.chunk = call[t].chunk
          /\ c.pool = call[t].pool /\ c.size = call[t].size
          /\ c.old = call[t].old /\ c.new = call[t].new
      BY <3>3, <2>0 DEF Calls, Idle, Handles, TypeOK
    <3> HIDE DEF c
    <3>5. CallOK(c)
      BY <2>0, <3>3, <3>4 DEF CallOK
    <3> QED
      BY <2>0, <3>2, <3>4, <3>5 DEF TypeOK, CallOK
  <2>11. ASSUME NEW t \in Threads, Mark(t)
         PROVE  call' \in [Threads -> Calls] /\ \A u \in Threads : CallOK(call[u])'
    <3> DEFINE c == [call[t] EXCEPT !.at = "subtract"]
    <3>2. call' = [call EXCEPT ![t] = c] /\ pools' = pools
      BY <2>11, <2>0 DEF Mark, Goto, TypeOK
    <3>3. call[t] \in Calls /\ CallOK(call[t]) /\ call[t].at = "mark"
      BY <2>11, CallTyped DEF Mark, Goto, At
    <3>4. /\ c \in Calls
          /\ c.at = "subtract" /\ c.chunk = call[t].chunk
          /\ c.pool = call[t].pool /\ c.size = call[t].size
          /\ c.old = call[t].old /\ c.new = call[t].new
      BY <3>3, <2>0 DEF Calls, Idle, Handles, TypeOK
    <3> HIDE DEF c
    <3>5. CallOK(c)
      BY <2>0, <3>3, <3>4 DEF CallOK
    <3> QED
      BY <2>0, <3>2, <3>4, <3>5 DEF TypeOK, CallOK
  <2>12. ASSUME NEW t \in Threads, Subtract(t)
         PROVE  call' \in [Threads -> Calls] /\ \A u \in Threads : CallOK(call[u])'
    <3>1. call' = [call EXCEPT ![t] = Idle] /\ pools' = pools /\ CallOK(Idle)
      BY <2>12, IdleIsCall DEF Subtract, CallOK
    <3> QED
      BY <2>0, <3>1 DEF TypeOK, CallOK
  <2>13. ASSUME NEW p \in Pools, PoolAlloc(p)
         PROVE  call' \in [Threads -> Calls] /\ \A u \in Threads : CallOK(call[u])'
    BY <2>13, <2>0 DEF PoolAlloc, TypeOK, CallOK
  <2>14. ASSUME NEW p \in Pools, PoolFree(p)
         PROVE  call' \in [Threads -> Calls] /\ \A u \in Threads : CallOK(call[u])'
    <3>1. call' = call /\ pools' = pools \ Family(p)
          /\ \A t \in Threads : call[t].pool \notin Family(p)
      BY <2>14 DEF PoolFree
    <3> QED
      BY <2>0, <3>1 DEF TypeOK, CallOK
  <2> QED
    BY <2>1, <2>2, <2>3, <2>4, <2>5, <2>6, <2>7, <2>8, <2>9, <2>10, <2>11, <2>12, <2>13,
       <2>14
       DEF Next

LEMMA RangeIn == ASSUME NEW s \in Seq(Chunks) PROVE Range(s) \subseteq Chunks
BY LenProperties, ElementOfSeq DEF Range

LEMMA ConsType ==
  ASSUME NEW s \in Seq(Chunks), NEW c \in Chunks PROVE <<c>> \o s \in Seq(Chunks)
<1>1. <<c>> \in Seq(Chunks)
  OBVIOUS
<1> QED
  BY <1>1, ConcatProperties

LEMMA TypedStep == ASSUME Typed, [Next]_vars PROVE Typed'
  <2>0. TypeOK /\ Locals
    BY DEF Typed
  <2>00. call' \in [Threads -> Calls] /\ \A u \in Threads : CallOK(call[u])'
    BY CallStep
  <2> SUFFICES TypeOK' /\ \A h \in held' : h.pool \in pools'
    BY <2>00 DEF Typed, Locals
  <2>1. CASE UNCHANGED vars
    BY <2>0, <2>1, <2>00 DEF vars, stats, TypeOK, Locals
  <2>2. ASSUME NEW t \in Threads, TakeFree(t) PROVE TypeOK' /\ \A h \in held' : h.pool \in pools'
    <3>1. Bucket(t) \in PB /\ call[t].size \in Nat
      BY <2>2, CallTyped DEF TakeFree, At, Calls

    <3>2. /\ Head(free[Bucket(t)]) \in Chunks
          /\ Tail(free[Bucket(t)]) \in Seq(Chunks)
      BY <2>2, <2>0, <3>1, ListHead, HeadTailProperties DEF TakeFree, TypeOK
    <3>3. /\ used' \in [PB -> SUBSET Chunks] /\ free' \in [PB -> Seq(Chunks)]
          /\ used_size' \in [PB -> Int] /\ used_count' \in [PB -> Int]
      <4>1. used' \in [PB -> SUBSET Chunks]
        BY <2>2, <2>0, <3>1, <3>2 DEF TakeFree, Take, TypeOK
      <4>2. free' \in [PB -> Seq(Chunks)]
        BY <2>2, <2>0, <3>1, <3>2 DEF TakeFree, TypeOK
      <4>3. used_size' \in [PB -> Int] /\ used_count' \in [PB -> Int]
        BY <2>2, <2>0, <3>1 DEF TakeFree, Take, TypeOK
      <4> QED
        BY <4>1, <4>2, <4>3
    <3>4. UNCHANGED <<pools, total_size, total_count, size, element_count, chunk_size, magic,
                      heap, held>>
      BY <2>2 DEF TakeFree
    <3> QED
      BY <2>0, <2>00, <3>3, <3>4 DEF TypeOK, Locals
  <2>3. ASSUME NEW t \in Threads, TakeNew(t) PROVE TypeOK' /\ \A h \in held' : h.pool \in pools'
    <3>1. Bucket(t) \in PB /\ call[t].size \in Nat
      BY <2>3, CallTyped DEF TakeNew, At, Calls

    <3>2. Min(heap) \in Chunks
      BY <2>3, <2>0, MinIsIn DEF TakeNew, TypeOK
    <3>3. /\ used' \in [PB -> SUBSET Chunks] /\ heap' \in SUBSET Chunks
          /\ used_size' \in [PB -> Int] /\ used_count' \in [PB -> Int]
      BY <2>3, <2>0, <3>1, <3>2 DEF TakeNew, Take, TypeOK
    <3>4. total_size' \in [PB -> Int] /\ total_count' \in [PB -> Int]
      BY <2>3, <2>0, <3>1 DEF TakeNew, TypeOK
    <3>5. UNCHANGED <<pools, free, size, element_count, chunk_size, magic, held>>
      BY <2>3 DEF TakeNew
    <3> QED
      BY <2>0, <2>00, <3>3, <3>4, <3>5 DEF TypeOK, Locals
  <2>4. ASSUME NEW t \in Threads, Fill(t) PROVE TypeOK' /\ \A h \in held' : h.pool \in pools'
    <3>1. call[t].size \in Nat /\ call[t].chunk \in Chunks
      BY <2>4, CallTyped DEF Fill, At, Calls, CallOK
    <3>2. /\ chunk_size' = [chunk_size EXCEPT ![call[t].chunk] = call[t].size]
          /\ magic' = [magic EXCEPT ![call[t].chunk] = "used"]
          /\ UNCHANGED <<pools, used, free, stats, size, element_count, heap, held>>
      BY <2>4 DEF Fill
    <3>3. chunk_size' \in [Chunks -> Nat] /\ magic' \in [Chunks -> {"used", "freed"}]
      BY <2>0, <3>1, <3>2 DEF TypeOK
    <3> QED
      BY <2>0, <2>00, <3>2, <3>3 DEF TypeOK, Locals, stats
  <2>5. ASSUME NEW t \in Threads, Add(t) PROVE TypeOK' /\ \A h \in held' : h.pool \in pools'
    <3> DEFINE n == [pool |-> call[t].pool, chunk |-> call[t].chunk, size |-> call[t].size]
    <3>1. /\ call[t].pool \in pools /\ call[t].size \in Nat
          /\ call[t].size \in Sizes /\ call[t].chunk \in Chunks
      BY <2>5, CallTyped DEF Add, At, Calls, CallOK
    <3>2. n \in Handles /\ n.pool \in pools
      BY <2>0, <3>1 DEF Handles, TypeOK
    <3>3. held' = IF call[t].old = {} THEN held \cup {n} ELSE held
      BY <2>5 DEF Add
    <3>4. PICK p \in Pools, s \in Nat :
          /\ size' = [size EXCEPT ![p] = @ + s]
          /\ element_count' = [element_count EXCEPT ![p] = @ + 1]
      BY <2>5, <2>0, <3>1 DEF Add, TypeOK
    <3>7. UNCHANGED <<pools, used, free, stats, chunk_size, magic, heap>>
      BY <2>5 DEF Add
    <3> HIDE DEF n
    <3>5. held' \in SUBSET Handles /\ \A h \in held' : h.pool \in pools
      BY <2>0, <3>2, <3>3 DEF TypeOK, Locals
    <3>6. size' \in [Pools -> Int] /\ element_count' \in [Pools -> Int]
      BY <2>0, <3>4 DEF TypeOK
    <3> QED
      BY <2>0, <2>00, <3>5, <3>6, <3>7 DEF TypeOK, stats
  <2>6. ASSUME NEW t \in Threads, Release(t) PROVE TypeOK' /\ \A h \in held' : h.pool \in pools'
    <3> DEFINE c == call[t].chunk
    <3>1. Bucket(t) \in PB /\ c \in Chunks
      BY <2>6, CallTyped DEF Release, At, CallOK
    <3>2. chunk_size[c] \in Nat /\ <<c>> \o free[Bucket(t)] \in Seq(Chunks)
      BY <2>0, <3>1, ConsType DEF TypeOK
    <3>3. /\ used_count' = [used_count EXCEPT ![Bucket(t)] = @ - 1]
          /\ used_size' = [used_size EXCEPT ![Bucket(t)] = @ - chunk_size[c]]
          /\ used' = [used EXCEPT ![Bucket(t)] = @ \ {c}]
      BY <2>6 DEF Release
    <3>4. \/ free' = [free EXCEPT ![Bucket(t)] = <<c>> \o @]
          \/ free' = free
      BY <2>6 DEF Release
    <3>5. UNCHANGED <<pools, total_size, total_count, size, element_count, chunk_size, magic,
                      heap, held>>
      BY <2>6 DEF Release
    <3>6. PICK b \in PB : b = Bucket(t)
      BY <3>1
    <3> HIDE DEF c
    <3>7. /\ used_count' \in [PB -> Int] /\ used_size' \in [PB -> Int]
          /\ used' \in [PB -> SUBSET Chunks]
      BY <2>0, <3>2, <3>3, <3>6 DEF TypeOK
    <3>8. free' \in [PB -> Seq(Chunks)]
      BY <2>0, <3>2, <3>4, <3>6 DEF TypeOK
    <3> QED
      BY <2>0, <2>00, <3>5, <3>7, <3>8 DEF TypeOK, Locals
  <2>7. ASSUME NEW t \in Threads, Mark(t) PROVE TypeOK' /\ \A h \in held' : h.pool \in pools'
    <3>1. call[t].chunk \in Chunks
      BY <2>7, CallTyped DEF Mark, At, CallOK
    <3> QED
      BY <2>7, <2>0, <2>00, <3>1 DEF Mark, stats, TypeOK, Locals
  <2>8. ASSUME NEW t \in Threads, Subtract(t) PROVE TypeOK' /\ \A h \in held' : h.pool \in pools'
    <3>1. /\ call[t].pool \in pools /\ call[t].size \in Nat
          /\ call[t].new \subseteq Handles /\ \A h \in call[t].new : h.pool = call[t].pool
      BY <2>8, CallTyped DEF Subtract, At, Calls, CallOK
    <3> QED
      BY <2>8, <2>0, <2>00, <3>1 DEF Subtract, stats, TypeOK, Locals
  <2>9. ASSUME NEW p \in Pools, PoolAlloc(p) PROVE TypeOK' /\ \A h \in held' : h.pool \in pools'
    BY <2>9, <2>0, <2>00 DEF PoolAlloc, stats, TypeOK, Locals
  <2>10. ASSUME NEW p \in Pools, PoolFree(p) PROVE TypeOK' /\ \A h \in held' : h.pool \in pools'
    <3> DEFINE gone == Family(p)
               chunks == UNION {used[<<q, b>>] \cup Range(free[<<q, b>>]) :
                                    q \in gone, b \in Buckets}
               Cleared(f, zero) == [pb \in DOMAIN f |-> IF pb[1] \in gone THEN zero ELSE f[pb]]
    <3>1. /\ pools' = pools \ gone /\ gone \subseteq pools
          /\ used' = Cleared(used, {}) /\ free' = Cleared(free, <<>>)
          /\ used_size' = Cleared(used_size, 0) /\ used_count' = Cleared(used_count, 0)
          /\ total_size' = Cleared(total_size, 0) /\ total_count' = Cleared(total_count, 0)
          /\ size' = [q \in Pools |-> IF q \in gone THEN 0 ELSE size[q]]
          /\ element_count' = [q \in Pools |-> IF q \in gone THEN 0 ELSE element_count[q]]
          /\ heap' = heap \cup chunks
          /\ held' = {h \in held : h.pool \notin gone}
          /\ UNCHANGED <<chunk_size, magic, call>>
      BY <2>10 DEF PoolFree, Family
    <3>2. ASSUME NEW q \in gone, NEW b \in Buckets
          PROVE  used[<<q, b>>] \cup Range(free[<<q, b>>]) \subseteq Chunks
      <4>1. <<q, b>> \in PB
        BY <2>0, <3>1 DEF TypeOK, PB
      <4> QED
        BY <2>0, <4>1, RangeIn DEF TypeOK
    <3>3. chunks \subseteq Chunks
      <4> SUFFICES ASSUME NEW c \in chunks PROVE c \in Chunks
        OBVIOUS
      <4>1. \E q \in gone, b \in Buckets : c \in used[<<q, b>>] \cup Range(free[<<q, b>>])
        OBVIOUS
      <4> HIDE DEF gone, chunks
      <4> QED
        BY <3>2, <4>1
    <3> HIDE DEF gone, chunks
    <3>4. used' \in [PB -> SUBSET Chunks] /\ free' \in [PB -> Seq(Chunks)]
      BY <2>0, <3>1, EmptySeq DEF TypeOK
    <3>5. /\ used_size' \in [PB -> Int] /\ used_count' \in [PB -> Int]
          /\ total_size' \in [PB -> Int] /\ total_count' \in [PB -> Int]
      BY <2>0, <3>1 DEF TypeOK
    <3> QED
      BY <2>0, <2>00, <3>1, <3>3, <3>4, <3>5 DEF TypeOK, Locals
  <2>11. ASSUME NEW t \in Threads,
               \/ Alloc(t) \/ Realloc(t) \/ TakeNothing(t) \/ Free(t)
        PROVE  TypeOK' /\ \A h \in held' : h.pool \in pools'
    BY <2>11, <2>0, <2>00 DEF Alloc, Realloc, TakeNothing, Free, stats, TypeOK, Locals
  <2> QED
    BY <2>1, <2>2, <2>3, <2>4, <2>5, <2>6, <2>7, <2>8, <2>9, <2>10, <2>11
       DEF Next

LEMMA BucketNatural == ASSUME NEW s \in Nat PROVE BucketOf(s) \in Nat
BY DEF BucketOf, AlignSize, MaxStepped

-----------------------------------------------------------------------------
(* What a step of a call moves: the calls of other threads keep their hands *)
(* on their chunks.                                                         *)
Others(t) == \A u \in Threads \ {t} :
    call'[u] = call[u] /\ InWork(u)' = InWork(u) /\ Kept(u)' = Kept(u)

LEMMA OthersStay ==
  ASSUME Typed, NEW t \in Threads, \A u \in Threads \ {t} : call'[u] = call[u] PROVE Others(t)
BY DEF Others, InWork, Kept, At

LEMMA MoveAlloc ==
  ASSUME Typed, NEW t \in Threads, Alloc(t)
  PROVE  /\ Others(t) /\ call[t].at = "idle" /\ call'[t].at = "take"
         /\ InWork(t) = {} /\ Kept(t) = {} /\ InWork(t)' = {} /\ Kept(t)' = {}
         /\ call'[t].old = {} /\ call'[t].new = {}
         /\ UNCHANGED <<pools, used, free, stats, size, element_count, chunk_size, magic, heap,
                        held>>
<1>1. PICK p \in pools, s \in Sizes :
        /\ At(t, "idle")
        /\ call' = [call EXCEPT ![t] = [Idle EXCEPT !.at = "take", !.pool = p, !.size = s]]
  BY DEF Alloc
<1>2. call[t].at = "idle" /\ call[t].old = {} /\ call[t].new = {}
  BY <1>1, CallTyped DEF At, CallOK
<1>3. call'[t].at = "take" /\ call'[t].old = {} /\ call'[t].new = {}
  BY <1>1 DEF Typed, TypeOK, Idle
<1>4. \A u \in Threads \ {t} : call'[u] = call[u]
  BY <1>1 DEF Typed, TypeOK
<1>5. UNCHANGED <<pools, used, free, stats, size, element_count, chunk_size, magic, heap, held>>
  BY DEF Alloc
<1> QED
  BY <1>2, <1>3, <1>4, <1>5, OthersStay DEF InWork, Kept, At

LEMMA MoveRealloc ==
  ASSUME Typed, NEW t \in Threads, Realloc(t)
  PROVE  \E h \in held :
         /\ Others(t) /\ call[t].at = "idle" /\ call'[t].at = "take"
         /\ InWork(t) = {} /\ Kept(t) = {} /\ InWork(t)' = {} /\ Kept(t)' = {h.chunk}
         /\ call'[t].old = {h} /\ call'[t].new = {}
         /\ held' = held \ {h}
         /\ UNCHANGED <<pools, used, free, stats, size, element_count, chunk_size, magic, heap>>
<1>1. PICK h \in held, s \in Sizes :
        /\ At(t, "idle")
        /\ call' = [call EXCEPT ![t] = [Idle EXCEPT !.at = "take", !.pool = h.pool, !.size = s,
                                                    !.old = {h}]]
        /\ held' = held \ {h}
  BY DEF Realloc
<1>2. call[t].at = "idle" /\ call[t].old = {} /\ call[t].new = {}
  BY <1>1, CallTyped DEF At, CallOK
<1>3. call'[t].at = "take" /\ call'[t].old = {h} /\ call'[t].new = {}
  BY <1>1 DEF Typed, TypeOK, Idle
<1>4. \A u \in Threads \ {t} : call'[u] = call[u]
  BY <1>1 DEF Typed, TypeOK
<1>5. UNCHANGED <<pools, used, free, stats, size, element_count, chunk_size, magic, heap>>
  BY DEF Realloc
<1>6. InWork(t) = {} /\ InWork(t)' = {}
  BY <1>2, <1>3 DEF InWork, At
<1>7. Kept(t) = {} /\ Kept(t)' = {h.chunk}
  BY <1>2, <1>3 DEF Kept
<1> QED
  BY <1>1, <1>2, <1>3, <1>4, <1>5, <1>6, <1>7, OthersStay

\* What a step leaves of the call of t.
Same(t) == /\ call'[t].pool = call[t].pool /\ call'[t].size = call[t].size
           /\ call'[t].old = call[t].old /\ call'[t].new = call[t].new

LEMMA MoveTake ==
  ASSUME Typed, NEW t \in Threads, NEW c, At(t, "take"), Take(t, c)
  PROVE  /\ Others(t) /\ Bucket(t) \in PB /\ call[t].at = "take" /\ call'[t].at = "fill"
         /\ InWork(t) = {} /\ InWork(t)' = {c} /\ Kept(t)' = Kept(t)
         /\ Same(t) /\ call'[t].chunk = c /\ Bucket(t)' = Bucket(t)
<1>1. call' = [call EXCEPT ![t].at = "fill", ![t].chunk = c]
  BY DEF Take
<1>2. call[t].at = "take" /\ call[t] \in Calls
  BY CallTyped DEF At
<1>3. call'[t].at = "fill" /\ call'[t].chunk = c /\ Same(t)
  BY <1>1, <1>2 DEF Typed, TypeOK, Calls, Same
<1>4. \A u \in Threads \ {t} : call'[u] = call[u]
  BY <1>1 DEF Typed, TypeOK
<1>5. Others(t) /\ Bucket(t) \in PB
  BY <1>2, <1>4, OthersStay, CallTyped DEF At
<1>6. Kept(t)' = Kept(t) /\ Bucket(t)' = Bucket(t)
  BY <1>3 DEF Kept, Bucket, Same
<1> QED
  BY <1>2, <1>3, <1>5, <1>6 DEF InWork, At

LEMMA MoveTakeFree ==
  ASSUME Typed, Apart, NEW t \in Threads, TakeFree(t)
  PROVE  \E c \in Chunks, b \in PB :
         /\ b = Bucket(t) /\ c = Head(free[b]) /\ c \in Range(free[b])
         /\ At(t, "take") /\ Take(t, c)
         /\ free' = [free EXCEPT ![b] = Tail(@)]
         /\ Range(Tail(free[b])) = Range(free[b]) \ {c} /\ IsInjective(Tail(free[b]))
         /\ Len(Tail(free[b])) = Len(free[b]) - 1
         /\ UNCHANGED <<pools, total_size, total_count, size, element_count, chunk_size, magic,
                        heap, held>>
<1>1. /\ At(t, "take") /\ free[Bucket(t)] # <<>> /\ Take(t, Head(free[Bucket(t)]))
      /\ free' = [free EXCEPT ![Bucket(t)] = Tail(@)]
      /\ UNCHANGED <<pools, total_size, total_count, size, element_count, chunk_size, magic,
                     heap, held>>
  BY DEF TakeFree
<1>2. PICK b \in PB : b = Bucket(t)
  BY <1>1, CallTyped DEF At
<1>3. free[b] \in Seq(Chunks) /\ free[b] # <<>> /\ IsInjective(free[b])
  BY <1>1, <1>2 DEF Typed, TypeOK, Apart
<1> QED
  BY <1>1, <1>2, <1>3, ListTail

LEMMA MoveTakeNew ==
  ASSUME Typed, NEW t \in Threads, TakeNew(t)
  PROVE  \E c \in heap, b \in PB :
         /\ b = Bucket(t) /\ At(t, "take") /\ Take(t, c)
         /\ heap' = heap \ {c}
         /\ total_count' = [total_count EXCEPT ![b] = @ + 1]
         /\ UNCHANGED <<pools, free, size, element_count, chunk_size, magic, held>>
<1>1. /\ At(t, "take") /\ heap # {} /\ Take(t, Min(heap)) /\ heap' = heap \ {Min(heap)}
      /\ total_count' = [total_count EXCEPT ![Bucket(t)] = @ + 1]
      /\ UNCHANGED <<pools, free, size, element_count, chunk_size, magic, held>>
  BY DEF TakeNew
<1>2. Min(heap) \in heap /\ Bucket(t) \in PB
  BY <1>1, MinIsIn, CallTyped DEF Typed, TypeOK, At
<1> QED
  BY <1>1, <1>2

(* The old chunk of a realloc, if there is one, comes out of its caller's   *)
(* keeping to be freed.                                                     *)
LEMMA MoveFreeOld ==
  ASSUME Typed, NEW t \in Threads, call[t].at \in {"take", "add"},
         NEW new \in SUBSET Handles, FreeOld(t, new)
  PROVE  /\ Others(t) /\ InWork(t)' = Kept(t) /\ call'[t].old = {} /\ call[t].new = {}
         /\ call'[t].at \in {"idle", "release"}
         /\ Kept(t)' = IF call[t].old = {} THEN {} ELSE {h.chunk : h \in new}
         /\ call'[t].new = IF call[t].old = {} THEN {} ELSE new
         /\ call[t].old = {} => call'[t].at = "idle" /\ Kept(t) = {}
         /\ call[t].old # {} =>
              /\ call'[t].at = "release"
              /\ \E h \in call[t].old : /\ call'[t].pool = h.pool /\ call'[t].size = h.size
                                        /\ call'[t].chunk = h.chunk
<1>1. /\ call[t] \in Calls /\ call[t].new = {}
      /\ \A h \in call[t].old : \A g \in call[t].old : h = g
  BY CallTyped DEF CallOK
<1>2. CASE call[t].old = {}
  <2>1. call' = [call EXCEPT ![t] = Idle]
    BY <1>2 DEF FreeOld
  <2>2. call'[t] = Idle /\ \A u \in Threads \ {t} : call'[u] = call[u]
    BY <2>1 DEF Typed, TypeOK
  <2>3. Others(t) /\ call'[t].at = "idle" /\ call'[t].old = {} /\ call'[t].new = {}
    BY <2>2, OthersStay, IdleIsCall
  <2>4. Kept(t) = {} /\ Kept(t)' = {}
    BY <1>1, <1>2, <2>3 DEF Kept
  <2>5. InWork(t)' = {}
    BY <2>3 DEF InWork, At
  <2> QED
    BY <1>1, <1>2, <2>3, <2>4, <2>5
<1>3. CASE call[t].old # {}
  <2>1. PICK h \in call[t].old :
          call' = [call EXCEPT ![t] = [Idle EXCEPT !.at = "release", !.pool = h.pool,
                                         !.size = h.size, !.chunk = h.chunk, !.new = new]]
    BY <1>3 DEF FreeOld
  <2>2. /\ call'[t].at = "release" /\ call'[t].old = {} /\ call'[t].new = new
        /\ call'[t].pool = h.pool /\ call'[t].size = h.size /\ call'[t].chunk = h.chunk
        /\ \A u \in Threads \ {t} : call'[u] = call[u]
    BY <2>1 DEF Typed, TypeOK, Idle
  <2>3. call[t].old = {h}
    BY <1>1, <2>1
  <2>4. Kept(t) = {h.chunk} /\ Kept(t)' = {g.chunk : g \in new}
    BY <1>1, <2>2, <2>3 DEF Kept
  <2>5. InWork(t)' = {h.chunk}
    BY <2>2 DEF InWork, At
  <2> QED
    BY <1>1, <1>3, <2>2, <2>4, <2>5, OthersStay
<1> QED
  BY <1>2, <1>3

LEMMA MoveFill ==
  ASSUME Typed, NEW t \in Threads, Fill(t)
  PROVE  \E c \in Chunks, s \in Nat :
         /\ Others(t) /\ Same(t) /\ Bucket(t)' = Bucket(t)
         /\ call[t].at = "fill" /\ call'[t].at = "add"
         /\ c = call[t].chunk /\ c = call'[t].chunk /\ s = call[t].size
         /\ InWork(t) = {c} /\ InWork(t)' = {c} /\ Kept(t)' = Kept(t)
         /\ chunk_size' = [chunk_size EXCEPT ![c] = s]
         /\ magic' = [magic EXCEPT ![c] = "used"]
         /\ UNCHANGED <<pools, used, free, stats, size, element_count, heap, held>>
<1>1. /\ At(t, "fill") /\ call' = [call EXCEPT ![t].at = "add"]
      /\ chunk_size' = [chunk_size EXCEPT ![call[t].chunk] = call[t].size]
      /\ magic' = [magic EXCEPT ![call[t].chunk] = "used"]
      /\ UNCHANGED <<pools, used, free, stats, size, element_count, heap, held>>
  BY DEF Fill, Goto
<1>2. call[t].at = "fill" /\ call[t] \in Calls /\ call[t].chunk \in Chunks /\ call[t].size \in Nat
  BY <1>1, CallTyped DEF At, CallOK, Calls
<1>3. call'[t].at = "add" /\ call'[t].chunk = call[t].chunk /\ Same(t)
  BY <1>1, <1>2 DEF Typed, TypeOK, Calls, Same
<1>4. \A u \in Threads \ {t} : call'[u] = call[u]
  BY <1>1 DEF Typed, TypeOK
<1>5. Kept(t)' = Kept(t) /\ Bucket(t)' = Bucket(t)
  BY <1>3 DEF Kept, Bucket, Same
<1>6. InWork(t) = {call[t].chunk} /\ InWork(t)' = {call[t].chunk}
  BY <1>2, <1>3 DEF InWork, At
<1> QED
  BY <1>1, <1>2, <1>3, <1>4, <1>5, <1>6, OthersStay

LEMMA MoveAdd ==
  ASSUME Typed, NEW t \in Threads, Add(t)
  PROVE  \E n \in Handles :
         /\ n.pool = call[t].pool /\ n.chunk = call[t].chunk /\ n.size = call[t].size
         /\ call[t].at = "add" /\ InWork(t) = {n.chunk} /\ FreeOld(t, {n})
         /\ size' = [size EXCEPT ![n.pool] = @ + n.size]
         /\ element_count' = [element_count EXCEPT ![n.pool] = @ + 1]
         /\ held' = IF call[t].old = {} THEN held \cup {n} ELSE held
         /\ UNCHANGED <<pools, used, free, stats, chunk_size, magic, heap>>
<1> DEFINE n == [pool |-> call[t].pool, chunk |-> call[t].chunk, size |-> call[t].size]
<1>1. /\ At(t, "add") /\ FreeOld(t, {n})
      /\ size' = [size EXCEPT ![call[t].pool] = @ + call[t].size]
      /\ element_count' = [element_count EXCEPT ![call[t].pool] = @ + 1]
      /\ held' = IF call[t].old = {} THEN held \cup {n} ELSE held
      /\ UNCHANGED <<pools, used, free, stats, chunk_size, magic, heap>>
  BY DEF Add
<1>2. /\ call[t].at = "add" /\ call[t].chunk \in Chunks
      /\ call[t].size \in Sizes /\ call[t].pool \in Pools
  BY <1>1, CallTyped DEF At, CallOK, Typed, TypeOK
<1>3. /\ n \in Handles
      /\ n.pool = call[t].pool /\ n.chunk = call[t].chunk /\ n.size = call[t].size
  BY <1>2 DEF Handles
<1>4. InWork(t) = {call[t].chunk}
  BY <1>2 DEF InWork, At
<1> HIDE DEF n
<1> QED
  BY <1>1, <1>2, <1>3, <1>4

LEMMA MoveFree ==
  ASSUME Typed, NEW t \in Threads, Free(t)
  PROVE  \E h \in held :
         /\ Others(t) /\ call[t].at = "idle" /\ call'[t].at = "release"
         /\ InWork(t) = {} /\ Kept(t) = {} /\ InWork(t)' = {h.chunk} /\ Kept(t)' = {}
         /\ call'[t].pool = h.pool /\ call'[t].size = h.size /\ call'[t].chunk = h.chunk
         /\ call'[t].old = {} /\ call'[t].new = {}
         /\ held' = held \ {h}
         /\ UNCHANGED <<pools, used, free, stats, size, element_count, chunk_size, magic, heap>>
<1>1. PICK h \in held :
        /\ At(t, "idle")
        /\ call' = [call EXCEPT ![t] = [Idle EXCEPT !.at = "release", !.pool = h.pool,
                                                    !.size = h.size, !.chunk = h.chunk]]
        /\ held' = held \ {h}
  BY DEF Free
<1>2. call[t].at = "idle" /\ call[t].old = {} /\ call[t].new = {}
  BY <1>1, CallTyped DEF At, CallOK
<1>3. /\ call'[t].at = "release" /\ call'[t].old = {} /\ call'[t].new = {}
      /\ call'[t].pool = h.pool /\ call'[t].size = h.size /\ call'[t].chunk = h.chunk
  BY <1>1 DEF Typed, TypeOK, Idle
<1>4. \A u \in Threads \ {t} : call'[u] = call[u]
  BY <1>1 DEF Typed, TypeOK
<1>5. UNCHANGED <<pools, used, free, stats, size, element_count, chunk_size, magic, heap>>
  BY DEF Free
<1>6. InWork(t) = {} /\ InWork(t)' = {h.chunk}
  BY <1>2, <1>3 DEF InWork, At
<1>7. Kept(t) = {} /\ Kept(t)' = {}
  BY <1>2, <1>3 DEF Kept
<1> QED
  BY <1>1, <1>2, <1>3, <1>4, <1>5, <1>6, <1>7, OthersStay

\* What the release of a call does to its chunk c and its bucket b.
Released(t, c, b) ==
    /\ b = Bucket(t) /\ b = Bucket(t)' /\ b[2] = BucketOf(call[t].size)
    /\ Others(t) /\ Same(t) /\ call[t].at = "release" /\ call'[t].at = "mark"
    /\ c = call[t].chunk /\ c = call'[t].chunk
    /\ InWork(t) = {c} /\ Kept(t)' = Kept(t)
    /\ InWork(t)' = IF b[2] = 0 THEN {c} ELSE {}
    /\ used_count' = [used_count EXCEPT ![b] = @ - 1]
    /\ used_size' = [used_size EXCEPT ![b] = @ - chunk_size[c]]
    /\ used' = [used EXCEPT ![b] = @ \ {c}]
    /\ IF b[2] > 0 THEN /\ free' = [free EXCEPT ![b] = <<c>> \o @]
                        /\ Len(<<c>> \o free[b]) = Len(free[b]) + 1
                        /\ IsInjective(<<c>> \o free[b])
                        /\ Range(<<c>> \o free[b]) = Range(free[b]) \cup {c}
                   ELSE free' = free /\ b[2] = 0
    /\ UNCHANGED <<pools, total_size, total_count, size, element_count, chunk_size, magic,
                   heap, held>>

LEMMA MoveRelease ==
  ASSUME Typed, Apart, NEW t \in Threads, Release(t)
  PROVE  \E c \in Chunks, b \in PB : Released(t, c, b)
<1> DEFINE c == call[t].chunk
           k == BucketOf(call[t].size)
<1>1. /\ At(t, "release") /\ call' = [call EXCEPT ![t].at = "mark"]
      /\ used_count' = [used_count EXCEPT ![Bucket(t)] = @ - 1]
      /\ used_size' = [used_size EXCEPT ![Bucket(t)] = @ - chunk_size[c]]
      /\ used' = [used EXCEPT ![Bucket(t)] = @ \ {c}]
  BY DEF Release, Goto
<1>2. free' = IF k > 0 THEN [free EXCEPT ![Bucket(t)] = <<c>> \o @] ELSE free
  BY DEF Release
<1>3. UNCHANGED <<pools, total_size, total_count, size, element_count, chunk_size, magic, heap,
                  held>>
  BY DEF Release
<1>4. call[t].at = "release" /\ call[t] \in Calls /\ c \in Chunks /\ k \in Nat
  BY <1>1, CallTyped, BucketNatural DEF At, CallOK, Calls
<1>5. call'[t].at = "mark" /\ call'[t].chunk = c /\ Same(t)
  BY <1>1, <1>4 DEF Typed, TypeOK, Calls, Same
<1>6. \A u \in Threads \ {t} : call'[u] = call[u]
  BY <1>1 DEF Typed, TypeOK
<1>7. Kept(t)' = Kept(t) /\ Bucket(t)' = Bucket(t) /\ Bucket(t)[2] = k
  BY <1>5 DEF Kept, Bucket, Same
<1>8. InWork(t) = {c} /\ InWork(t)' = IF k = 0 THEN {c} ELSE {}
  BY <1>4, <1>5 DEF InWork, At, Same
<1>9. PICK b \in PB : b = Bucket(t)
  BY <1>4, CallTyped DEF At
<1>10. free[b] \in Seq(Chunks) /\ IsInjective(free[b]) /\ c \notin Range(free[b])
  BY <1>8, <1>9 DEF Apart, InHand, Typed, TypeOK
<1>11. /\ Len(<<c>> \o free[b]) = Len(free[b]) + 1
       /\ IsInjective(<<c>> \o free[b])
       /\ Range(<<c>> \o free[b]) = Range(free[b]) \cup {c}
  BY <1>4, <1>10, ListCons
<1>12. Others(t)
  BY <1>6, OthersStay
<1> HIDE DEF c, k
<1>13. IF k > 0 THEN /\ free' = [free EXCEPT ![b] = <<c>> \o @]
                     /\ Len(<<c>> \o free[b]) = Len(free[b]) + 1
                     /\ IsInjective(<<c>> \o free[b])
                     /\ Range(<<c>> \o free[b]) = Range(free[b]) \cup {c}
                ELSE free' = free /\ k = 0
  BY <1>2, <1>4, <1>9, <1>11
<1>14. PICK d \in Chunks : d = c
  BY <1>4
<1>15. Released(t, d, b)
  BY <1>1, <1>3, <1>4, <1>5, <1>7, <1>8, <1>9, <1>12, <1>13, <1>14 DEF Released, c, k
<1> QED
  BY <1>9, <1>14, <1>15

LEMMA MoveMark ==
  ASSUME Typed, NEW t \in Threads, Mark(t)
  PROVE  \E c \in Chunks :
         /\ Others(t) /\ Same(t) /\ call[t].at = "mark" /\ call'[t].at = "subtract"
         /\ c = call[t].chunk /\ c = call'[t].chunk
         /\ InWork(t) = (IF BucketOf(call[t].size) = 0 THEN {c} ELSE {})
         /\ InWork(t)' = {} /\ Kept(t)' = Kept(t)
         /\ IF BucketOf(call[t].size) = 0
            THEN heap' = heap \cup {c} /\ UNCHANGED magic
            ELSE magic' = [magic EXCEPT ![c] = "freed"] /\ UNCHANGED heap
         /\ UNCHANGED <<pools, used, free, stats, size, element_count, chunk_size, held>>
<1>1. /\ At(t, "mark") /\ call' = [call EXCEPT ![t].at = "subtract"]
      /\ IF BucketOf(call[t].size) > 0
         THEN magic' = [magic EXCEPT ![call[t].chunk] = "freed"] /\ UNCHANGED heap
         ELSE heap' = heap \cup {call[t].chunk} /\ UNCHANGED magic
      /\ UNCHANGED <<pools, used, free, stats, size, element_count, chunk_size, held>>
  BY DEF Mark, Goto
<1>2. /\ call[t].at = "mark" /\ call[t] \in Calls /\ call[t].chunk \in Chunks
      /\ BucketOf(call[t].size) \in Nat
  BY <1>1, CallTyped, BucketNatural DEF At, CallOK, Calls
<1>3. call'[t].at = "subtract" /\ call'[t].chunk = call[t].chunk /\ Same(t)
  BY <1>1, <1>2 DEF Typed, TypeOK, Calls, Same
<1>4. \A u \in Threads \ {t} : call'[u] = call[u]
  BY <1>1 DEF Typed, TypeOK
<1>5. Kept(t)' = Kept(t)
  BY <1>3 DEF Kept, Same
<1>6. /\ InWork(t) = (IF BucketOf(call[t].size) = 0 THEN {call[t].chunk} ELSE {})
      /\ InWork(t)' = {}
  BY <1>2, <1>3 DEF InWork, At
<1> DEFINE k == BucketOf(call[t].size)
<1>7. k \in Nat
  BY <1>2
<1>8. /\ k = 0 => heap' = heap \cup {call[t].chunk} /\ UNCHANGED magic
      /\ k # 0 => magic' = [magic EXCEPT ![call[t].chunk] = "freed"] /\ UNCHANGED heap
  <2>1. k > 0 <=> k # 0
    BY <1>7
  <2> QED
    BY <1>1, <2>1
<1>9. Others(t)
  BY <1>4, OthersStay
<1> HIDE DEF k
<1>10. IF k = 0
       THEN heap' = heap \cup {call[t].chunk} /\ UNCHANGED magic
       ELSE magic' = [magic EXCEPT ![call[t].chunk] = "freed"] /\ UNCHANGED heap
  BY <1>8
<1> QED
  BY <1>1, <1>2, <1>3, <1>5, <1>6, <1>9, <1>10 DEF k

LEMMA MoveSubtract ==
  ASSUME Typed, NEW t \in Threads, Subtract(t)
  PROVE  /\ Others(t) /\ call[t].at = "subtract" /\ call'[t] = Idle /\ call'[t].at = "idle"
         /\ InWork(t) = {} /\ Kept(t) = {h.chunk : h \in call[t].new}
         /\ InWork(t)' = {} /\ Kept(t)' = {}
         /\ call'[t].old = {} /\ call'[t].new = {}
         /\ size' = [size EXCEPT ![call[t].pool] = @ - call[t].size]
         /\ element_count' = [element_count EXCEPT ![call[t].pool] = @ - 1]
         /\ held' = held \cup call[t].new
         /\ UNCHANGED <<pools, used, free, stats, chunk_size, magic, heap>>
<1>1. /\ At(t, "subtract") /\ call' = [call EXCEPT ![t] = Idle]
      /\ size' = [size EXCEPT ![call[t].pool] = @ - call[t].size]
      /\ element_count' = [element_count EXCEPT ![call[t].pool] = @ - 1]
      /\ held' = held \cup call[t].new
      /\ UNCHANGED <<pools, used, free, stats, chunk_size, magic, heap>>
  BY DEF Subtract
<1>2. call[t].at = "subtract" /\ call[t].old = {}
  BY <1>1, CallTyped DEF At, CallOK
<1>3. call'[t] = Idle /\ \A u \in Threads \ {t} : call'[u] = call[u]
  BY <1>1 DEF Typed, TypeOK
<1>4. call'[t].at = "idle" /\ call'[t].old = {} /\ call'[t].new = {}
  BY <1>3, IdleIsCall
<1>5. InWork(t) = {} /\ InWork(t)' = {}
  BY <1>2, <1>4 DEF InWork, At
<1>6. Kept(t) = {h.chunk : h \in call[t].new} /\ Kept(t)' = {}
  BY <1>2, <1>4 DEF Kept
<1> QED
  BY <1>1, <1>2, <1>3, <1>4, <1>5, <1>6, OthersStay

-----------------------------------------------------------------------------
(* The places a chunk can be in: the heap, a caller's hands, a free list, a *)
(* call that works on it, and a realloc that keeps it.                      *)
TheHeap == <<"heap", NULL>>
With(h) == <<"held", h>>
List(pb) == <<"list", pb>>
WorkOf(t) == <<"work", t>>
KeptOf(t) == <<"kept", t>>

Places == {TheHeap} \cup {With(h) : h \in Handles} \cup {List(pb) : pb \in PB}
          \cup {WorkOf(t) : t \in Threads} \cup {KeptOf(t) : t \in Threads}

In(x) == CASE x[1] = "heap" -> heap
           [] x[1] = "held" -> IF x[2] \in held THEN {x[2].chunk} ELSE {}
           [] x[1] = "list" -> Range(free[x[2]])
           [] x[1] = "work" -> InWork(x[2])
           [] x[1] = "kept" -> Kept(x[2])

LEMMA WhatIsIn ==
  /\ In(TheHeap) = heap
  /\ \A h : In(With(h)) = IF h \in held THEN {h.chunk} ELSE {}
  /\ \A pb : In(List(pb)) = Range(free[pb])
  /\ \A t : In(WorkOf(t)) = InWork(t) /\ In(KeptOf(t)) = Kept(t)
BY DEF In, TheHeap, With, List, WorkOf, KeptOf

LEMMA WhatIsInNext ==
  /\ In(TheHeap)' = heap'
  /\ \A h : In(With(h))' = IF h \in held' THEN {h.chunk} ELSE {}
  /\ \A pb : In(List(pb))' = Range(free'[pb])
  /\ \A t : In(WorkOf(t))' = InWork(t)' /\ In(KeptOf(t))' = Kept(t)'
BY DEF In, TheHeap, With, List, WorkOf, KeptOf

LEMMA PlacesDiffer ==
  /\ \A h : With(h) # TheHeap
  /\ \A pb : List(pb) # TheHeap /\ \A h : List(pb) # With(h)
  /\ \A t : /\ WorkOf(t) # TheHeap /\ KeptOf(t) # TheHeap
            /\ \A u : WorkOf(t) # KeptOf(u)
            /\ \A h : WorkOf(t) # With(h) /\ KeptOf(t) # With(h)
            /\ \A pb : WorkOf(t) # List(pb) /\ KeptOf(t) # List(pb)
  /\ \A h, g : With(h) = With(g) => h = g
  /\ \A pb, qb : List(pb) = List(qb) => pb = qb
  /\ \A t, u : (WorkOf(t) = WorkOf(u) => t = u) /\ (KeptOf(t) = KeptOf(u) => t = u)
BY DEF TheHeap, With, List, WorkOf, KeptOf

LEMMA PlacesAre ==
  /\ TheHeap \in Places
  /\ \A h \in Handles : With(h) \in Places
  /\ \A pb \in PB : List(pb) \in Places
  /\ \A t \in Threads : WorkOf(t) \in Places /\ KeptOf(t) \in Places
  /\ \A x \in Places : \/ x = TheHeap \/ \E h \in Handles : x = With(h)
                       \/ \E pb \in PB : x = List(pb)
                       \/ \E t \in Threads : x = WorkOf(t) \/ x = KeptOf(t)
BY DEF Places

Disjoint == \A x \in Places : \A y \in Places \ {x} : In(x) \cap In(y) = {}
Covered == \A c \in Chunks : \E x \in Places : c \in In(x)
OnceEach == \A pb \in PB : IsInjective(free[pb])
Located == Disjoint /\ Covered /\ OnceEach

LEMMA LocatedIsApart == ASSUME Typed, Located PROVE Apart
<1>1. ASSUME NEW x \in Places, NEW y \in Places, x # y PROVE In(x) \cap In(y) = {}
  BY <1>1 DEF Located, Disjoint
<1>2. DOMAIN free = PB /\ held \subseteq Handles
  BY DEF Typed, TypeOK
<1>3. \A h \in held : In(With(h)) = {h.chunk} /\ With(h) \in Places /\ With(h) # TheHeap
  BY <1>2, WhatIsIn, PlacesAre, PlacesDiffer
<1>4. \A h \in held : \A g \in held : h.chunk = g.chunk => h = g
  <2> SUFFICES ASSUME NEW h \in held, NEW g \in held, h # g PROVE h.chunk # g.chunk
    OBVIOUS
  <2>1. In(With(h)) \cap In(With(g)) = {}
    BY <1>1, <1>3, PlacesDiffer
  <2> QED
    BY <1>3, <2>1
<1>5. \A x \in Places : (\A h \in Handles : x # With(h)) => In(x) \cap HeldChunks = {}
  <2> SUFFICES ASSUME NEW x \in Places, \A h \in Handles : x # With(h), NEW h \in held
               PROVE  h.chunk \notin In(x)
    BY DEF HeldChunks
  <2>1. In(x) \cap In(With(h)) = {}
    BY <1>1, <1>2, <1>3
  <2> QED
    BY <1>3, <2>1
<1>6. heap \cap HeldChunks = {}
  BY <1>5, PlacesAre, PlacesDiffer, WhatIsIn
<1>7. ASSUME NEW pb \in PB
      PROVE  /\ IsInjective(free[pb])
             /\ Range(free[pb]) \cap (heap \cup HeldChunks) = {}
             /\ \A qb \in PB \ {pb} : Range(free[pb]) \cap Range(free[qb]) = {}
  <2>1. IsInjective(free[pb])
    BY DEF Located, OnceEach
  <2>2. Range(free[pb]) \cap heap = {}
    BY <1>1, PlacesAre, PlacesDiffer, WhatIsIn
  <2>3. Range(free[pb]) \cap HeldChunks = {}
    BY <1>5, PlacesAre, PlacesDiffer, WhatIsIn
  <2>4. ASSUME NEW qb \in PB \ {pb} PROVE Range(free[pb]) \cap Range(free[qb]) = {}
    <3>1. List(pb) # List(qb) /\ List(pb) \in Places /\ List(qb) \in Places
      BY PlacesAre, PlacesDiffer
    <3>2. In(List(pb)) \cap In(List(qb)) = {}
      BY <1>1, <3>1
    <3> QED
      BY <3>2, WhatIsIn
  <2> QED
    BY <2>1, <2>2, <2>3, <2>4
<1>8. ASSUME NEW t \in Threads
      PROVE  /\ InWork(t) \cap Kept(t) = {}
             /\ InHand(t) \cap (heap \cup HeldChunks) = {}
             /\ \A pb \in PB : InHand(t) \cap Range(free[pb]) = {}
             /\ \A u \in Threads \ {t} : InHand(t) \cap InHand(u) = {}
  <2>1. ASSUME NEW x \in Places, x \notin {WorkOf(t), KeptOf(t)} PROVE InHand(t) \cap In(x) = {}
    <3>1. In(WorkOf(t)) \cap In(x) = {} /\ In(KeptOf(t)) \cap In(x) = {}
      BY <1>1, <2>1, PlacesAre
    <3> QED
      BY <3>1, WhatIsIn DEF InHand
  <2>2. In(WorkOf(t)) \cap In(KeptOf(t)) = {}
    BY <1>1, PlacesAre, PlacesDiffer
  <2>3. InHand(t) \cap heap = {}
    BY <2>1, PlacesAre, PlacesDiffer, WhatIsIn
  <2>4. InHand(t) \cap HeldChunks = {}
    <3>1. In(WorkOf(t)) \cap HeldChunks = {} /\ In(KeptOf(t)) \cap HeldChunks = {}
      BY <1>5, PlacesAre, PlacesDiffer
    <3> QED
      BY <3>1, WhatIsIn DEF InHand
  <2>5. ASSUME NEW pb \in PB PROVE InHand(t) \cap Range(free[pb]) = {}
    BY <2>1, PlacesAre, PlacesDiffer, WhatIsIn
  <2>6. ASSUME NEW u \in Threads \ {t} PROVE InHand(t) \cap InHand(u) = {}
    <3>1. /\ WorkOf(u) \in Places /\ WorkOf(u) \notin {WorkOf(t), KeptOf(t)}
          /\ KeptOf(u) \in Places /\ KeptOf(u) \notin {WorkOf(t), KeptOf(t)}
      BY PlacesAre, PlacesDiffer
    <3>2. InHand(t) \cap In(WorkOf(u)) = {} /\ InHand(t) \cap In(KeptOf(u)) = {}
      BY <2>1, <3>1
    <3> QED
      BY <3>2, WhatIsIn DEF InHand
  <2> QED
    BY <2>2, <2>3, <2>4, <2>5, <2>6, WhatIsIn
<1> QED
  BY <1>2, <1>4, <1>6, <1>7, <1>8 DEF Apart

(* A step that moves a chunk from a place to another, one that exchanges    *)
(* what two places have, and one that moves nothing.                        *)
Else(xs) == \A z \in Places \ xs : In(z)' = In(z)

LEMMA MoveKeeps ==
  ASSUME Disjoint, Covered, NEW x \in Places, NEW y \in Places, NEW c, x # y,
         c \in In(x), In(x)' = In(x) \ {c}, In(y)' = In(y) \cup {c}, Else({x, y})
  PROVE  Disjoint' /\ Covered'
<1>1. Covered'
  <2> SUFFICES ASSUME NEW d \in Chunks PROVE \E z \in Places : d \in In(z)'
    BY DEF Covered
  <2>1. PICK z \in Places : d \in In(z)
    BY DEF Covered
  <2>2. CASE d = c
    BY <2>2
  <2>3. CASE d # c
    BY <2>1, <2>3 DEF Else
  <2> QED
    BY <2>2, <2>3
<1>2. Disjoint'
  <2> SUFFICES ASSUME NEW z \in Places, NEW w \in Places, z # w, NEW d, d \in In(z)', d \in In(w)'
               PROVE  FALSE
    BY DEF Disjoint
  <2>1. \A v \in Places : (d \in In(v)' /\ d # c => d \in In(v))
                          /\ (d \in In(v)' /\ d = c => v = y)
    <3>1. ASSUME NEW v \in Places, d \in In(v)', d = c PROVE v = y
      <4>1. v # x
        BY <3>1
      <4>2. ASSUME v # y PROVE FALSE
        <5>1. c \in In(v)
          BY <3>1, <4>1, <4>2 DEF Else
        <5> QED
          BY <4>1, <5>1 DEF Disjoint
      <4> QED
        BY <4>2
    <3> QED
      BY <3>1 DEF Else
  <2>2. d # c
    BY <2>1
  <2>3. d \in In(z) /\ d \in In(w)
    BY <2>1, <2>2
  <2> QED
    BY <2>3 DEF Disjoint
<1> QED
  BY <1>1, <1>2

LEMMA SwapKeeps ==
  ASSUME Disjoint, Covered, NEW x \in Places, NEW y \in Places, x # y,
         In(x)' = In(y), In(y)' = In(x), Else({x, y})
  PROVE  Disjoint' /\ Covered'
<1>1. Covered'
  <2> SUFFICES ASSUME NEW d \in Chunks PROVE \E z \in Places : d \in In(z)'
    BY DEF Covered
  <2>1. PICK z \in Places : d \in In(z)
    BY DEF Covered
  <2> QED
    BY <2>1 DEF Else
<1>2. Disjoint'
  <2> SUFFICES ASSUME NEW z \in Places, NEW w \in Places, z # w, NEW d, d \in In(z)', d \in In(w)'
               PROVE  FALSE
    BY DEF Disjoint
  <2> DEFINE from(v) == IF v = x THEN y ELSE IF v = y THEN x ELSE v
  <2>1. \A v \in Places : from(v) \in Places /\ In(v)' = In(from(v))
    BY DEF Else
  <2>2. from(z) # from(w)
    OBVIOUS
  <2>3. d \in In(from(z)) /\ d \in In(from(w))
    BY <2>1
  <2> HIDE DEF from
  <2> QED
    BY <2>1, <2>2, <2>3 DEF Disjoint
<1> QED
  BY <1>1, <1>2

LEMMA StayKeeps == ASSUME Disjoint, Covered, Else({}) PROVE Disjoint' /\ Covered'
BY DEF Disjoint, Covered, Else

(* Which places a step leaves alone.                                        *)
LEMMA ElseIs ==
  ASSUME NEW xs,
         TheHeap \in xs \/ heap' = heap,
         \A h \in Handles : With(h) \in xs \/ (h \in held' <=> h \in held),
         \A pb \in PB : List(pb) \in xs \/ free'[pb] = free[pb],
         \A u \in Threads : /\ WorkOf(u) \in xs \/ InWork(u)' = InWork(u)
                            /\ KeptOf(u) \in xs \/ Kept(u)' = Kept(u)
  PROVE  Else(xs)
<1> SUFFICES ASSUME NEW z \in Places \ xs PROVE In(z)' = In(z)
  BY DEF Else
<1>1. CASE z = TheHeap
  BY <1>1, WhatIsIn, WhatIsInNext
<1>2. ASSUME NEW h \in Handles, z = With(h) PROVE In(z)' = In(z)
  BY <1>2, WhatIsIn, WhatIsInNext
<1>3. ASSUME NEW pb \in PB, z = List(pb) PROVE In(z)' = In(z)
  BY <1>3, WhatIsIn, WhatIsInNext
<1>4. ASSUME NEW u \in Threads, z = WorkOf(u) \/ z = KeptOf(u) PROVE In(z)' = In(z)
  BY <1>4, WhatIsIn, WhatIsInNext
<1> QED
  BY <1>1, <1>2, <1>3, <1>4, PlacesAre

-----------------------------------------------------------------------------
(* Every step of a call moves one chunk at most, or exchanges two.          *)
LEMMA LocatedCall ==
  ASSUME Typed, Typed', Located, NEW t \in Threads,
         \/ Alloc(t) \/ Realloc(t) \/ TakeFree(t) \/ TakeNew(t) \/ TakeNothing(t)
         \/ Fill(t) \/ Add(t)
         \/ Free(t) \/ Release(t) \/ Mark(t) \/ Subtract(t)
  PROVE  Located'
<1> DEFINE work == WorkOf(t)
           kept == KeptOf(t)
<1>0. Apart
  BY LocatedIsApart
<1>1. /\ Disjoint /\ Covered /\ OnceEach
      /\ TheHeap \in Places /\ work \in Places /\ kept \in Places
      /\ work # kept /\ work # TheHeap /\ kept # TheHeap
      /\ \A u \in Threads \ {t} : WorkOf(u) # work /\ KeptOf(u) # kept
  BY PlacesAre, PlacesDiffer DEF Located
<1>2. /\ In(TheHeap) = heap /\ In(work) = InWork(t) /\ In(kept) = Kept(t)
      /\ In(TheHeap)' = heap' /\ In(work)' = InWork(t)' /\ In(kept)' = Kept(t)'
  BY WhatIsIn, WhatIsInNext
<1>3. \A h \in held : /\ h \in Handles /\ In(With(h)) = {h.chunk} /\ With(h) \in Places
                      /\ With(h) # work /\ With(h) # kept
  BY WhatIsIn, PlacesAre, PlacesDiffer DEF Typed, TypeOK
<1>4. free' = free => OnceEach'
  BY <1>1 DEF OnceEach
<1> HIDE DEF work, kept
<1>5. CASE Alloc(t)
  <2>1. /\ Others(t) /\ InWork(t)' = InWork(t) /\ Kept(t)' = Kept(t)
        /\ UNCHANGED <<heap, held, free>>
    BY <1>5, MoveAlloc
  <2>2. Else({})
    BY <2>1, ElseIs DEF Others
  <2> QED
    BY <1>1, <1>4, <2>1, <2>2, StayKeeps DEF Located
<1>6. CASE Fill(t)
  <2>1. /\ Others(t) /\ InWork(t)' = InWork(t) /\ Kept(t)' = Kept(t)
        /\ UNCHANGED <<heap, held, free>>
    BY <1>6, MoveFill
  <2>2. Else({})
    BY <2>1, ElseIs DEF Others
  <2> QED
    BY <1>1, <1>4, <2>1, <2>2, StayKeeps DEF Located
<1>7. CASE Realloc(t)
  <2>1. PICK h \in held : /\ Others(t) /\ InWork(t)' = InWork(t)
                          /\ Kept(t) = {} /\ Kept(t)' = {h.chunk}
                          /\ held' = held \ {h} /\ UNCHANGED <<heap, free>>
    BY <1>7, MoveRealloc
  <2>2. In(With(h))' = {}
    BY <2>1, WhatIsInNext
  <2>3. Else({With(h), kept})
    BY <2>1, ElseIs DEF Others, kept
  <2>4. Disjoint' /\ Covered'
    <3>1. In(With(h))' = In(With(h)) \ {h.chunk} /\ In(kept)' = In(kept) \cup {h.chunk}
      BY <1>2, <1>3, <2>1, <2>2
    <3> QED
      BY <1>1, <1>3, <2>3, <3>1, MoveKeeps
  <2> QED
    BY <1>4, <2>1, <2>4 DEF Located
<1>8. CASE Free(t)
  <2>1. PICK h \in held : /\ Others(t) /\ Kept(t)' = Kept(t)
                          /\ InWork(t) = {} /\ InWork(t)' = {h.chunk}
                          /\ held' = held \ {h} /\ UNCHANGED <<heap, free>>
    BY <1>8, MoveFree
  <2>2. In(With(h))' = {}
    BY <2>1, WhatIsInNext
  <2>3. Else({With(h), work})
    BY <2>1, ElseIs DEF Others, work
  <2>4. Disjoint' /\ Covered'
    <3>1. In(With(h))' = In(With(h)) \ {h.chunk} /\ In(work)' = In(work) \cup {h.chunk}
      BY <1>2, <1>3, <2>1, <2>2
    <3> QED
      BY <1>1, <1>3, <2>3, <3>1, MoveKeeps
  <2> QED
    BY <1>4, <2>1, <2>4 DEF Located
<1>9. CASE TakeFree(t)
  <2>1. PICK c \in Chunks, b \in PB :
          /\ b = Bucket(t) /\ c \in Range(free[b]) /\ At(t, "take") /\ Take(t, c)
          /\ free' = [free EXCEPT ![b] = Tail(@)]
          /\ Range(Tail(free[b])) = Range(free[b]) \ {c} /\ IsInjective(Tail(free[b]))
          /\ UNCHANGED <<heap, held>>
    BY <1>0, <1>9, MoveTakeFree
  <2>2. Others(t) /\ InWork(t) = {} /\ InWork(t)' = {c} /\ Kept(t)' = Kept(t)
    BY <2>1, MoveTake
  <2>3. free'[b] = Tail(free[b]) /\ \A qb \in PB \ {b} : free'[qb] = free[qb]
    BY <2>1 DEF Typed, TypeOK
  <2>4. /\ List(b) \in Places /\ List(b) # work
        /\ In(List(b)) = Range(free[b]) /\ In(List(b))' = Range(free[b]) \ {c}
    BY <2>1, <2>3, PlacesAre, PlacesDiffer, WhatIsIn, WhatIsInNext DEF work
  <2>5. Else({List(b), work})
    BY <2>1, <2>2, <2>3, ElseIs DEF Others, work
  <2>6. Disjoint' /\ Covered'
    <3>1. In(work)' = In(work) \cup {c}
      BY <1>2, <2>2
    <3> QED
      BY <1>1, <2>1, <2>4, <2>5, <3>1, MoveKeeps
  <2>7. OnceEach'
    BY <1>1, <2>1, <2>3 DEF OnceEach
  <2> QED
    BY <2>6, <2>7 DEF Located
<1>10. CASE TakeNew(t)
  <2>1. PICK c \in heap, b \in PB : /\ At(t, "take") /\ Take(t, c) /\ heap' = heap \ {c}
                                    /\ UNCHANGED <<free, held>>
    BY <1>10, MoveTakeNew
  <2>2. Others(t) /\ InWork(t) = {} /\ InWork(t)' = {c} /\ Kept(t)' = Kept(t)
    BY <2>1, MoveTake
  <2>3. Else({TheHeap, work})
    BY <2>1, <2>2, ElseIs DEF Others, work
  <2>4. Disjoint' /\ Covered'
    <3>1. In(work)' = In(work) \cup {c} /\ In(TheHeap)' = In(TheHeap) \ {c} /\ c \in In(TheHeap)
      BY <1>2, <2>1, <2>2
    <3> QED
      BY <1>1, <2>3, <3>1, MoveKeeps
  <2> QED
    BY <1>4, <2>1, <2>4 DEF Located
<1>11. CASE TakeNothing(t)
  <2>1. /\ call[t].at = "take" /\ FreeOld(t, {}) /\ InWork(t) = {} /\ UNCHANGED <<heap, held, free>>
    BY <1>11 DEF TakeNothing, At, InWork
  <2>2. Others(t) /\ InWork(t)' = Kept(t) /\ Kept(t)' = {}
    BY <2>1, MoveFreeOld
  <2>3. Else({work, kept})
    BY <2>1, <2>2, ElseIs DEF Others, work, kept
  <2>4. Disjoint' /\ Covered'
    BY <1>1, <1>2, <2>1, <2>2, <2>3, SwapKeeps
  <2> QED
    BY <1>4, <2>1, <2>4 DEF Located
<1>12. CASE Add(t)
  <2>1. PICK n \in Handles :
          /\ call[t].at = "add" /\ InWork(t) = {n.chunk} /\ FreeOld(t, {n})
          /\ held' = IF call[t].old = {} THEN held \cup {n} ELSE held
          /\ UNCHANGED <<heap, free>>
    BY <1>12, MoveAdd
  <2>2. /\ Others(t) /\ InWork(t)' = Kept(t)
        /\ Kept(t)' = IF call[t].old = {} THEN {} ELSE {h.chunk : h \in {n}}
        /\ call[t].old = {} => Kept(t) = {}
    BY <2>1, MoveFreeOld
  <2>3. CASE call[t].old # {}
    <3>1. Else({work, kept})
      BY <2>1, <2>2, <2>3, ElseIs DEF Others, work, kept
    <3>2. Disjoint' /\ Covered'
      BY <1>1, <1>2, <2>1, <2>2, <2>3, <3>1, SwapKeeps
    <3> QED
      BY <1>4, <2>1, <3>2 DEF Located
  <2>4. CASE call[t].old = {}
    <3>1. /\ With(n) \in Places /\ With(n) # work
          /\ In(With(n)) = {} \/ In(With(n)) = {n.chunk}
          /\ In(With(n))' = {n.chunk}
      BY <2>1, <2>4, PlacesAre, PlacesDiffer, WhatIsIn, WhatIsInNext DEF work
    <3>2. Else({work, With(n)})
      BY <2>1, <2>2, <2>4, ElseIs DEF Others, work
    <3>3. Disjoint' /\ Covered'
      <4>1. /\ In(work) = {n.chunk} /\ In(work)' = In(work) \ {n.chunk}
            /\ In(With(n))' = In(With(n)) \cup {n.chunk}
        BY <1>2, <2>1, <2>2, <2>4, <3>1
      <4> QED
        BY <1>1, <3>1, <3>2, <4>1, MoveKeeps
    <3> QED
      BY <1>4, <2>1, <3>3 DEF Located
  <2> QED
    BY <2>3, <2>4
<1>13. CASE Release(t)
  <2>0. PICK c \in Chunks, b \in PB : Released(t, c, b)
    BY <1>0, <1>13, MoveRelease
  <2>1.   /\ Others(t) /\ InWork(t) = {c} /\ Kept(t)' = Kept(t)
          /\ InWork(t)' = IF b[2] = 0 THEN {c} ELSE {}
          /\ IF b[2] > 0 THEN /\ free' = [free EXCEPT ![b] = <<c>> \o @]
                              /\ Len(<<c>> \o free[b]) = Len(free[b]) + 1
                              /\ IsInjective(<<c>> \o free[b])
                              /\ Range(<<c>> \o free[b]) = Range(free[b]) \cup {c}
                         ELSE free' = free /\ b[2] = 0
          /\ UNCHANGED <<heap, held>>
    BY <2>0 DEF Released
  <2>2. CASE ~ (b[2] > 0)
    <3>1. free' = free /\ InWork(t)' = InWork(t)
      BY <2>1, <2>2
    <3>2. Else({})
      BY <2>1, <3>1, ElseIs DEF Others
    <3> QED
      BY <1>1, <1>4, <3>1, <3>2, StayKeeps DEF Located
  <2>3. CASE b[2] > 0
    <3>1. /\ free' = [free EXCEPT ![b] = <<c>> \o @]
          /\ IsInjective(<<c>> \o free[b])
          /\ Range(<<c>> \o free[b]) = Range(free[b]) \cup {c}
          /\ InWork(t)' = {}
      BY <2>1, <2>3
    <3>2. free'[b] = <<c>> \o free[b] /\ \A qb \in PB \ {b} : free'[qb] = free[qb]
      BY <3>1 DEF Typed, TypeOK
    <3>3. /\ List(b) \in Places /\ List(b) # work
          /\ In(List(b)) = Range(free[b]) /\ In(List(b))' = Range(free[b]) \cup {c}
      BY <3>1, <3>2, PlacesAre, PlacesDiffer, WhatIsIn, WhatIsInNext DEF work
    <3>4. Else({work, List(b)})
      BY <2>1, <3>2, ElseIs DEF Others, work
    <3>5. Disjoint' /\ Covered'
      <4>1. c \in In(work) /\ In(work)' = In(work) \ {c}
        BY <1>2, <2>1, <3>1
      <4> QED
        BY <1>1, <3>3, <3>4, <4>1, MoveKeeps
    <3>6. OnceEach'
      BY <1>1, <3>1, <3>2 DEF OnceEach
    <3> QED
      BY <3>5, <3>6 DEF Located
  <2> QED
    BY <2>2, <2>3
<1>14. CASE Mark(t)
  <2>1. PICK c \in Chunks :
          /\ Others(t) /\ Kept(t)' = Kept(t) /\ InWork(t)' = {}
          /\ InWork(t) = (IF BucketOf(call[t].size) = 0 THEN {c} ELSE {})
          /\ IF BucketOf(call[t].size) = 0 THEN heap' = heap \cup {c} ELSE UNCHANGED heap
          /\ UNCHANGED <<free, held>>
    BY <1>14, MoveMark
  <2>2. CASE BucketOf(call[t].size) # 0
    <3>1. Else({})
      BY <2>1, <2>2, ElseIs DEF Others
    <3> QED
      BY <1>1, <1>4, <2>1, <3>1, StayKeeps DEF Located
  <2>3. CASE BucketOf(call[t].size) = 0
    <3>1. Else({work, TheHeap})
      BY <2>1, ElseIs DEF Others, work
    <3>2. Disjoint' /\ Covered'
      <4>1. c \in In(work) /\ In(work)' = In(work) \ {c} /\ In(TheHeap)' = In(TheHeap) \cup {c}
        BY <1>2, <2>1, <2>3
      <4> QED
        BY <1>1, <3>1, <4>1, MoveKeeps
    <3> QED
      BY <1>4, <2>1, <3>2 DEF Located
  <2> QED
    BY <2>2, <2>3
<1>15. CASE Subtract(t)
  <2>1. /\ Others(t) /\ InWork(t)' = InWork(t) /\ Kept(t) = {h.chunk : h \in call[t].new}
        /\ Kept(t)' = {} /\ held' = held \cup call[t].new /\ UNCHANGED <<heap, free>>
    BY <1>15, MoveSubtract
  <2>2. CASE call[t].new = {}
    <3>1. held' = held /\ Kept(t)' = Kept(t)
      BY <2>1, <2>2
    <3>2. Else({})
      BY <2>1, <3>1, ElseIs DEF Others
    <3> QED
      BY <1>1, <1>4, <2>1, <3>2, StayKeeps DEF Located
  <2>3. CASE call[t].new # {}
    <3>1. PICK n \in Handles : call[t].new = {n}
      <4>1. /\ call[t].new \in SUBSET Handles
            /\ \A h \in call[t].new : \A g \in call[t].new : h = g
        BY CallTyped DEF Calls, CallOK
      <4> QED
        BY <2>3, <4>1
    <3>2. Kept(t) = {n.chunk} /\ held' = held \cup {n}
      BY <2>1, <3>1
    <3>3. /\ With(n) \in Places /\ With(n) # kept
          /\ In(With(n)) = {} \/ In(With(n)) = {n.chunk}
          /\ In(With(n))' = {n.chunk}
      BY <3>2, PlacesAre, PlacesDiffer, WhatIsIn, WhatIsInNext DEF kept
    <3>4. Else({kept, With(n)})
      BY <2>1, <3>2, ElseIs DEF Others, kept
    <3>5. Disjoint' /\ Covered'
      <4>1. /\ n.chunk \in In(kept) /\ In(kept)' = In(kept) \ {n.chunk}
            /\ In(With(n))' = In(With(n)) \cup {n.chunk}
        BY <1>2, <2>1, <3>2, <3>3
      <4> QED
        BY <1>1, <3>3, <3>4, <4>1, MoveKeeps
    <3> QED
      BY <1>4, <2>1, <3>5 DEF Located
  <2> QED
    BY <2>2, <2>3
<1> QED
  BY <1>5, <1>6, <1>7, <1>8, <1>9, <1>10, <1>11, <1>12, <1>13, <1>14, <1>15

-----------------------------------------------------------------------------
(* The used lists: a chunk in use is in the list it will be freed from, and *)
(* in no other list, nor in the heap.                                       *)
HomeOf(h) == <<h.pool, BucketOf(h.size)>>

UsesRight(t) ==
    /\ call[t].at \in {"fill", "add", "release"} => call[t].chunk \in used[Bucket(t)]
    /\ \A h \in call[t].old \cup call[t].new : h.chunk \in used[HomeOf(h)]
UsedRight ==
    /\ \A t \in Threads : UsesRight(t)
    /\ \A h \in held : h.chunk \in used[HomeOf(h)]

LetGo(t) == At(t, "mark") /\ BucketOf(call[t].size) = 0 =>
                \A pb \in PB : call[t].chunk \notin used[pb]
UsedApart ==
    /\ \A pb \in PB : used[pb] \cap heap = {}
    /\ \A pb \in PB : \A qb \in PB : used[pb] \cap Range(free[qb]) = {}
    /\ \A pb \in PB : \A qb \in PB \ {pb} : used[pb] \cap used[qb] = {}
    /\ \A t \in Threads : LetGo(t)

ConserveInvariant == Typed /\ Located /\ UsedRight /\ UsedApart

LEMMA HomeIn == ASSUME NEW h \in Handles PROVE HomeOf(h) \in PB
BY BucketIsOne DEF Handles, HomeOf, PB

(* What a call has in its hands no other call and no caller has, so that    *)
(* only what it works on may leave a used list.                             *)
LEMMA RightElse ==
  ASSUME Typed, Apart, UsedRight, NEW t \in Threads, Others(t),
         \A pb \in PB : used[pb] \ InWork(t) \subseteq used'[pb]
  PROVE  /\ \A u \in Threads \ {t} : UsesRight(u)'
         /\ \A h \in held \cup call[t].old \cup call[t].new : h.chunk \in used'[HomeOf(h)]
<1>1. ASSUME NEW u \in Threads \ {t} PROVE UsesRight(u)'
  <2>1. /\ call'[u] = call[u] /\ call[u] \in Calls /\ UsesRight(u)
        /\ ~ At(u, "idle") => Bucket(u) \in PB
    BY <1>1, CallTyped DEF Others, UsedRight
  <2>2. InHand(u) \cap InWork(t) = {}
    BY <1>1 DEF Apart, InHand
  <2>3. ASSUME call[u].at \in {"fill", "add", "release"} PROVE call[u].chunk \in used'[Bucket(u)]
    <3>1. call[u].chunk \in InHand(u) /\ Bucket(u) \in PB
      BY <2>1, <2>3 DEF InHand, InWork, At
    <3>2. call[u].chunk \in used[Bucket(u)]
      BY <2>1, <2>3 DEF UsesRight
    <3> QED
      BY <2>2, <3>1, <3>2
  <2>4. ASSUME NEW h \in call[u].old \cup call[u].new PROVE h.chunk \in used'[HomeOf(h)]
    <3>1. h \in Handles /\ h.chunk \in InHand(u) /\ h.chunk \in used[HomeOf(h)]
      BY <2>1 DEF Calls, InHand, Kept, UsesRight
    <3> QED
      BY <2>2, <3>1, HomeIn
  <2>5. Bucket(u)' = Bucket(u)
    BY <2>1 DEF Bucket
  <2> QED
    BY <2>1, <2>3, <2>4, <2>5 DEF UsesRight
<1>2. ASSUME NEW h \in held PROVE h.chunk \in used'[HomeOf(h)]
  <2>1. h \in Handles /\ h.chunk \in HeldChunks /\ h.chunk \in used[HomeOf(h)]
    BY DEF Typed, TypeOK, HeldChunks, UsedRight
  <2>2. h.chunk \notin InWork(t)
    BY <2>1 DEF Apart, InHand
  <2> QED
    BY <2>1, <2>2, HomeIn
<1>3. ASSUME NEW h \in call[t].old \cup call[t].new PROVE h.chunk \in used'[HomeOf(h)]
  <2>1. h \in Handles /\ h.chunk \in Kept(t) /\ h.chunk \in used[HomeOf(h)]
    BY CallTyped DEF Calls, Kept, UsesRight, UsedRight
  <2>2. h.chunk \notin InWork(t)
    BY <2>1 DEF Apart
  <2> QED
    BY <2>1, <2>2, HomeIn
<1> QED
  BY <1>1, <1>2, <1>3

LEMMA RightCall ==
  ASSUME Typed, Typed', Apart, UsedRight, NEW t \in Threads,
         \/ Alloc(t) \/ Realloc(t) \/ TakeFree(t) \/ TakeNew(t) \/ TakeNothing(t)
         \/ Fill(t) \/ Add(t)
         \/ Free(t) \/ Release(t) \/ Mark(t) \/ Subtract(t)
  PROVE  UsedRight'
<1>1. UsesRight(t) /\ \A h \in held : h.chunk \in used[HomeOf(h)]
  BY DEF UsedRight
<1>2. ASSUME Others(t), used' = used \/ (\A pb \in PB : used[pb] \ InWork(t) \subseteq used'[pb])
      PROVE  /\ \A u \in Threads \ {t} : UsesRight(u)'
             /\ \A h \in held \cup call[t].old \cup call[t].new : h.chunk \in used'[HomeOf(h)]
  BY <1>2, RightElse
<1>3. ASSUME \A u \in Threads \ {t} : UsesRight(u)', UsesRight(t)',
             \A h \in held' : h.chunk \in used'[HomeOf(h)]
      PROVE  UsedRight'
  BY <1>3 DEF UsedRight
<1>4. CASE Alloc(t)
  <2>1. /\ Others(t) /\ UNCHANGED <<used, held>> /\ call'[t].at = "take"
        /\ call'[t].old = {} /\ call'[t].new = {}
    BY <1>4, MoveAlloc
  <2>2. UsesRight(t)'
    BY <2>1 DEF UsesRight
  <2> QED
    BY <1>2, <1>3, <2>1, <2>2
<1>5. CASE Realloc(t)
  <2>1. PICK h \in held : /\ Others(t) /\ UNCHANGED used /\ held' = held \ {h}
                          /\ call'[t].at = "take" /\ call'[t].old = {h} /\ call'[t].new = {}
    BY <1>5, MoveRealloc
  <2>2. UsesRight(t)'
    BY <1>1, <2>1 DEF UsesRight
  <2> QED
    BY <1>2, <1>3, <2>1, <2>2
<1>6. CASE TakeFree(t) \/ TakeNew(t)
  <2>1. PICK c : At(t, "take") /\ Take(t, c) /\ held' = held
    BY <1>6 DEF TakeFree, TakeNew
  <2>2. /\ Others(t) /\ Bucket(t) \in PB /\ Bucket(t)' = Bucket(t) /\ call'[t].chunk = c
        /\ call'[t].old = call[t].old /\ call'[t].new = call[t].new
    BY <2>1, MoveTake DEF Same
  <2>3. used' = [used EXCEPT ![Bucket(t)] = @ \cup {c}]
    BY <2>1 DEF Take
  <2>4. c \in used'[Bucket(t)] /\ \A pb \in PB : used[pb] \ InWork(t) \subseteq used'[pb]
    BY <2>2, <2>3 DEF Typed, TypeOK
  <2>5. /\ \A u \in Threads \ {t} : UsesRight(u)'
        /\ \A h \in held \cup call[t].old \cup call[t].new : h.chunk \in used'[HomeOf(h)]
    BY <1>2, <2>2, <2>4
  <2>6. UsesRight(t)'
    BY <2>2, <2>4, <2>5 DEF UsesRight
  <2> QED
    BY <1>3, <2>1, <2>5, <2>6
<1>7. ASSUME call[t].at \in {"take", "add"}, NEW new \in SUBSET Handles, FreeOld(t, new),
             \A h \in new : h.chunk \in used[HomeOf(h)], used' = used
      PROVE  Others(t) /\ UsesRight(t)'
  <2>1. /\ Others(t) /\ call'[t].old = {} /\ call'[t].at \in {"idle", "release"}
        /\ call'[t].new = IF call[t].old = {} THEN {} ELSE new
        /\ call[t].old = {} => call'[t].at = "idle"
        /\ call[t].old # {} =>
             \E h \in call[t].old : /\ call'[t].pool = h.pool /\ call'[t].size = h.size
                                    /\ call'[t].chunk = h.chunk
    BY <1>7, MoveFreeOld
  <2>2. ASSUME call'[t].at = "release" PROVE call'[t].chunk \in used'[Bucket(t)']
    <3>1. PICK h \in call[t].old : /\ call'[t].pool = h.pool /\ call'[t].size = h.size
                                   /\ call'[t].chunk = h.chunk
      BY <2>1, <2>2
    <3>2. Bucket(t)' = HomeOf(h)
      BY <3>1 DEF Bucket, HomeOf
    <3> QED
      BY <1>1, <1>7, <3>1, <3>2 DEF UsesRight
  <2>3. \A h \in call'[t].old \cup call'[t].new : h.chunk \in used'[HomeOf(h)]
    BY <1>7, <2>1
  <2> QED
    BY <2>1, <2>2, <2>3 DEF UsesRight
<1>8. CASE TakeNothing(t)
  <2>1. call[t].at = "take" /\ FreeOld(t, {}) /\ UNCHANGED <<used, held>>
    BY <1>8 DEF TakeNothing, At
  <2>2. Others(t) /\ UsesRight(t)'
    BY <1>7, <2>1
  <2> QED
    BY <1>2, <1>3, <2>1, <2>2
<1>9. CASE Add(t)
  <2>1. PICK n \in Handles :
          /\ n.pool = call[t].pool /\ n.chunk = call[t].chunk /\ n.size = call[t].size
          /\ call[t].at = "add" /\ FreeOld(t, {n})
          /\ held' = IF call[t].old = {} THEN held \cup {n} ELSE held
          /\ used' = used
    BY <1>9, MoveAdd
  <2>2. n.chunk \in used[HomeOf(n)]
    BY <1>1, <2>1 DEF UsesRight, HomeOf, Bucket
  <2>3. Others(t) /\ UsesRight(t)'
    BY <1>7, <2>1, <2>2
  <2> QED
    BY <1>2, <1>3, <2>1, <2>2, <2>3
<1>10. CASE Fill(t)
  <2>1. /\ Others(t) /\ UNCHANGED <<used, held>> /\ call[t].at = "fill"
        /\ call'[t].chunk = call[t].chunk /\ Bucket(t)' = Bucket(t)
        /\ call'[t].old = call[t].old /\ call'[t].new = call[t].new
    BY <1>10, MoveFill DEF Same
  <2>2. UsesRight(t)'
    BY <1>1, <2>1 DEF UsesRight
  <2> QED
    BY <1>2, <1>3, <2>1, <2>2
<1>11. CASE Free(t)
  <2>1. PICK h \in held :
          /\ Others(t) /\ UNCHANGED used /\ held' = held \ {h}
          /\ call'[t].pool = h.pool /\ call'[t].size = h.size /\ call'[t].chunk = h.chunk
          /\ call'[t].old = {} /\ call'[t].new = {}
    BY <1>11, MoveFree
  <2>2. Bucket(t)' = HomeOf(h)
    BY <2>1 DEF Bucket, HomeOf
  <2>3. UsesRight(t)'
    BY <1>1, <2>1, <2>2 DEF UsesRight
  <2> QED
    BY <1>2, <1>3, <2>1, <2>3
<1>12. CASE Release(t)
  <2>0. PICK c \in Chunks, b \in PB : Released(t, c, b)
    BY <1>12, MoveRelease
  <2>1. /\ Others(t) /\ InWork(t) = {c} /\ call'[t].at = "mark"
        /\ call'[t].old = call[t].old /\ call'[t].new = call[t].new
        /\ used' = [used EXCEPT ![b] = @ \ {c}] /\ held' = held
    BY <2>0 DEF Released, Same
  <2>2. \A pb \in PB : used[pb] \ InWork(t) \subseteq used'[pb]
    BY <2>1 DEF Typed, TypeOK
  <2>3. /\ \A u \in Threads \ {t} : UsesRight(u)'
        /\ \A h \in held \cup call[t].old \cup call[t].new : h.chunk \in used'[HomeOf(h)]
    BY <1>2, <2>1, <2>2
  <2>4. UsesRight(t)'
    BY <2>1, <2>3 DEF UsesRight
  <2> QED
    BY <1>3, <2>1, <2>3, <2>4
<1>13. CASE Mark(t)
  <2>1. /\ Others(t) /\ UNCHANGED <<used, held>> /\ call'[t].at = "subtract"
        /\ call'[t].old = call[t].old /\ call'[t].new = call[t].new
    BY <1>13, MoveMark DEF Same
  <2>2. UsesRight(t)'
    BY <1>1, <2>1 DEF UsesRight
  <2> QED
    BY <1>2, <1>3, <2>1, <2>2
<1>14. CASE Subtract(t)
  <2>1. /\ Others(t) /\ UNCHANGED used /\ call'[t].at = "idle"
        /\ call'[t].old = {} /\ call'[t].new = {} /\ held' = held \cup call[t].new
    BY <1>14, MoveSubtract
  <2>2. UsesRight(t)'
    BY <2>1 DEF UsesRight
  <2> QED
    BY <1>2, <1>3, <2>1, <2>2
<1> QED
  BY <1>4, <1>5, <1>6, <1>8, <1>9, <1>10, <1>11, <1>12, <1>13, <1>14

-----------------------------------------------------------------------------
(* A used list takes a chunk from a free list or from the heap only, and    *)
(* gives it back to them.                                                   *)
LEMMA LetGoElse ==
  ASSUME Typed, Apart, UsedApart, NEW t \in Threads, Others(t), NEW c,
         \A pb \in PB : used'[pb] \subseteq used[pb] \cup {c},
         \A u \in Threads \ {t} : c \notin InHand(u)
  PROVE  \A u \in Threads \ {t} : LetGo(u)'
<1> SUFFICES ASSUME NEW u \in Threads \ {t}, call[u].at = "mark", BucketOf(call[u].size) = 0,
                    NEW pb \in PB
             PROVE  call[u].chunk \notin used'[pb]
  BY DEF LetGo, Others, At
<1>1. call[u].chunk \in InHand(u)
  BY DEF InHand, InWork, At
<1>2. call[u].chunk \notin used[pb]
  BY DEF UsedApart, LetGo, At
<1> QED
  BY <1>1, <1>2

LEMMA ApartTake ==
  ASSUME Typed, Located, UsedApart, NEW t \in Threads, TakeFree(t) \/ TakeNew(t)
  PROVE  UsedApart'
<1>0. Apart
  BY LocatedIsApart
<1>1. \A pb \in PB : used[pb] \cap heap = {} /\ Range(free[pb]) \cap heap = {}
  BY <1>0 DEF UsedApart, Apart, Typed, TypeOK
<1>2. \A pb \in PB : \A qb \in PB \ {pb} : Range(free[pb]) \cap Range(free[qb]) = {}
  BY <1>0 DEF Apart, Typed, TypeOK
<1>3. \A u \in Threads : /\ InHand(u) \cap heap = {}
                         /\ \A pb \in PB : InHand(u) \cap Range(free[pb]) = {}
  BY <1>0 DEF Apart, Typed, TypeOK
\* A chunk is taken from where no used list has it, and no longer there.
<1>4. PICK c \in Chunks, b \in PB :
        /\ b = Bucket(t) /\ At(t, "take") /\ Take(t, c)
        /\ \A pb \in PB : c \notin used[pb]
        /\ \A u \in Threads : c \notin InHand(u)
        /\ heap' \subseteq heap /\ c \notin heap'
        /\ \A pb \in PB : Range(free'[pb]) \subseteq Range(free[pb]) /\ c \notin Range(free'[pb])
  <2>1. CASE TakeFree(t)
    <3>1. PICK c \in Chunks, b \in PB :
            /\ b = Bucket(t) /\ c \in Range(free[b]) /\ At(t, "take") /\ Take(t, c)
            /\ free' = [free EXCEPT ![b] = Tail(@)]
            /\ Range(Tail(free[b])) = Range(free[b]) \ {c}
            /\ UNCHANGED heap
      BY <1>0, <2>1, MoveTakeFree
    <3>2. free'[b] = Tail(free[b]) /\ \A qb \in PB \ {b} : free'[qb] = free[qb]
      BY <3>1 DEF Typed, TypeOK
    <3>3. \A pb \in PB : c \notin used[pb]
      BY <3>1 DEF UsedApart
    <3>4. c \notin heap /\ \A u \in Threads : c \notin InHand(u)
      BY <1>1, <1>3, <3>1
    <3>5. \A pb \in PB : Range(free'[pb]) \subseteq Range(free[pb]) /\ c \notin Range(free'[pb])
      <4> SUFFICES ASSUME NEW pb \in PB
                   PROVE  Range(free'[pb]) \subseteq Range(free[pb]) /\ c \notin Range(free'[pb])
        OBVIOUS
      <4>1. CASE pb = b
        BY <3>1, <3>2, <4>1
      <4>2. CASE pb # b
        BY <1>2, <3>1, <3>2, <4>2
      <4> QED
        BY <4>1, <4>2
    <3>6. /\ b = Bucket(t) /\ At(t, "take") /\ Take(t, c)
          /\ \A pb \in PB : c \notin used[pb]
          /\ \A u \in Threads : c \notin InHand(u)
          /\ heap' \subseteq heap /\ c \notin heap'
          /\ \A pb \in PB : Range(free'[pb]) \subseteq Range(free[pb]) /\ c \notin Range(free'[pb])
      BY <3>1, <3>3, <3>4, <3>5
    <3> QED
      BY <3>6
  <2>2. CASE TakeNew(t)
    <3>1. PICK c \in heap, b \in PB : /\ b = Bucket(t) /\ At(t, "take") /\ Take(t, c)
                                      /\ heap' = heap \ {c} /\ UNCHANGED free
      BY <2>2, MoveTakeNew
    <3>2. \A pb \in PB : c \notin used[pb] /\ c \notin Range(free[pb])
      BY <1>1, <3>1
    <3>3. \A u \in Threads : c \notin InHand(u)
      BY <1>3, <3>1
    <3>4. /\ b = Bucket(t) /\ At(t, "take") /\ Take(t, c)
          /\ \A pb \in PB : c \notin used[pb]
          /\ \A u \in Threads : c \notin InHand(u)
          /\ heap' \subseteq heap /\ c \notin heap'
          /\ \A pb \in PB : Range(free'[pb]) \subseteq Range(free[pb]) /\ c \notin Range(free'[pb])
      BY <3>1, <3>2, <3>3
    <3> QED
      BY <3>1, <3>4 DEF Typed, TypeOK
  <2> QED
    BY <2>1, <2>2
<1>5. Others(t) /\ call'[t].at = "fill"
  BY <1>4, MoveTake
<1>6. used'[b] = used[b] \cup {c} /\ \A pb \in PB \ {b} : used'[pb] = used[pb]
  BY <1>4 DEF Take, Typed, TypeOK
<1>7. \A pb \in PB : used'[pb] \subseteq used[pb] \cup {c}
  BY <1>6
<1>8. \A u \in Threads : LetGo(u)'
  <2>1. \A u \in Threads \ {t} : LetGo(u)'
    BY <1>0, <1>4, <1>5, <1>7, LetGoElse
  <2>2. LetGo(t)'
    BY <1>5 DEF LetGo, At
  <2> QED
    BY <2>1, <2>2
<1>9. \A pb \in PB : used'[pb] \cap heap' = {}
  BY <1>1, <1>4, <1>7
<1>10. \A pb \in PB : \A qb \in PB : used'[pb] \cap Range(free'[qb]) = {}
  BY <1>4, <1>7 DEF UsedApart
<1>11. \A pb \in PB : \A qb \in PB \ {pb} : used'[pb] \cap used'[qb] = {}
  BY <1>4, <1>6 DEF UsedApart
<1> QED
  BY <1>8, <1>9, <1>10, <1>11 DEF UsedApart

LEMMA ApartRelease ==
  ASSUME Typed, Located, UsedRight, UsedApart, NEW t \in Threads, Release(t)
  PROVE  UsedApart'
<1>0. Apart
  BY LocatedIsApart
<1>00. PICK c \in Chunks, b \in PB : Released(t, c, b)
  BY <1>0, MoveRelease
<1>1.   /\ b = Bucket(t) /\ Others(t) /\ call[t].at = "release" /\ call'[t].at = "mark"
        /\ c = call[t].chunk /\ c = call'[t].chunk /\ InWork(t) = {c}
        /\ used' = [used EXCEPT ![b] = @ \ {c}]
        /\ IF b[2] > 0 THEN /\ free' = [free EXCEPT ![b] = <<c>> \o @]
                            /\ Len(<<c>> \o free[b]) = Len(free[b]) + 1
                            /\ IsInjective(<<c>> \o free[b])
                            /\ Range(<<c>> \o free[b]) = Range(free[b]) \cup {c}
                       ELSE free' = free /\ b[2] = 0
        /\ UNCHANGED heap
  BY <1>00 DEF Released
<1>2. used'[b] = used[b] \ {c} /\ \A pb \in PB \ {b} : used'[pb] = used[pb]
  BY <1>1 DEF Typed, TypeOK
<1>3. \A pb \in PB : Range(free'[pb]) \subseteq Range(free[pb]) \cup {c}
  <2>1. CASE ~ (b[2] > 0)
    BY <1>1, <2>1
  <2>2. CASE b[2] > 0
    <3>1. /\ free' = [free EXCEPT ![b] = <<c>> \o @]
          /\ Range(<<c>> \o free[b]) = Range(free[b]) \cup {c}
      BY <1>1, <2>2
    <3>2. free'[b] = <<c>> \o free[b] /\ \A qb \in PB \ {b} : free'[qb] = free[qb]
      BY <3>1 DEF Typed, TypeOK
    <3> QED
      BY <3>1, <3>2
  <2> QED
    BY <2>1, <2>2
<1>4. c \in used[b]
  BY <1>1 DEF UsedRight, UsesRight
<1>5. \A pb \in PB : c \notin used'[pb] /\ used'[pb] \subseteq used[pb]
  BY <1>2, <1>4 DEF UsedApart
<1>6. \A u \in Threads : LetGo(u)'
  <2>1. \A u \in Threads \ {t} : c \notin InHand(u)
    BY <1>0, <1>1 DEF Apart, InHand
  <2>2. \A u \in Threads \ {t} : LetGo(u)'
    BY <1>0, <1>1, <1>5, <2>1, LetGoElse
  <2>3. LetGo(t)'
    BY <1>1, <1>5 DEF LetGo
  <2> QED
    BY <2>2, <2>3
<1>7. \A pb \in PB : used'[pb] \cap heap' = {}
  BY <1>1, <1>5 DEF UsedApart
<1>8. \A pb \in PB : \A qb \in PB : used'[pb] \cap Range(free'[qb]) = {}
  BY <1>3, <1>5 DEF UsedApart
<1>9. \A pb \in PB : \A qb \in PB \ {pb} : used'[pb] \cap used'[qb] = {}
  BY <1>5 DEF UsedApart
<1> QED
  BY <1>6, <1>7, <1>8, <1>9 DEF UsedApart

LEMMA ApartMark ==
  ASSUME Typed, UsedApart, NEW t \in Threads, Mark(t) PROVE UsedApart'
<1>1. PICK c \in Chunks :
        /\ Others(t) /\ call[t].at = "mark" /\ call'[t].at = "subtract" /\ c = call[t].chunk
        /\ IF BucketOf(call[t].size) = 0
           THEN heap' = heap \cup {c} /\ UNCHANGED magic
           ELSE magic' = [magic EXCEPT ![c] = "freed"] /\ UNCHANGED heap
        /\ UNCHANGED <<used, free>>
  BY MoveMark
<1>2. \A pb \in PB : used[pb] \cap heap' = {}
  <2>1. CASE BucketOf(call[t].size) = 0
    <3>1. \A pb \in PB : c \notin used[pb]
      BY <1>1, <2>1 DEF UsedApart, LetGo, At
    <3> QED
      BY <1>1, <2>1, <3>1 DEF UsedApart
  <2>2. CASE BucketOf(call[t].size) # 0
    BY <1>1, <2>2 DEF UsedApart
  <2> QED
    BY <2>1, <2>2
<1>3. \A u \in Threads : LetGo(u)'
  BY <1>1 DEF UsedApart, LetGo, At, Others
<1> QED
  BY <1>1, <1>2, <1>3 DEF UsedApart

LEMMA ApartCall ==
  ASSUME Typed, Typed', Located, UsedRight, UsedApart, NEW t \in Threads,
         \/ Alloc(t) \/ Realloc(t) \/ TakeFree(t) \/ TakeNew(t) \/ TakeNothing(t)
         \/ Fill(t) \/ Add(t)
         \/ Free(t) \/ Release(t) \/ Mark(t) \/ Subtract(t)
  PROVE  UsedApart'
<1>1. ASSUME Others(t), UNCHANGED <<used, free, heap>>, call'[t].at # "mark" PROVE UsedApart'
  BY <1>1 DEF UsedApart, LetGo, At, Others
<1>2. CASE Alloc(t)
  <2>1. Others(t) /\ UNCHANGED <<used, free, heap>> /\ call'[t].at = "take"
    BY <1>2, MoveAlloc
  <2> QED
    BY <1>1, <2>1
<1>3. CASE Realloc(t)
  <2>1. Others(t) /\ UNCHANGED <<used, free, heap>> /\ call'[t].at = "take"
    BY <1>3, MoveRealloc
  <2> QED
    BY <1>1, <2>1
<1>4. CASE TakeNothing(t)
  <2>1. call[t].at = "take" /\ FreeOld(t, {}) /\ UNCHANGED <<used, free, heap>>
    BY <1>4 DEF TakeNothing, At
  <2>2. Others(t) /\ call'[t].at \in {"idle", "release"}
    BY <2>1, MoveFreeOld
  <2> QED
    BY <1>1, <2>1, <2>2
<1>5. CASE Add(t)
  <2>1. PICK n \in Handles : /\ call[t].at = "add" /\ FreeOld(t, {n})
                             /\ UNCHANGED <<used, free, heap>>
    BY <1>5, MoveAdd
  <2>2. Others(t) /\ call'[t].at \in {"idle", "release"}
    BY <2>1, MoveFreeOld
  <2> QED
    BY <1>1, <2>1, <2>2
<1>6. CASE Fill(t)
  <2>1. Others(t) /\ UNCHANGED <<used, free, heap>> /\ call'[t].at = "add"
    BY <1>6, MoveFill
  <2> QED
    BY <1>1, <2>1
<1>7. CASE Free(t)
  <2>1. Others(t) /\ UNCHANGED <<used, free, heap>> /\ call'[t].at = "release"
    BY <1>7, MoveFree
  <2> QED
    BY <1>1, <2>1
<1>8. CASE Subtract(t)
  <2>1. Others(t) /\ UNCHANGED <<used, free, heap>> /\ call'[t].at = "idle"
    BY <1>8, MoveSubtract
  <2> QED
    BY <1>1, <2>1
<1> QED
  BY <1>2, <1>3, <1>4, <1>5, <1>6, <1>7, <1>8, ApartTake, ApartRelease, ApartMark

-----------------------------------------------------------------------------
(* A pool that is freed takes its chunks to the heap, and they are nobody   *)
(* else's.                                                                  *)
GoneChunks(gone) == {c \in Chunks : \E pb \in PB : /\ pb[1] \in gone
                                                   /\ c \in used[pb] \cup Range(free[pb])}

LEMMA MovePoolFree ==
  ASSUME Typed, NEW p \in Pools, PoolFree(p)
  PROVE  \E gone \in SUBSET pools :
         /\ gone = Family(p)
         /\ \A t \in Threads : call[t].pool \notin gone
         /\ pools' = pools \ gone
         /\ \A pb \in PB :
              /\ used'[pb] = IF pb[1] \in gone THEN {} ELSE used[pb]
              /\ free'[pb] = IF pb[1] \in gone THEN <<>> ELSE free[pb]
              /\ used_size'[pb] = IF pb[1] \in gone THEN 0 ELSE used_size[pb]
              /\ used_count'[pb] = IF pb[1] \in gone THEN 0 ELSE used_count[pb]
              /\ total_count'[pb] = IF pb[1] \in gone THEN 0 ELSE total_count[pb]
         /\ size' = [q \in Pools |-> IF q \in gone THEN 0 ELSE size[q]]
         /\ element_count' = [q \in Pools |-> IF q \in gone THEN 0 ELSE element_count[q]]
         /\ heap' = heap \cup GoneChunks(gone)
         /\ held' = {h \in held : h.pool \notin gone}
         /\ UNCHANGED <<chunk_size, magic, call>>
<1> DEFINE gone == Family(p)
           lists == {used[<<q, b>>] \cup Range(free[<<q, b>>]) : q \in gone, b \in Buckets}
           chunks == UNION lists
<1>1. /\ \A t \in Threads : call[t].pool \notin gone
      /\ pools' = pools \ gone
      /\ used' = [pb \in DOMAIN used |-> IF pb[1] \in gone THEN {} ELSE used[pb]]
      /\ free' = [pb \in DOMAIN free |-> IF pb[1] \in gone THEN <<>> ELSE free[pb]]
      /\ used_size' = [pb \in DOMAIN used_size |-> IF pb[1] \in gone THEN 0 ELSE used_size[pb]]
      /\ used_count' = [pb \in DOMAIN used_count |-> IF pb[1] \in gone THEN 0 ELSE used_count[pb]]
      /\ total_count' = [pb \in DOMAIN total_count |->
                            IF pb[1] \in gone THEN 0 ELSE total_count[pb]]
      /\ size' = [q \in Pools |-> IF q \in gone THEN 0 ELSE size[q]]
      /\ element_count' = [q \in Pools |-> IF q \in gone THEN 0 ELSE element_count[q]]
      /\ heap' = heap \cup chunks
      /\ held' = {h \in held : h.pool \notin gone}
      /\ UNCHANGED <<chunk_size, magic, call>>
  BY DEF PoolFree
<1>2. gone \in SUBSET pools /\ gone \in SUBSET Pools
  BY DEF Family, Typed, TypeOK
<1>3. chunks = GoneChunks(gone)
  <2> HIDE DEF gone
  <2>1. ASSUME NEW c \in chunks PROVE c \in GoneChunks(gone)
    <3>1. PICK q \in gone, b \in Buckets : c \in used[<<q, b>>] \cup Range(free[<<q, b>>])
      OBVIOUS
    <3>2. <<q, b>> \in PB /\ <<q, b>>[1] = q
      BY <1>2 DEF PB
    <3>3. c \in Chunks
      BY <3>1, <3>2, RangeIn DEF Typed, TypeOK
    <3> QED
      BY <3>1, <3>2, <3>3 DEF GoneChunks
  <2>2. ASSUME NEW c \in GoneChunks(gone) PROVE c \in chunks
    <3>1. PICK pb \in PB : pb[1] \in gone /\ c \in used[pb] \cup Range(free[pb])
      BY DEF GoneChunks
    <3>2. pb = <<pb[1], pb[2]>> /\ pb[2] \in Buckets
      BY <3>1 DEF PB
    <3>3. PICK q \in gone, b \in Buckets : c \in used[<<q, b>>] \cup Range(free[<<q, b>>])
      BY <3>1, <3>2
    <3>4. used[<<q, b>>] \cup Range(free[<<q, b>>]) \in lists
      OBVIOUS
    <3> HIDE DEF lists
    <3> QED
      BY <3>3, <3>4
  <2> HIDE DEF chunks
  <2> QED
    BY <2>1, <2>2
<1>4. /\ DOMAIN used = PB /\ DOMAIN free = PB /\ DOMAIN used_size = PB
      /\ DOMAIN used_count = PB /\ DOMAIN total_count = PB
  BY DEF Typed, TypeOK
<1>5. \A pb \in PB : /\ used'[pb] = IF pb[1] \in gone THEN {} ELSE used[pb]
                     /\ free'[pb] = IF pb[1] \in gone THEN <<>> ELSE free[pb]
                     /\ used_size'[pb] = IF pb[1] \in gone THEN 0 ELSE used_size[pb]
                     /\ used_count'[pb] = IF pb[1] \in gone THEN 0 ELSE used_count[pb]
                     /\ total_count'[pb] = IF pb[1] \in gone THEN 0 ELSE total_count[pb]
  <2> HIDE DEF gone
  <2> QED
    BY <1>1, <1>4
<1>6. gone = Family(p)
  OBVIOUS
<1> HIDE DEF gone, lists
<1> QED
  BY <1>1, <1>2, <1>3, <1>5, <1>6

LEMMA EmptyRange == Range(<<>>) = {} /\ IsInjective(<<>>)
BY EmptySeq DEF Range, IsInjective

LEMMA GoneApart ==
  ASSUME ConserveInvariant, NEW gone, \A t \in Threads : call[t].pool \notin gone
  PROVE  /\ \A h \in held : h.pool \notin gone => h.chunk \notin GoneChunks(gone)
         /\ \A pb \in PB : pb[1] \notin gone =>
                Range(free[pb]) \cap GoneChunks(gone) = {} /\ used[pb] \cap GoneChunks(gone) = {}
         /\ \A t \in Threads : InHand(t) \cap GoneChunks(gone) = {}
<1>0. Apart /\ Typed /\ UsedRight /\ UsedApart
  BY LocatedIsApart DEF ConserveInvariant
<1>1. ASSUME NEW pb \in PB, pb[1] \notin gone
      PROVE  Range(free[pb]) \cap GoneChunks(gone) = {} /\ used[pb] \cap GoneChunks(gone) = {}
  <2> SUFFICES ASSUME NEW qb \in PB, qb[1] \in gone
               PROVE  (Range(free[pb]) \cup used[pb]) \cap (used[qb] \cup Range(free[qb])) = {}
    BY DEF GoneChunks
  <2>1. pb # qb
    BY <1>1
  <2>2. used[pb] \cap used[qb] = {} /\ used[pb] \cap Range(free[qb]) = {}
        /\ used[qb] \cap Range(free[pb]) = {}
    BY <1>0, <2>1 DEF UsedApart
  <2>3. Range(free[pb]) \cap Range(free[qb]) = {}
    BY <1>0, <2>1 DEF Apart, Typed, TypeOK
  <2> QED
    BY <2>2, <2>3
<1>2. \A h \in Handles : HomeOf(h) \in PB /\ HomeOf(h)[1] = h.pool
  BY HomeIn DEF HomeOf
<1>3. ASSUME NEW h \in held, h.pool \notin gone PROVE h.chunk \notin GoneChunks(gone)
  <2>1. h \in Handles /\ h.chunk \in used[HomeOf(h)]
    BY <1>0 DEF UsedRight, Typed, TypeOK
  <2> QED
    BY <1>1, <1>2, <1>3, <2>1
<1>4. ASSUME NEW t \in Threads, NEW c \in InHand(t) PROVE c \notin GoneChunks(gone)
  <2>1. call[t] \in Calls /\ CallOK(call[t]) /\ UsesRight(t) /\ LetGo(t)
    BY <1>0, CallTyped DEF UsedRight, UsedApart
  <2>2. \A pb \in PB : c \notin Range(free[pb])
    BY <1>0 DEF Apart, Typed, TypeOK
  <2>3. CASE c \in Kept(t)
    <3>1. PICK h \in call[t].old \cup call[t].new : c = h.chunk
      BY <2>3 DEF Kept
    <3>2. h \in Handles /\ h.pool = call[t].pool /\ h.chunk \in used[HomeOf(h)]
      BY <2>1 DEF Calls, CallOK, UsesRight
    <3> QED
      BY <1>1, <1>2, <3>1, <3>2
  <2>4. CASE c \in InWork(t) /\ call[t].at \in {"fill", "add", "release"}
    <3>1. c = call[t].chunk /\ Bucket(t) \in PB /\ Bucket(t)[1] = call[t].pool
      BY <1>0, <2>4, CallTyped DEF InWork, At, Bucket
    <3>2. c \in used[Bucket(t)]
      BY <2>1, <2>4, <3>1 DEF UsesRight
    <3> QED
      BY <1>1, <3>1, <3>2
  <2>5. CASE c \in InWork(t) /\ call[t].at \notin {"fill", "add", "release"}
    <3>1. c = call[t].chunk /\ At(t, "mark") /\ BucketOf(call[t].size) = 0
      BY <2>5 DEF InWork
    <3>2. \A pb \in PB : c \notin used[pb]
      BY <2>1, <3>1 DEF LetGo
    <3> QED
      BY <2>2, <3>2 DEF GoneChunks
  <2> QED
    BY <2>3, <2>4, <2>5 DEF InHand
<1> QED
  BY <1>1, <1>3, <1>4

LEMMA ConservePoolFree ==
  ASSUME ConserveInvariant, Typed', NEW p \in Pools, PoolFree(p)
  PROVE  Located' /\ UsedRight' /\ UsedApart'
<1>0. Apart /\ Typed /\ UsedRight /\ UsedApart /\ Disjoint /\ Covered /\ OnceEach
  BY LocatedIsApart DEF ConserveInvariant, Located
<1>1. PICK gone \in SUBSET pools :
         /\ \A t \in Threads : call[t].pool \notin gone
         /\ \A pb \in PB : /\ used'[pb] = IF pb[1] \in gone THEN {} ELSE used[pb]
                           /\ free'[pb] = IF pb[1] \in gone THEN <<>> ELSE free[pb]
         /\ heap' = heap \cup GoneChunks(gone)
         /\ held' = {h \in held : h.pool \notin gone}
         /\ UNCHANGED call
  BY <1>0, MovePoolFree
<1>2. /\ \A h \in held' : h.chunk \notin GoneChunks(gone)
      /\ \A pb \in PB : Range(free'[pb]) \cap GoneChunks(gone) = {}
                        /\ used'[pb] \cap GoneChunks(gone) = {}
                        /\ Range(free'[pb]) \subseteq Range(free[pb])
                        /\ used'[pb] \subseteq used[pb]
      /\ \A t \in Threads : InHand(t) \cap GoneChunks(gone) = {}
  BY <1>1, GoneApart, EmptyRange
<1>3. \A t \in Threads : InWork(t)' = InWork(t) /\ Kept(t)' = Kept(t) /\ Bucket(t)' = Bucket(t)
  BY <1>1 DEF InWork, Kept, At, Bucket
<1>4. In(TheHeap)' = In(TheHeap) \cup GoneChunks(gone)
  BY <1>1, WhatIsIn, WhatIsInNext
<1>5. ASSUME NEW z \in Places, z # TheHeap
      PROVE  /\ In(z)' \subseteq In(z) /\ In(z)' \cap GoneChunks(gone) = {}
             /\ In(z) \ In(z)' \subseteq GoneChunks(gone)
  <2>1. ASSUME NEW h \in Handles, z = With(h)
        PROVE  /\ In(z)' \subseteq In(z) /\ In(z)' \cap GoneChunks(gone) = {}
               /\ In(z) \ In(z)' \subseteq GoneChunks(gone)
    <3>1. h \in held /\ h.pool \in gone => h.chunk \in GoneChunks(gone)
      BY <1>0, HomeIn DEF UsedRight, GoneChunks, HomeOf, Handles
    <3>2. /\ In(z) = (IF h \in held THEN {h.chunk} ELSE {})
          /\ In(z)' = IF h \in held' THEN {h.chunk} ELSE {}
      BY <2>1, WhatIsIn, WhatIsInNext
    <3> QED
      BY <1>1, <1>2, <3>1, <3>2
  <2>2. ASSUME NEW pb \in PB, z = List(pb)
        PROVE  /\ In(z)' \subseteq In(z) /\ In(z)' \cap GoneChunks(gone) = {}
               /\ In(z) \ In(z)' \subseteq GoneChunks(gone)
    <3>1. In(z) = Range(free[pb]) /\ In(z)' = Range(free'[pb])
      BY <2>2, WhatIsIn, WhatIsInNext
    <3>2. Range(free[pb]) \subseteq Chunks
      BY <1>0, RangeIn DEF Typed, TypeOK
    <3>3. pb[1] \in gone => Range(free[pb]) \subseteq GoneChunks(gone)
      BY <3>2 DEF GoneChunks
    <3> QED
      BY <1>1, <1>2, <3>1, <3>3
  <2>3. ASSUME NEW t \in Threads, z = WorkOf(t) \/ z = KeptOf(t)
        PROVE  In(z)' = In(z) /\ In(z)' \cap GoneChunks(gone) = {}
    <3>1. In(z)' = In(z) /\ In(z) \subseteq InHand(t)
      BY <1>3, <2>3, WhatIsIn, WhatIsInNext DEF InHand
    <3> QED
      BY <1>2, <3>1
  <2> QED
    BY <1>5, <2>1, <2>2, <2>3, PlacesAre
<1>6. Disjoint'
  <2> SUFFICES ASSUME NEW z \in Places, NEW w \in Places, z # w PROVE In(z)' \cap In(w)' = {}
    BY DEF Disjoint
  <2>1. In(z) \cap In(w) = {}
    BY <1>0 DEF Disjoint
  <2>2. CASE z # TheHeap /\ w # TheHeap
    BY <1>5, <2>1, <2>2
  <2>3. CASE z = TheHeap \/ w = TheHeap
    BY <1>4, <1>5, <2>1, <2>3
  <2> QED
    BY <2>2, <2>3
<1>7. Covered'
  <2> SUFFICES ASSUME NEW c \in Chunks PROVE \E z \in Places : c \in In(z)'
    BY DEF Covered
  <2>1. PICK z \in Places : c \in In(z)
    BY <1>0 DEF Covered
  <2>2. c \in In(z)' \/ c \in In(TheHeap)'
    BY <1>4, <1>5, <2>1
  <2> QED
    BY <2>2, PlacesAre
<1>8. OnceEach'
  BY <1>0, <1>1, EmptyRange DEF OnceEach
<1>9. UsedRight'
  <2>1. ASSUME NEW h \in Handles, h.pool \notin gone, h.chunk \in used[HomeOf(h)]
        PROVE  h.chunk \in used'[HomeOf(h)]
    <3>1. HomeOf(h) \in PB /\ HomeOf(h)[1] = h.pool
      BY HomeIn DEF HomeOf
    <3> QED
      BY <1>1, <2>1, <3>1
  <2>2. ASSUME NEW h \in held' PROVE h.chunk \in used'[HomeOf(h)]
    BY <1>0, <1>1, <2>1 DEF UsedRight, Typed, TypeOK
  <2>3. ASSUME NEW t \in Threads PROVE UsesRight(t)'
    <3>1. call[t] \in Calls /\ CallOK(call[t]) /\ UsesRight(t) /\ call[t].pool \notin gone
      BY <1>0, <1>1, CallTyped DEF UsedRight
    <3>2. ASSUME NEW h \in call[t].old \cup call[t].new PROVE h.chunk \in used'[HomeOf(h)]
      <4>1. h \in Handles /\ h.pool \notin gone /\ h.chunk \in used[HomeOf(h)]
        BY <3>1 DEF Calls, CallOK, UsesRight
      <4> QED
        BY <2>1, <4>1
    <3>3. ASSUME call[t].at \in {"fill", "add", "release"} PROVE call[t].chunk \in used'[Bucket(t)]
      <4>1. Bucket(t) \in PB /\ Bucket(t)[1] = call[t].pool
        BY <1>0, <3>3, CallTyped DEF At, Bucket
      <4> QED
        BY <1>1, <3>1, <3>3, <4>1 DEF UsesRight
    <3> QED
      BY <1>1, <1>3, <3>2, <3>3 DEF UsesRight
  <2> QED
    BY <2>2, <2>3 DEF UsedRight
<1>10. UsedApart'
  <2>1. \A pb \in PB : used'[pb] \cap heap' = {}
    BY <1>0, <1>1, <1>2 DEF UsedApart
  <2>2. \A pb \in PB : \A qb \in PB : used'[pb] \cap Range(free'[qb]) = {}
    BY <1>0, <1>2 DEF UsedApart
  <2>3. \A pb \in PB : \A qb \in PB \ {pb} : used'[pb] \cap used'[qb] = {}
    BY <1>0, <1>2 DEF UsedApart
  <2>4. \A t \in Threads : LetGo(t)'
    BY <1>0, <1>1, <1>2 DEF UsedApart, LetGo, At
  <2> QED
    BY <2>1, <2>2, <2>3, <2>4 DEF UsedApart
<1> QED
  BY <1>6, <1>7, <1>8, <1>9, <1>10 DEF Located

LEMMA ConserveInit == Init => ConserveInvariant
<1> SUFFICES ASSUME Init PROVE ConserveInvariant
  OBVIOUS
<1> USE ConstantsKnown, IdleIsCall
<1>1. /\ \A pb \in PB : used[pb] = {} /\ free[pb] = <<>>
      /\ heap = Chunks /\ held = {} /\ \A t \in Threads : call[t] = Idle
  BY DEF Init, PB
<1>2. Typed
  <2>1. CallOK(Idle)
    BY DEF CallOK
  <2>2. /\ used \in [PB -> SUBSET Chunks] /\ free \in [PB -> Seq(Chunks)]
        /\ used_size \in [PB -> Int] /\ used_count \in [PB -> Int]
        /\ total_size \in [PB -> Int] /\ total_count \in [PB -> Int]
    BY DEF Init, PB, Zeros
  <2>3. /\ size \in [Pools -> Int] /\ element_count \in [Pools -> Int]
        /\ chunk_size \in [Chunks -> Nat] /\ magic \in [Chunks -> {"used", "freed"}]
        /\ call \in [Threads -> Calls]
        /\ pools \in SUBSET Pools /\ heap \in SUBSET Chunks /\ held \in SUBSET Handles
    BY DEF Init
  <2> QED
    BY <1>1, <2>1, <2>2, <2>3 DEF Typed, TypeOK, Locals
<1>3. \A t \in Threads : InWork(t) = {} /\ Kept(t) = {}
  BY <1>1 DEF InWork, Kept, At
<1>4. In(TheHeap) = Chunks /\ \A z \in Places \ {TheHeap} : In(z) = {}
  BY <1>1, <1>3, WhatIsIn, PlacesAre, EmptyRange
<1>5. Located
  BY <1>1, <1>4, PlacesAre, EmptyRange DEF Located, Disjoint, Covered, OnceEach
<1>6. UsedRight
  BY <1>1 DEF UsedRight, UsesRight
<1>7. UsedApart
  BY <1>1 DEF UsedApart, LetGo, At
<1> QED
  BY <1>2, <1>5, <1>6, <1>7 DEF ConserveInvariant

LEMMA ConserveStep == ASSUME ConserveInvariant, [Next]_vars PROVE ConserveInvariant'
<1>1. Typed /\ Located /\ UsedRight /\ UsedApart
  BY DEF ConserveInvariant
<1>2. Typed'
  BY <1>1, TypedStep
<1>3. ASSUME UNCHANGED <<used, free, heap, held, call>> PROVE Located' /\ UsedRight' /\ UsedApart'
  <2>1. Located'
    <3>1. \A t \in Threads : InWork(t)' = InWork(t) /\ Kept(t)' = Kept(t)
      BY <1>3 DEF InWork, Kept, At
    <3>2. Else({})
      BY <1>3, <3>1, ElseIs
    <3>3. Disjoint' /\ Covered'
      BY <1>1, <3>2, StayKeeps DEF Located
    <3> QED
      BY <1>1, <1>3, <3>3 DEF Located, OnceEach
  <2>2. UsedRight'
    BY <1>1, <1>3 DEF UsedRight, UsesRight, Bucket
  <2>3. UsedApart'
    BY <1>1, <1>3 DEF UsedApart, LetGo, At
  <2> QED
    BY <2>1, <2>2, <2>3
<1>4. CASE UNCHANGED vars
  BY <1>1, <1>2, <1>3, <1>4 DEF vars, ConserveInvariant
<1>5. ASSUME NEW t \in Threads,
             \/ Alloc(t) \/ Realloc(t) \/ TakeFree(t) \/ TakeNew(t) \/ TakeNothing(t)
             \/ Fill(t) \/ Add(t)
             \/ Free(t) \/ Release(t) \/ Mark(t) \/ Subtract(t)
      PROVE  ConserveInvariant'
  BY <1>1, <1>2, <1>5, LocatedIsApart, LocatedCall, RightCall, ApartCall DEF ConserveInvariant
<1>6. ASSUME NEW p \in Pools, PoolAlloc(p) PROVE ConserveInvariant'
  <2>1. UNCHANGED <<used, free, heap, held, call>>
    BY <1>6 DEF PoolAlloc
  <2> QED
    BY <1>2, <1>3, <2>1 DEF ConserveInvariant
<1>7. ASSUME NEW p \in Pools, PoolFree(p) PROVE ConserveInvariant'
  BY <1>2, <1>7, ConservePoolFree DEF ConserveInvariant
<1> QED
  BY <1>4, <1>5, <1>6, <1>7 DEF Next

LEMMA ConserveImplies == ConserveInvariant => ChunksConserved
<1> SUFFICES ASSUME ConserveInvariant PROVE ChunksConserved
  OBVIOUS
<1>1. Typed /\ Apart /\ UsedRight /\ Covered
  BY LocatedIsApart DEF ConserveInvariant, Located
<1> DEFINE lists == UNION {Range(free[pb]) : pb \in DOMAIN free}
           hands == UNION {InHand(t) : t \in Threads}
           all == heap \cup HeldChunks \cup lists \cup hands
<1>2. DOMAIN free = PB
  BY <1>1 DEF Typed, TypeOK
<1>3. ASSUME NEW c \in Chunks PROVE c \in all
  <2>1. PICK z \in Places : c \in In(z)
    BY <1>1 DEF Covered
  <2>2. CASE z = TheHeap
    BY <2>1, <2>2, WhatIsIn
  <2>3. ASSUME NEW h \in Handles, z = With(h) PROVE c \in all
    <3>1. c \in HeldChunks
      BY <2>1, <2>3, WhatIsIn DEF HeldChunks
    <3> QED
      BY <3>1
  <2>4. ASSUME NEW pb \in PB, z = List(pb) PROVE c \in all
    BY <1>2, <2>1, <2>4, WhatIsIn
  <2>5. ASSUME NEW t \in Threads, z = WorkOf(t) \/ z = KeptOf(t) PROVE c \in all
    <3>1. c \in InHand(t)
      BY <2>1, <2>5, WhatIsIn DEF InHand
    <3>2. c \in hands
      BY <3>1
    <3> HIDE DEF hands, lists
    <3> QED
      BY <3>2
  <2> QED
    BY <2>2, <2>3, <2>4, <2>5, PlacesAre
<1>4. all \subseteq Chunks
  <2>1. heap \subseteq Chunks /\ HeldChunks \subseteq Chunks
    BY <1>1 DEF Typed, TypeOK, HeldChunks, Handles
  <2>2. \A pb \in PB : Range(free[pb]) \subseteq Chunks
    BY <1>1, RangeIn DEF Typed, TypeOK
  <2>3. ASSUME NEW t \in Threads PROVE InHand(t) \subseteq Chunks
    <3>1. call[t] \in Calls /\ CallOK(call[t])
      BY <1>1, CallTyped
    <3>2. InWork(t) \subseteq Chunks
      BY <3>1 DEF InWork, At, CallOK
    <3>3. Kept(t) \subseteq Chunks
      BY <3>1 DEF Kept, Calls, Handles
    <3> QED
      BY <3>2, <3>3 DEF InHand
  <2>4. lists \subseteq Chunks
    BY <1>2, <2>2
  <2>5. hands \subseteq Chunks
    BY <2>3
  <2> HIDE DEF hands, lists
  <2> QED
    BY <2>1, <2>4, <2>5
<1>5. Chunks = all
  <2> HIDE DEF all
  <2> QED
    BY <1>3, <1>4
<1>6. \A h \in held : h.chunk \in used[<<h.pool, BucketOf(h.size)>>]
  BY <1>1 DEF UsedRight, HomeOf
<1>7. Chunks = heap \cup HeldChunks
                     \cup (UNION {Range(free[pb]) : pb \in DOMAIN free})
                     \cup (UNION {InHand(t) : t \in Threads})
  BY <1>5
<1> HIDE DEF lists, hands, all
<1> QED
  BY <1>1, <1>6, <1>7, Zenon DEF ChunksConserved

(* No two callers have the same memory and no memory is lost, whatever the  *)
(* sizes, the pools and the order of the calls: a chunk is always in the    *)
(* heap, in one free list, with one caller or in one call, although a free  *)
(* puts its chunk in the list before it is done with it.                    *)
THEOREM Conserved == Spec => []ChunksConserved
<1>1. Spec => []ConserveInvariant
  BY ConserveInit, ConserveStep, PTL DEF Spec
<1> QED
  BY <1>1, ConserveImplies, PTL

-----------------------------------------------------------------------------
(* The totals.  What a call still owes the totals of its pool is a weight   *)
(* of that call; a step of the call changes the sum by the change of its    *)
(* weight.                                                                  *)
Using == {"fill", "add"}
Leaving == {"mark", "subtract"}

Weight(c, p, labels) == IF c.pool = p /\ c.at \in labels THEN c.size ELSE 0
Unit(c, p, labels) == IF c.pool = p /\ c.at \in labels THEN 1 ELSE 0

LEMMA WeightType ==
  ASSUME NEW c \in Calls, NEW p, NEW labels
  PROVE  Weight(c, p, labels) \in Nat /\ Unit(c, p, labels) \in Nat
BY DEF Weight, Unit, Calls

LEMMA UntoldIs ==
  ASSUME Typed, NEW p, NEW labels
  PROVE  /\ SizeOf(Untold(p, labels))
              = SumFunction([t \in Threads |-> Weight(call[t], p, labels)])
         /\ Untold(p, labels) \subseteq Threads
         /\ IsFiniteSet(Untold(p, labels))
         /\ \A t \in Threads : t \in Untold(p, labels) <=> Unit(call[t], p, labels) = 1
<1>1. [t \in Threads |-> IF t \in Untold(p, labels) THEN call[t].size ELSE 0]
        = [t \in Threads |-> Weight(call[t], p, labels)]
  BY DEF Untold, Weight
<1>2. IsFiniteSet(Untold(p, labels)) /\ Untold(p, labels) \subseteq Threads
  BY FiniteAssumption, FS_Subset DEF Untold
<1>3. \A t \in Threads : t \in Untold(p, labels) <=> Unit(call[t], p, labels) = 1
  BY DEF Untold, Unit
<1> QED
  BY <1>1, <1>2, <1>3 DEF SizeOf

LEMMA UntoldStep ==
  ASSUME Typed, Typed', NEW t \in Threads, \A u \in Threads \ {t} : call'[u] = call[u],
         NEW p, NEW labels
  PROVE  /\ SizeOf(Untold(p, labels)) \in Int /\ Cardinality(Untold(p, labels)) \in Int
         /\ SizeOf(Untold(p, labels))' = SizeOf(Untold(p, labels))
              + (Weight(call'[t], p, labels) - Weight(call[t], p, labels))
         /\ Cardinality(Untold(p, labels))' = Cardinality(Untold(p, labels))
              + (Unit(call'[t], p, labels) - Unit(call[t], p, labels))
<1> DEFINE f == [u \in Threads |-> Weight(call[u], p, labels)]
           g == [u \in Threads |-> Weight(call'[u], p, labels)]
           S == Untold(p, labels)
           T == Untold(p, labels)'
<1>1. /\ SizeOf(S) = SumFunction(f) /\ S \subseteq Threads /\ IsFiniteSet(S)
      /\ \A u \in Threads : u \in S <=> Unit(call[u], p, labels) = 1
  BY UntoldIs
<1>2. /\ SizeOf(S)' = SumFunction(g) /\ T \subseteq Threads
      /\ \A u \in Threads : u \in T <=> Unit(call'[u], p, labels) = 1
  <2>1. [u \in Threads |-> IF u \in Untold(p, labels) THEN call[u].size ELSE 0]' = g
    BY DEF Untold, Weight
  <2>2. T \subseteq Threads /\ \A u \in Threads : u \in T <=> Unit(call'[u], p, labels) = 1
    BY DEF Untold, Unit
  <2> QED
    BY <2>1, <2>2 DEF SizeOf
<1>3. /\ \A u \in Threads : call[u] \in Calls /\ call'[u] \in Calls
  BY DEF Typed, TypeOK
<1>4. f \in [Threads -> Int] /\ g \in [Threads -> Int] /\ \A u \in Threads \ {t} : g[u] = f[u]
  BY <1>3, WeightType
<1>5. /\ SumFunction(f) \in Int /\ SumFunction(g) = SumFunction(f) + (g[t] - f[t])
  <2> HIDE DEF f, g
  <2> QED
    BY <1>4, FiniteAssumption, SumDiffers
<1>6. Cardinality(S) \in Int
      /\ Cardinality(T) = Cardinality(S) + (Unit(call'[t], p, labels) - Unit(call[t], p, labels))
  <2>1. T \ {t} = S \ {t}
    BY <1>1, <1>2
  <2>2. /\ Unit(call'[t], p, labels) = IF t \in T THEN 1 ELSE 0
        /\ Unit(call[t], p, labels) = IF t \in S THEN 1 ELSE 0
    BY <1>1, <1>2 DEF Unit
  <2>3. Cardinality(S) \in Nat
    BY <1>1, FS_CardinalityType
  <2>0. S \subseteq Threads /\ T \subseteq Threads /\ IsFiniteSet(S)
    BY <1>1, <1>2
  <2> HIDE DEF S, T
  <2>4. CASE (t \in S /\ t \in T) \/ (t \notin S /\ t \notin T)
    <3>1. S = T
      BY <2>1, <2>4
    <3> QED
      BY <2>2, <2>3, <2>4, <3>1
  <2>5. CASE t \notin S /\ t \in T
    <3>1. T = S \cup {t}
      BY <2>1, <2>5
    <3>2. Cardinality(T) = Cardinality(S) + 1
      BY <2>0, <2>5, <3>1, FS_AddElement
    <3> QED
      BY <2>2, <2>3, <2>5, <3>2
  <2>6. CASE t \in S /\ t \notin T
    <3>1. T = S \ {t}
      BY <2>1, <2>6
    <3>2. Cardinality(T) = Cardinality(S) - 1
      BY <2>0, <2>6, <3>1, FS_RemoveElement
    <3> QED
      BY <2>2, <2>3, <2>6, <3>2
  <2> QED
    BY <2>4, <2>5, <2>6
<1> QED
  BY <1>1, <1>2, <1>5, <1>6

LEMMA SumStep ==
  ASSUME NEW f \in [PB -> Int], NEW g \in [PB -> Int], NEW b \in PB,
         \A pb \in PB \ {b} : g[pb] = f[pb], NEW p \in Pools
  PROVE  /\ Sum(f, p) \in Int
         /\ Sum(g, p) = Sum(f, p) + (IF b[1] = p THEN g[b] - f[b] ELSE 0)
<1> DEFINE F == [k \in Buckets |-> f[<<p, k>>]]
           G == [k \in Buckets |-> g[<<p, k>>]]
<1>1. \A k \in Buckets : <<p, k>> \in PB
  BY DEF PB
<1>2. b[1] \in Pools /\ b[2] \in Buckets /\ b = <<b[1], b[2]>>
  BY DEF PB
<1>3. F \in [Buckets -> Int] /\ G \in [Buckets -> Int]
  BY <1>1
<1>4. \A k \in Buckets \ {b[2]} : G[k] = F[k]
  BY <1>1, <1>2
<1>5. /\ Sum(f, p) = SumFunction(F) /\ Sum(g, p) = SumFunction(G)
  BY DEF Sum
<1>6. G[b[2]] - F[b[2]] = IF b[1] = p THEN g[b] - f[b] ELSE 0
  <2>1. CASE b[1] = p
    BY <1>2, <2>1
  <2>2. CASE b[1] # p
    <3>1. <<p, b[2]>> # b /\ <<p, b[2]>> \in PB
      BY <1>1, <1>2, <2>2
    <3>2. g[<<p, b[2]>>] = f[<<p, b[2]>>] /\ f[<<p, b[2]>>] \in Int
      BY <3>1
    <3> QED
      BY <1>2, <2>2, <3>2
  <2> QED
    BY <2>1, <2>2
<1> HIDE DEF F, G
<1>7. SumFunction(F) \in Int /\ SumFunction(G) = SumFunction(F) + (G[b[2]] - F[b[2]])
  BY <1>2, <1>3, <1>4, BucketsFinite, SumDiffers
<1> QED
  BY <1>5, <1>6, <1>7

LEMMA SumZero ==
  ASSUME NEW f \in [PB -> Int], NEW p \in Pools, \A k \in Buckets : f[<<p, k>>] = 0
  PROVE  Sum(f, p) = 0
<1> DEFINE F == [k \in Buckets |-> f[<<p, k>>]]
<1>1. F \in [Buckets -> Int] /\ \A k \in Buckets : F[k] = 0
  OBVIOUS
<1>2. Sum(f, p) = SumFunction(F)
  BY DEF Sum
<1> HIDE DEF F
<1> QED
  BY <1>1, <1>2, BucketsFinite, SumOfZeros

LEMMA SumIsInt == ASSUME NEW f \in [PB -> Int], NEW p \in Pools PROVE Sum(f, p) \in Int
<1>1. CASE Buckets = {}
  BY <1>1, SumZero
<1>2. CASE Buckets # {}
  <2>1. PICK k \in Buckets : TRUE
    BY <1>2
  <2>2. <<p, k>> \in PB
    BY DEF PB
  <2> QED
    BY <2>2, SumStep
<1> QED
  BY <1>1, <1>2

LEMMA UntoldNone ==
  ASSUME Typed, NEW p, NEW labels, \A t \in Threads : call[t].pool # p
  PROVE  SizeOf(Untold(p, labels)) = 0 /\ Cardinality(Untold(p, labels)) = 0
<1> DEFINE f == [t \in Threads |-> Weight(call[t], p, labels)]
<1>1. SizeOf(Untold(p, labels)) = SumFunction(f)
  BY UntoldIs
<1>2. f \in [Threads -> Int] /\ \A t \in Threads : f[t] = 0
  BY DEF Weight
<1>3. Untold(p, labels) = {}
  BY DEF Untold
<1> HIDE DEF f
<1>4. SumFunction(f) = 0
  BY <1>2, FiniteAssumption, SumOfZeros
<1> QED
  BY <1>1, <1>3, <1>4, FS_EmptySet

SizeBalance(p) ==
    size[p] = Sum(used_size, p) - SizeOf(Untold(p, Using)) + SizeOf(Untold(p, Leaving))
CountBalance(p) ==
    element_count[p] = Sum(used_count, p) - Cardinality(Untold(p, Using))
                       + Cardinality(Untold(p, Leaving))
Balanced == \A p \in Pools : SizeBalance(p) /\ CountBalance(p)

LEMMA BalanceStep ==
  ASSUME Typed, Typed', Balanced, NEW t \in Threads, Others(t),
         NEW du \in [Pools -> Int], NEW dc \in [Pools -> Int],
         \A p \in Pools : /\ Sum(used_size', p) = Sum(used_size, p) + du[p]
                          /\ Sum(used_count', p) = Sum(used_count, p) + dc[p],
         \A p \in Pools :
           /\ size'[p] = size[p] + du[p]
                - (Weight(call'[t], p, Using) - Weight(call[t], p, Using))
                + (Weight(call'[t], p, Leaving) - Weight(call[t], p, Leaving))
           /\ element_count'[p] = element_count[p] + dc[p]
                - (Unit(call'[t], p, Using) - Unit(call[t], p, Using))
                + (Unit(call'[t], p, Leaving) - Unit(call[t], p, Leaving))
  PROVE  Balanced'
<1> SUFFICES ASSUME NEW p \in Pools PROVE SizeBalance(p)' /\ CountBalance(p)'
  BY DEF Balanced
<1>1. \A u \in Threads \ {t} : call'[u] = call[u]
  BY DEF Others
<1>2. call[t] \in Calls /\ call'[t] \in Calls
  BY DEF Typed, TypeOK
<1>3. /\ Weight(call[t], p, Using) \in Int /\ Weight(call'[t], p, Using) \in Int
      /\ Weight(call[t], p, Leaving) \in Int /\ Weight(call'[t], p, Leaving) \in Int
      /\ Unit(call[t], p, Using) \in Int /\ Unit(call'[t], p, Using) \in Int
      /\ Unit(call[t], p, Leaving) \in Int /\ Unit(call'[t], p, Leaving) \in Int
  BY <1>2, WeightType
<1>4. /\ Sum(used_size, p) \in Int /\ Sum(used_count, p) \in Int
      /\ size[p] \in Int /\ element_count[p] \in Int /\ du[p] \in Int /\ dc[p] \in Int
  BY SumIsInt DEF Typed, TypeOK
<1>5. Sum(used_size, p)' = Sum(used_size', p) /\ Sum(used_count, p)' = Sum(used_count', p)
  BY DEF Sum
<1>6. SizeBalance(p)'
  <2>1. size[p] = Sum(used_size, p) - SizeOf(Untold(p, Using)) + SizeOf(Untold(p, Leaving))
    BY DEF Balanced, SizeBalance
  <2>2. /\ SizeOf(Untold(p, Using)) \in Int
        /\ SizeOf(Untold(p, Using))' = SizeOf(Untold(p, Using))
              + (Weight(call'[t], p, Using) - Weight(call[t], p, Using))
    BY <1>1, UntoldStep
  <2>3. /\ SizeOf(Untold(p, Leaving)) \in Int
        /\ SizeOf(Untold(p, Leaving))' = SizeOf(Untold(p, Leaving))
              + (Weight(call'[t], p, Leaving) - Weight(call[t], p, Leaving))
    BY <1>1, UntoldStep
  <2>4. size'[p] = Sum(used_size, p)' - SizeOf(Untold(p, Using))' + SizeOf(Untold(p, Leaving))'
    BY <1>3, <1>4, <1>5, <2>1, <2>2, <2>3
  <2> QED
    BY <2>4 DEF SizeBalance
<1>7. CountBalance(p)'
  <2>1. element_count[p] = Sum(used_count, p) - Cardinality(Untold(p, Using))
                           + Cardinality(Untold(p, Leaving))
    BY DEF Balanced, CountBalance
  <2>2. /\ Cardinality(Untold(p, Using)) \in Int
        /\ Cardinality(Untold(p, Using))' = Cardinality(Untold(p, Using))
              + (Unit(call'[t], p, Using) - Unit(call[t], p, Using))
    BY <1>1, UntoldStep
  <2>3. /\ Cardinality(Untold(p, Leaving)) \in Int
        /\ Cardinality(Untold(p, Leaving))' = Cardinality(Untold(p, Leaving))
              + (Unit(call'[t], p, Leaving) - Unit(call[t], p, Leaving))
    BY <1>1, UntoldStep
  <2>4. element_count'[p] = Sum(used_count, p)' - Cardinality(Untold(p, Using))'
                            + Cardinality(Untold(p, Leaving))'
    BY <1>3, <1>4, <1>5, <2>1, <2>2, <2>3
  <2> QED
    BY <2>4 DEF CountBalance
<1> QED
  BY <1>6, <1>7

(* Steps that change no total, and those that change one.                   *)
LEMMA BalanceQuiet ==
  ASSUME Typed, Typed', Balanced, NEW t \in Threads, Others(t),
         UNCHANGED <<size, element_count, used_size, used_count>>,
         \A labels \in {Using, Leaving} :
           /\ call[t].at \in labels <=> call'[t].at \in labels
           /\ call[t].at \in labels =>
                call'[t].pool = call[t].pool /\ call'[t].size = call[t].size
  PROVE  Balanced'
<1> DEFINE d == [p \in Pools |-> 0]
<1>1. call[t] \in Calls /\ call'[t] \in Calls
  BY DEF Typed, TypeOK
<1>2. \A p \in Pools : Sum(used_size, p) \in Int /\ Sum(used_count, p) \in Int
                       /\ size[p] \in Int /\ element_count[p] \in Int
  BY SumIsInt DEF Typed, TypeOK
<1>3. \A p \in Pools : \A labels \in {Using, Leaving} :
        /\ Weight(call'[t], p, labels) = Weight(call[t], p, labels)
        /\ Unit(call'[t], p, labels) = Unit(call[t], p, labels)
  BY DEF Weight, Unit
<1>4. \A p \in Pools : \A labels \in {Using, Leaving} :
        Weight(call[t], p, labels) \in Int /\ Unit(call[t], p, labels) \in Int
  BY <1>1, WeightType
<1>5. d \in [Pools -> Int] /\ \A p \in Pools : d[p] = 0
  OBVIOUS
<1> HIDE DEF d
<1>6. \A p \in Pools : /\ Sum(used_size', p) = Sum(used_size, p) + d[p]
                       /\ Sum(used_count', p) = Sum(used_count, p) + d[p]
  BY <1>2, <1>5
<1>7. \A p \in Pools :
           /\ size'[p] = size[p] + d[p]
                - (Weight(call'[t], p, Using) - Weight(call[t], p, Using))
                + (Weight(call'[t], p, Leaving) - Weight(call[t], p, Leaving))
           /\ element_count'[p] = element_count[p] + d[p]
                - (Unit(call'[t], p, Using) - Unit(call[t], p, Using))
                + (Unit(call'[t], p, Leaving) - Unit(call[t], p, Leaving))
  BY <1>2, <1>3, <1>4, <1>5
<1> QED
  BY <1>5, <1>6, <1>7, BalanceStep

\* How the weights of a call change.
Shift(t, p) == (Weight(call'[t], p, Leaving) - Weight(call[t], p, Leaving))
               - (Weight(call'[t], p, Using) - Weight(call[t], p, Using))
UnitShift(t, p) == (Unit(call'[t], p, Leaving) - Unit(call[t], p, Leaving))
                   - (Unit(call'[t], p, Using) - Unit(call[t], p, Using))

LEMMA BalanceTold ==
  ASSUME Typed, Typed', Balanced, NEW t \in Threads, Others(t),
         NEW du \in [Pools -> Int], NEW dc \in [Pools -> Int],
         \A p \in Pools : Shift(t, p) = - du[p] /\ UnitShift(t, p) = - dc[p],
         \/ /\ UNCHANGED <<used_size, used_count>>
            /\ \A p \in Pools : /\ size'[p] = size[p] - du[p]
                                /\ element_count'[p] = element_count[p] - dc[p]
         \/ /\ UNCHANGED <<size, element_count>>
            /\ \A p \in Pools : /\ Sum(used_size', p) = Sum(used_size, p) + du[p]
                                /\ Sum(used_count', p) = Sum(used_count, p) + dc[p]
  PROVE  Balanced'
<1>1. call[t] \in Calls /\ call'[t] \in Calls
  BY DEF Typed, TypeOK
<1>2. \A p \in Pools : \A labels \in {Using, Leaving} :
        /\ Weight(call[t], p, labels) \in Int /\ Unit(call[t], p, labels) \in Int
        /\ Weight(call'[t], p, labels) \in Int /\ Unit(call'[t], p, labels) \in Int
  BY <1>1, WeightType
<1>3. \A p \in Pools : /\ Sum(used_size, p) \in Int /\ Sum(used_count, p) \in Int
                       /\ size[p] \in Int /\ element_count[p] \in Int
                       /\ du[p] \in Int /\ dc[p] \in Int
  BY SumIsInt DEF Typed, TypeOK
<1>0. ASSUME NEW p \in Pools
      PROVE  /\ Weight(call[t], p, Using) \in Int /\ Weight(call'[t], p, Using) \in Int
             /\ Weight(call[t], p, Leaving) \in Int /\ Weight(call'[t], p, Leaving) \in Int
             /\ Unit(call[t], p, Using) \in Int /\ Unit(call'[t], p, Using) \in Int
             /\ Unit(call[t], p, Leaving) \in Int /\ Unit(call'[t], p, Leaving) \in Int
             /\ du[p] \in Int /\ dc[p] \in Int
             /\ size[p] \in Int /\ element_count[p] \in Int
  BY <1>2, <1>3
<1>4. ASSUME NEW p \in Pools
      PROVE  /\ (Weight(call'[t], p, Leaving) - Weight(call[t], p, Leaving))
                  - (Weight(call'[t], p, Using) - Weight(call[t], p, Using)) = - du[p]
             /\ (Unit(call'[t], p, Leaving) - Unit(call[t], p, Leaving))
                  - (Unit(call'[t], p, Using) - Unit(call[t], p, Using)) = - dc[p]
  BY DEF Shift, UnitShift
<1>5. CASE /\ UNCHANGED <<used_size, used_count>>
           /\ \A p \in Pools : /\ size'[p] = size[p] - du[p]
                               /\ element_count'[p] = element_count[p] - dc[p]
  <2> DEFINE d == [p \in Pools |-> 0]
  <2>1. d \in [Pools -> Int] /\ \A p \in Pools : d[p] = 0
    OBVIOUS
  <2> HIDE DEF d
  <2>2. \A p \in Pools : /\ Sum(used_size', p) = Sum(used_size, p) + d[p]
                         /\ Sum(used_count', p) = Sum(used_count, p) + d[p]
    BY <1>3, <1>5, <2>1
  <2>3. ASSUME NEW p \in Pools
       PROVE  /\ size'[p] = size[p] + d[p]
                   - (Weight(call'[t], p, Using) - Weight(call[t], p, Using))
                   + (Weight(call'[t], p, Leaving) - Weight(call[t], p, Leaving))
              /\ element_count'[p] = element_count[p] + d[p]
                   - (Unit(call'[t], p, Using) - Unit(call[t], p, Using))
                   + (Unit(call'[t], p, Leaving) - Unit(call[t], p, Leaving))
    <3>1. /\ Weight(call[t], p, Using) \in Int /\ Weight(call'[t], p, Using) \in Int
          /\ Weight(call[t], p, Leaving) \in Int /\ Weight(call'[t], p, Leaving) \in Int
          /\ Unit(call[t], p, Using) \in Int /\ Unit(call'[t], p, Using) \in Int
          /\ Unit(call[t], p, Leaving) \in Int /\ Unit(call'[t], p, Leaving) \in Int
          /\ du[p] \in Int /\ dc[p] \in Int
          /\ size[p] \in Int /\ element_count[p] \in Int
      BY <1>0
    <3>2. /\ (Weight(call'[t], p, Leaving) - Weight(call[t], p, Leaving))
               - (Weight(call'[t], p, Using) - Weight(call[t], p, Using)) = - du[p]
          /\ (Unit(call'[t], p, Leaving) - Unit(call[t], p, Leaving))
               - (Unit(call'[t], p, Using) - Unit(call[t], p, Using)) = - dc[p]
      BY <1>4
    <3>3. size'[p] = size[p] - du[p] /\ element_count'[p] = element_count[p] - dc[p] /\ d[p] = 0
      BY <1>5, <2>1
    <3> QED
      BY <3>1, <3>2, <3>3
  <2> QED
    BY <2>1, <2>2, <2>3, BalanceStep
<1>6. CASE /\ UNCHANGED <<size, element_count>>
           /\ \A p \in Pools : /\ Sum(used_size', p) = Sum(used_size, p) + du[p]
                               /\ Sum(used_count', p) = Sum(used_count, p) + dc[p]
  <2>1. ASSUME NEW p \in Pools
       PROVE  /\ size'[p] = size[p] + du[p]
                   - (Weight(call'[t], p, Using) - Weight(call[t], p, Using))
                   + (Weight(call'[t], p, Leaving) - Weight(call[t], p, Leaving))
              /\ element_count'[p] = element_count[p] + dc[p]
                   - (Unit(call'[t], p, Using) - Unit(call[t], p, Using))
                   + (Unit(call'[t], p, Leaving) - Unit(call[t], p, Leaving))
    <3>1. /\ Weight(call[t], p, Using) \in Int /\ Weight(call'[t], p, Using) \in Int
          /\ Weight(call[t], p, Leaving) \in Int /\ Weight(call'[t], p, Leaving) \in Int
          /\ Unit(call[t], p, Using) \in Int /\ Unit(call'[t], p, Using) \in Int
          /\ Unit(call[t], p, Leaving) \in Int /\ Unit(call'[t], p, Leaving) \in Int
          /\ du[p] \in Int /\ dc[p] \in Int
          /\ size[p] \in Int /\ element_count[p] \in Int
      BY <1>0
    <3>2. /\ (Weight(call'[t], p, Leaving) - Weight(call[t], p, Leaving))
               - (Weight(call'[t], p, Using) - Weight(call[t], p, Using)) = - du[p]
          /\ (Unit(call'[t], p, Leaving) - Unit(call[t], p, Leaving))
               - (Unit(call'[t], p, Using) - Unit(call[t], p, Using)) = - dc[p]
      BY <1>4
    <3>3. size'[p] = size[p] /\ element_count'[p] = element_count[p]
      BY <1>6
    <3>4. size'[p] = size[p] + du[p]
                   - (Weight(call'[t], p, Using) - Weight(call[t], p, Using))
                   + (Weight(call'[t], p, Leaving) - Weight(call[t], p, Leaving))
      BY <3>1, <3>2, <3>3
    <3>5. element_count'[p] = element_count[p] + dc[p]
                   - (Unit(call'[t], p, Using) - Unit(call[t], p, Using))
                   + (Unit(call'[t], p, Leaving) - Unit(call[t], p, Leaving))
      BY <3>1, <3>2, <3>3
    <3> QED
      BY <3>4, <3>5
  <2> QED
    BY <1>6, <2>1, BalanceStep
<1> QED
  BY <1>5, <1>6

(* A chunk is counted in its bucket when it is taken and not when it is     *)
(* released, and in the totals later.                                       *)
LEMMA BalanceBucket ==
  ASSUME Typed, Typed', Balanced, NEW t \in Threads, Others(t), Same(t),
         NEW b \in PB, b[1] = call[t].pool, NEW s \in Nat, s = call[t].size,
         UNCHANGED <<size, element_count>>,
         \/ /\ call[t].at = "take" /\ call'[t].at = "fill"
            /\ used_size' = [used_size EXCEPT ![b] = @ + s]
            /\ used_count' = [used_count EXCEPT ![b] = @ + 1]
         \/ /\ call[t].at = "release" /\ call'[t].at = "mark"
            /\ used_size' = [used_size EXCEPT ![b] = @ - s]
            /\ used_count' = [used_count EXCEPT ![b] = @ - 1]
  PROVE  Balanced'
<1>1. /\ used_size \in [PB -> Int] /\ used_size' \in [PB -> Int]
      /\ used_count \in [PB -> Int] /\ used_count' \in [PB -> Int]
  BY DEF Typed, TypeOK
<1>2. /\ \A pb \in PB \ {b} : used_size'[pb] = used_size[pb] /\ used_count'[pb] = used_count[pb]
  BY <1>1
<1>3. used_size[b] \in Int /\ used_count[b] \in Int
  BY <1>1
<1> DEFINE du == [p \in Pools |-> IF b[1] = p THEN used_size'[b] - used_size[b] ELSE 0]
           dc == [p \in Pools |-> IF b[1] = p THEN used_count'[b] - used_count[b] ELSE 0]
<1>4. \A p \in Pools : /\ Sum(used_size', p) = Sum(used_size, p) + du[p]
                       /\ Sum(used_count', p) = Sum(used_count, p) + dc[p]
  BY <1>1, <1>2, SumStep
<1>5. \A p \in Pools : Shift(t, p) = - du[p] /\ UnitShift(t, p) = - dc[p]
  <2> SUFFICES ASSUME NEW p \in Pools PROVE Shift(t, p) = - du[p] /\ UnitShift(t, p) = - dc[p]
    OBVIOUS
  <2>1. CASE call[t].at = "take"
    <3>1. /\ call'[t].at = "fill" /\ call'[t].pool = b[1] /\ call'[t].size = s
          /\ used_size'[b] - used_size[b] = s /\ used_count'[b] - used_count[b] = 1
      BY <1>1, <1>3, <2>1 DEF Same
    <3>2. /\ Weight(call[t], p, Using) = 0 /\ Weight(call[t], p, Leaving) = 0
          /\ Unit(call[t], p, Using) = 0 /\ Unit(call[t], p, Leaving) = 0
          /\ Weight(call'[t], p, Leaving) = 0 /\ Unit(call'[t], p, Leaving) = 0
          /\ Weight(call'[t], p, Using) = (IF b[1] = p THEN s ELSE 0)
          /\ Unit(call'[t], p, Using) = (IF b[1] = p THEN 1 ELSE 0)
      BY <2>1, <3>1 DEF Weight, Unit, Using, Leaving
    <3>3. du[p] = (IF b[1] = p THEN s ELSE 0) /\ dc[p] = (IF b[1] = p THEN 1 ELSE 0)
      BY <3>1
    <3> HIDE DEF du, dc
    <3> QED
      BY <3>2, <3>3 DEF Shift, UnitShift
  <2>2. CASE call[t].at = "release"
    <3>1. /\ call'[t].at = "mark" /\ call'[t].pool = b[1] /\ call'[t].size = s
          /\ used_size'[b] - used_size[b] = - s /\ used_count'[b] - used_count[b] = -1
      BY <1>1, <1>3, <2>2 DEF Same
    <3>2. /\ Weight(call[t], p, Using) = 0 /\ Weight(call[t], p, Leaving) = 0
          /\ Unit(call[t], p, Using) = 0 /\ Unit(call[t], p, Leaving) = 0
          /\ Weight(call'[t], p, Using) = 0 /\ Unit(call'[t], p, Using) = 0
          /\ Weight(call'[t], p, Leaving) = (IF b[1] = p THEN s ELSE 0)
          /\ Unit(call'[t], p, Leaving) = (IF b[1] = p THEN 1 ELSE 0)
      BY <2>2, <3>1 DEF Weight, Unit, Using, Leaving
    <3>3. du[p] = (IF b[1] = p THEN - s ELSE 0) /\ dc[p] = (IF b[1] = p THEN -1 ELSE 0)
      BY <3>1
    <3> HIDE DEF du, dc
    <3> QED
      BY <3>2, <3>3 DEF Shift, UnitShift
  <2> QED
    BY <2>1, <2>2
<1>6. du \in [Pools -> Int] /\ dc \in [Pools -> Int]
  BY <1>1
<1> HIDE DEF du, dc
<1> QED
  BY <1>4, <1>5, <1>6, BalanceTold

LEMMA BalanceTotals ==
  ASSUME Typed, Typed', Balanced, NEW t \in Threads, Others(t),
         NEW q \in Pools, q = call[t].pool, NEW s \in Nat, s = call[t].size,
         call'[t].at \in {"idle", "release"},
         UNCHANGED <<used_size, used_count>>,
         \/ /\ call[t].at = "add"
            /\ size' = [size EXCEPT ![q] = @ + s]
            /\ element_count' = [element_count EXCEPT ![q] = @ + 1]
         \/ /\ call[t].at = "subtract"
            /\ size' = [size EXCEPT ![q] = @ - s]
            /\ element_count' = [element_count EXCEPT ![q] = @ - 1]
  PROVE  Balanced'
<1>1. size \in [Pools -> Int] /\ element_count \in [Pools -> Int]
  BY DEF Typed, TypeOK
<1> DEFINE du == [p \in Pools |-> IF p = q THEN (IF call[t].at = "add" THEN - s ELSE s) ELSE 0]
           dc == [p \in Pools |-> IF p = q THEN (IF call[t].at = "add" THEN -1 ELSE 1) ELSE 0]
<1>2. \A p \in Pools : /\ size'[p] = size[p] - du[p]
                       /\ element_count'[p] = element_count[p] - dc[p]
  BY <1>1
<1>3. \A p \in Pools : Shift(t, p) = - du[p] /\ UnitShift(t, p) = - dc[p]
  <2> SUFFICES ASSUME NEW p \in Pools PROVE Shift(t, p) = - du[p] /\ UnitShift(t, p) = - dc[p]
    OBVIOUS
  <2>1. /\ Weight(call'[t], p, Using) = 0 /\ Weight(call'[t], p, Leaving) = 0
        /\ Unit(call'[t], p, Using) = 0 /\ Unit(call'[t], p, Leaving) = 0
    BY DEF Weight, Unit, Using, Leaving
  <2>2. CASE call[t].at = "add"
    <3>1. /\ Weight(call[t], p, Using) = (IF p = q THEN s ELSE 0)
          /\ Unit(call[t], p, Using) = (IF p = q THEN 1 ELSE 0)
          /\ Weight(call[t], p, Leaving) = 0 /\ Unit(call[t], p, Leaving) = 0
      BY <2>2 DEF Weight, Unit, Using, Leaving
    <3>2. du[p] = (IF p = q THEN - s ELSE 0) /\ dc[p] = (IF p = q THEN -1 ELSE 0)
      BY <2>2
    <3> HIDE DEF du, dc
    <3> QED
      BY <2>1, <3>1, <3>2 DEF Shift, UnitShift
  <2>3. CASE call[t].at = "subtract"
    <3>1. /\ Weight(call[t], p, Leaving) = (IF p = q THEN s ELSE 0)
          /\ Unit(call[t], p, Leaving) = (IF p = q THEN 1 ELSE 0)
          /\ Weight(call[t], p, Using) = 0 /\ Unit(call[t], p, Using) = 0
      BY <2>3 DEF Weight, Unit, Using, Leaving
    <3>2. du[p] = (IF p = q THEN s ELSE 0) /\ dc[p] = (IF p = q THEN 1 ELSE 0)
      BY <2>3
    <3> HIDE DEF du, dc
    <3> QED
      BY <2>1, <3>1, <3>2 DEF Shift, UnitShift
  <2> QED
    BY <2>2, <2>3
<1>4. du \in [Pools -> Int] /\ dc \in [Pools -> Int]
  OBVIOUS
<1> HIDE DEF du, dc
<1> QED
  BY <1>2, <1>3, <1>4, BalanceTold

-----------------------------------------------------------------------------
(* The sizes of chunks: a call writes the size of the chunk in its hands    *)
(* only, so that a chunk that was handed out keeps its size.                *)
WrittenRight(t) ==
    /\ call[t].at \in {"add", "release"} => chunk_size[call[t].chunk] = call[t].size
    /\ \A h \in call[t].old \cup call[t].new : chunk_size[h.chunk] = h.size
Written ==
    /\ \A t \in Threads : WrittenRight(t)
    /\ \A h \in held : chunk_size[h.chunk] = h.size

LEMMA WrittenElse ==
  ASSUME Typed, Apart, Written, NEW t \in Threads, Others(t),
         \A c \in Chunks \ InWork(t) : chunk_size'[c] = chunk_size[c]
  PROVE  /\ \A u \in Threads \ {t} : WrittenRight(u)'
         /\ \A h \in held \cup call[t].old \cup call[t].new : chunk_size'[h.chunk] = h.size
<1>1. ASSUME NEW u \in Threads \ {t} PROVE WrittenRight(u)'
  <2>1. call'[u] = call[u] /\ call[u] \in Calls /\ CallOK(call[u]) /\ WrittenRight(u)
    BY <1>1, CallTyped DEF Others, Written
  <2>2. InHand(u) \cap InWork(t) = {}
    BY <1>1 DEF Apart, InHand
  <2>3. ASSUME call[u].at \in {"add", "release"} PROVE chunk_size'[call[u].chunk] = call[u].size
    <3>1. call[u].chunk \in InHand(u) /\ call[u].chunk \in Chunks
      BY <2>1, <2>3 DEF InHand, InWork, At, CallOK
    <3> QED
      BY <2>1, <2>2, <2>3, <3>1 DEF WrittenRight
  <2>4. ASSUME NEW h \in call[u].old \cup call[u].new PROVE chunk_size'[h.chunk] = h.size
    <3>1. h.chunk \in InHand(u) /\ h.chunk \in Chunks
      BY <2>1 DEF Calls, Handles, InHand, Kept
    <3> QED
      BY <2>1, <2>2, <3>1 DEF WrittenRight
  <2> QED
    BY <2>1, <2>3, <2>4 DEF WrittenRight
<1>2. ASSUME NEW h \in held PROVE chunk_size'[h.chunk] = h.size
  <2>1. h.chunk \in Chunks /\ h.chunk \in HeldChunks /\ chunk_size[h.chunk] = h.size
    BY DEF Typed, TypeOK, Handles, HeldChunks, Written
  <2>2. h.chunk \notin InWork(t)
    BY <2>1 DEF Apart, InHand
  <2> QED
    BY <2>1, <2>2
<1>3. ASSUME NEW h \in call[t].old \cup call[t].new PROVE chunk_size'[h.chunk] = h.size
  <2>1. h.chunk \in Chunks /\ h.chunk \in Kept(t) /\ chunk_size[h.chunk] = h.size
    BY CallTyped DEF Calls, Handles, Kept, WrittenRight, Written
  <2>2. h.chunk \notin InWork(t)
    BY <2>1 DEF Apart
  <2> QED
    BY <2>1, <2>2
<1> QED
  BY <1>1, <1>2, <1>3

LEMMA WrittenCall ==
  ASSUME Typed, Typed', Apart, Written, NEW t \in Threads,
         \/ Alloc(t) \/ Realloc(t) \/ TakeFree(t) \/ TakeNew(t) \/ TakeNothing(t)
         \/ Fill(t) \/ Add(t)
         \/ Free(t) \/ Release(t) \/ Mark(t) \/ Subtract(t)
  PROVE  Written'
<1>1. WrittenRight(t) /\ \A h \in held : chunk_size[h.chunk] = h.size
  BY DEF Written
<1>2. ASSUME Others(t), chunk_size' = chunk_size
      PROVE  /\ \A u \in Threads \ {t} : WrittenRight(u)'
             /\ \A h \in held \cup call[t].old \cup call[t].new : chunk_size'[h.chunk] = h.size
  BY <1>2, WrittenElse
<1>3. ASSUME \A u \in Threads \ {t} : WrittenRight(u)', WrittenRight(t)',
             \A h \in held' : chunk_size'[h.chunk] = h.size
      PROVE  Written'
  BY <1>3 DEF Written
<1>4. CASE Alloc(t)
  <2>1. /\ Others(t) /\ UNCHANGED <<chunk_size, held>> /\ call'[t].at = "take"
        /\ call'[t].old = {} /\ call'[t].new = {}
    BY <1>4, MoveAlloc
  <2>2. WrittenRight(t)'
    BY <2>1 DEF WrittenRight
  <2> QED
    BY <1>2, <1>3, <2>1, <2>2
<1>5. CASE Realloc(t)
  <2>1. PICK h \in held : /\ Others(t) /\ UNCHANGED chunk_size /\ held' = held \ {h}
                          /\ call'[t].at = "take" /\ call'[t].old = {h} /\ call'[t].new = {}
    BY <1>5, MoveRealloc
  <2>2. WrittenRight(t)'
    BY <1>1, <2>1 DEF WrittenRight
  <2> QED
    BY <1>2, <1>3, <2>1, <2>2
<1>6. CASE TakeFree(t) \/ TakeNew(t)
  <2>1. PICK c : At(t, "take") /\ Take(t, c) /\ UNCHANGED <<chunk_size, held>>
    BY <1>6 DEF TakeFree, TakeNew
  <2>2. /\ Others(t) /\ call'[t].at = "fill"
        /\ call'[t].old = call[t].old /\ call'[t].new = call[t].new
    BY <2>1, MoveTake DEF Same
  <2>3. WrittenRight(t)'
    BY <1>1, <2>1, <2>2 DEF WrittenRight
  <2> QED
    BY <1>2, <1>3, <2>1, <2>2, <2>3
<1>7. ASSUME call[t].at \in {"take", "add"}, NEW new \in SUBSET Handles, FreeOld(t, new),
             \A h \in new : chunk_size[h.chunk] = h.size, chunk_size' = chunk_size
      PROVE  Others(t) /\ WrittenRight(t)'
  <2>1. /\ Others(t) /\ call'[t].old = {} /\ call'[t].at \in {"idle", "release"}
        /\ call'[t].new = IF call[t].old = {} THEN {} ELSE new
        /\ call[t].old = {} => call'[t].at = "idle"
        /\ call[t].old # {} =>
             \E h \in call[t].old : /\ call'[t].pool = h.pool /\ call'[t].size = h.size
                                    /\ call'[t].chunk = h.chunk
    BY <1>7, MoveFreeOld
  <2>2. ASSUME call'[t].at = "release" PROVE chunk_size'[call'[t].chunk] = call'[t].size
    <3>1. PICK h \in call[t].old : call'[t].size = h.size /\ call'[t].chunk = h.chunk
      BY <2>1, <2>2
    <3> QED
      BY <1>1, <1>7, <3>1 DEF WrittenRight
  <2>3. \A h \in call'[t].old \cup call'[t].new : chunk_size'[h.chunk] = h.size
    BY <1>7, <2>1
  <2> QED
    BY <2>1, <2>2, <2>3 DEF WrittenRight
<1>8. CASE TakeNothing(t)
  <2>1. call[t].at = "take" /\ FreeOld(t, {}) /\ UNCHANGED <<chunk_size, held>>
    BY <1>8 DEF TakeNothing, At
  <2>2. Others(t) /\ WrittenRight(t)'
    BY <1>7, <2>1
  <2> QED
    BY <1>2, <1>3, <2>1, <2>2
<1>9. CASE Add(t)
  <2>1. PICK n \in Handles :
          /\ n.pool = call[t].pool /\ n.chunk = call[t].chunk /\ n.size = call[t].size
          /\ call[t].at = "add" /\ FreeOld(t, {n})
          /\ held' = IF call[t].old = {} THEN held \cup {n} ELSE held
          /\ chunk_size' = chunk_size
    BY <1>9, MoveAdd
  <2>2. chunk_size[n.chunk] = n.size
    BY <1>1, <2>1 DEF WrittenRight
  <2>3. Others(t) /\ WrittenRight(t)'
    BY <1>7, <2>1, <2>2
  <2> QED
    BY <1>2, <1>3, <2>1, <2>2, <2>3
<1>10. CASE Fill(t)
  <2>1. PICK c \in Chunks, s \in Nat :
          /\ Others(t) /\ c = call'[t].chunk /\ s = call'[t].size /\ InWork(t) = {c}
          /\ call'[t].old = call[t].old /\ call'[t].new = call[t].new
          /\ chunk_size' = [chunk_size EXCEPT ![c] = s] /\ held' = held
    BY <1>10, MoveFill DEF Same
  <2>2. chunk_size'[c] = s /\ \A d \in Chunks \ InWork(t) : chunk_size'[d] = chunk_size[d]
    BY <2>1 DEF Typed, TypeOK
  <2>3. /\ \A u \in Threads \ {t} : WrittenRight(u)'
        /\ \A h \in held \cup call[t].old \cup call[t].new : chunk_size'[h.chunk] = h.size
    BY <2>1, <2>2, WrittenElse
  <2>4. WrittenRight(t)'
    BY <2>1, <2>2, <2>3 DEF WrittenRight
  <2> QED
    BY <1>3, <2>1, <2>3, <2>4
<1>11. CASE Free(t)
  <2>1. PICK h \in held :
          /\ Others(t) /\ UNCHANGED chunk_size /\ held' = held \ {h}
          /\ call'[t].size = h.size /\ call'[t].chunk = h.chunk
          /\ call'[t].old = {} /\ call'[t].new = {}
    BY <1>11, MoveFree
  <2>2. WrittenRight(t)'
    BY <1>1, <2>1 DEF WrittenRight
  <2> QED
    BY <1>2, <1>3, <2>1, <2>2
<1>12. CASE Release(t)
  <2>1. Others(t) /\ Same(t) /\ call'[t].at = "mark" /\ UNCHANGED <<chunk_size, held>>
    BY <1>12, MoveRelease DEF Released
  <2>2. WrittenRight(t)'
    BY <1>1, <2>1 DEF WrittenRight, Same
  <2> QED
    BY <1>2, <1>3, <2>1, <2>2
<1>13. CASE Mark(t)
  <2>1. Others(t) /\ Same(t) /\ call'[t].at = "subtract" /\ UNCHANGED <<chunk_size, held>>
    BY <1>13, MoveMark
  <2>2. WrittenRight(t)'
    BY <1>1, <2>1 DEF WrittenRight, Same
  <2> QED
    BY <1>2, <1>3, <2>1, <2>2
<1>14. CASE Subtract(t)
  <2>1. /\ Others(t) /\ UNCHANGED chunk_size /\ call'[t].at = "idle"
        /\ call'[t].old = {} /\ call'[t].new = {} /\ held' = held \cup call[t].new
    BY <1>14, MoveSubtract
  <2>2. WrittenRight(t)'
    BY <2>1 DEF WrittenRight
  <2> QED
    BY <1>2, <1>3, <2>1, <2>2
<1> QED
  BY <1>4, <1>5, <1>6, <1>8, <1>9, <1>10, <1>11, <1>12, <1>13, <1>14

-----------------------------------------------------------------------------
(* What a bucket counts is what its lists have, and the totals follow.      *)
Counted == \A pb \in PB :
    /\ used_count[pb] = Cardinality(used[pb])
    /\ pb[2] > 0 => total_count[pb] = used_count[pb] + Len(free[pb])

LEMMA CountedElse ==
  ASSUME Counted, NEW b \in PB,
         \A pb \in PB \ {b} : /\ used'[pb] = used[pb] /\ free'[pb] = free[pb]
                              /\ used_count'[pb] = used_count[pb]
                              /\ total_count'[pb] = total_count[pb],
         used_count'[b] = Cardinality(used'[b]),
         b[2] > 0 => total_count'[b] = used_count'[b] + Len(free'[b])
  PROVE  Counted'
<1>1. \A pb \in PB \ {b} :
        /\ used_count'[pb] = Cardinality(used'[pb])
        /\ pb[2] > 0 => total_count'[pb] = used_count'[pb] + Len(free'[pb])
  BY DEF Counted
<1> QED
  BY <1>1 DEF Counted

LEMMA TakenIs ==
  ASSUME Typed, NEW t \in Threads, NEW c \in Chunks, NEW b \in PB, b = Bucket(t),
         \A pb \in PB : c \notin used[pb], Take(t, c)
  PROVE  /\ used_count' = [used_count EXCEPT ![b] = @ + 1]
         /\ used_size' = [used_size EXCEPT ![b] = @ + call[t].size]
         /\ used'[b] = used[b] \cup {c}
         /\ Cardinality(used'[b]) = Cardinality(used[b]) + 1
         /\ \A pb \in PB \ {b} : used'[pb] = used[pb]
<1>1. used'[b] = used[b] \cup {c} /\ \A pb \in PB \ {b} : used'[pb] = used[pb]
  BY DEF Take, Typed, TypeOK
<1>2. IsFiniteSet(used[b]) /\ c \notin used[b]
  BY FiniteAssumption, FS_Subset DEF Typed, TypeOK
<1>3. Cardinality(used'[b]) = Cardinality(used[b]) + 1
  BY <1>1, <1>2, FS_AddElement
<1> QED
  BY <1>1, <1>3 DEF Take

LEMMA CountedCall ==
  ASSUME ConserveInvariant, Counted, NEW t \in Threads,
         \/ Alloc(t) \/ Realloc(t) \/ TakeFree(t) \/ TakeNew(t) \/ TakeNothing(t)
         \/ Fill(t) \/ Add(t)
         \/ Free(t) \/ Release(t) \/ Mark(t) \/ Subtract(t)
  PROVE  Counted'
<1>0. Typed /\ Apart /\ UsedRight /\ UsedApart
  BY LocatedIsApart DEF ConserveInvariant
<1>1. /\ used \in [PB -> SUBSET Chunks] /\ free \in [PB -> Seq(Chunks)]
      /\ used_count \in [PB -> Int] /\ total_count \in [PB -> Int]
      /\ \A pb \in PB : Len(free[pb]) \in Nat
  BY <1>0, LenProperties DEF Typed, TypeOK
<1>2. ASSUME UNCHANGED <<used, free, used_count, total_count>> PROVE Counted'
  BY <1>2 DEF Counted
<1>3. CASE Alloc(t) \/ Realloc(t) \/ TakeNothing(t) \/ Fill(t) \/ Add(t) \/ Free(t) \/ Mark(t)
           \/ Subtract(t)
  <2>1. UNCHANGED <<used, free, used_count, total_count>>
    BY <1>3 DEF Alloc, Realloc, TakeNothing, Fill, Add, Free, Mark, Subtract, stats
  <2> QED
    BY <1>2, <2>1
<1>4. CASE TakeFree(t)
  <2>1. PICK c \in Chunks, b \in PB :
          /\ b = Bucket(t) /\ c \in Range(free[b]) /\ Take(t, c)
          /\ free' = [free EXCEPT ![b] = Tail(@)] /\ Len(Tail(free[b])) = Len(free[b]) - 1
          /\ UNCHANGED total_count
    BY <1>0, <1>4, MoveTakeFree
  <2>2. \A pb \in PB : c \notin used[pb]
    BY <1>0, <2>1 DEF UsedApart
  <2>3. /\ used_count' = [used_count EXCEPT ![b] = @ + 1]
        /\ Cardinality(used'[b]) = Cardinality(used[b]) + 1
        /\ \A pb \in PB \ {b} : used'[pb] = used[pb]
    BY <1>0, <2>1, <2>2, TakenIs
  <2>4. /\ used_count'[b] = used_count[b] + 1 /\ free'[b] = Tail(free[b])
        /\ \A pb \in PB \ {b} : used_count'[pb] = used_count[pb] /\ free'[pb] = free[pb]
    BY <1>1, <2>1, <2>3
  <2>5. /\ used_count[b] = Cardinality(used[b]) /\ used_count[b] \in Int /\ Len(free[b]) \in Int
        /\ b[2] > 0 => total_count[b] = used_count[b] + Len(free[b])
    BY <1>1 DEF Counted
  <2>6. used_count'[b] = Cardinality(used'[b])
    BY <2>3, <2>4, <2>5
  <2>7. b[2] > 0 => total_count'[b] = used_count'[b] + Len(free'[b])
    <3>1. Len(free'[b]) = Len(free[b]) - 1 /\ total_count'[b] = total_count[b]
      BY <2>1, <2>4
    <3> QED
      BY <2>4, <2>5, <3>1
  <2> QED
    BY <2>1, <2>3, <2>4, <2>6, <2>7, CountedElse
<1>5. CASE TakeNew(t)
  <2>1. PICK c \in heap, b \in PB :
          /\ b = Bucket(t) /\ Take(t, c) /\ total_count' = [total_count EXCEPT ![b] = @ + 1]
          /\ UNCHANGED free
    BY <1>0, <1>5, MoveTakeNew
  <2>2. c \in Chunks /\ \A pb \in PB : c \notin used[pb]
    BY <1>0, <2>1 DEF UsedApart, Typed, TypeOK
  <2>3. /\ used_count' = [used_count EXCEPT ![b] = @ + 1]
        /\ Cardinality(used'[b]) = Cardinality(used[b]) + 1
        /\ \A pb \in PB \ {b} : used'[pb] = used[pb]
    BY <1>0, <2>1, <2>2, TakenIs
  <2>4. /\ used_count'[b] = used_count[b] + 1 /\ total_count'[b] = total_count[b] + 1
        /\ \A pb \in PB \ {b} : /\ used_count'[pb] = used_count[pb]
                                /\ total_count'[pb] = total_count[pb]
    BY <1>1, <2>1, <2>3
  <2>5. /\ used_count[b] = Cardinality(used[b]) /\ used_count[b] \in Int /\ Len(free[b]) \in Int
        /\ total_count[b] \in Int
        /\ b[2] > 0 => total_count[b] = used_count[b] + Len(free[b])
    BY <1>1 DEF Counted
  <2>6. used_count'[b] = Cardinality(used'[b])
    BY <2>3, <2>4, <2>5
  <2>7. b[2] > 0 => total_count'[b] = used_count'[b] + Len(free'[b])
    BY <2>1, <2>4, <2>5
  <2> QED
    BY <2>1, <2>3, <2>4, <2>6, <2>7, CountedElse
<1>6. CASE Release(t)
  <2>0. PICK c \in Chunks, b \in PB : Released(t, c, b)
    BY <1>0, <1>6, MoveRelease
  <2>1.  /\ b = Bucket(t) /\ b = Bucket(t)' /\ b[2] = BucketOf(call[t].size)
         /\ Others(t) /\ Same(t) /\ call[t].at = "release" /\ call'[t].at = "mark"
         /\ c = call[t].chunk /\ c = call'[t].chunk
         /\ InWork(t) = {c} /\ Kept(t)' = Kept(t)
         /\ InWork(t)' = IF b[2] = 0 THEN {c} ELSE {}
         /\ used_count' = [used_count EXCEPT ![b] = @ - 1]
         /\ used_size' = [used_size EXCEPT ![b] = @ - chunk_size[c]]
         /\ used' = [used EXCEPT ![b] = @ \ {c}]
         /\ IF b[2] > 0 THEN /\ free' = [free EXCEPT ![b] = <<c>> \o @]
                             /\ Len(<<c>> \o free[b]) = Len(free[b]) + 1
                             /\ IsInjective(<<c>> \o free[b])
                             /\ Range(<<c>> \o free[b]) = Range(free[b]) \cup {c}
                        ELSE free' = free /\ b[2] = 0
         /\ UNCHANGED <<pools, total_size, total_count, size, element_count, chunk_size, magic,
                        heap, held>>
    BY <2>0 DEF Released
  <2>2. c \in used[b] /\ IsFiniteSet(used[b])
    <3>1. call[t].at = "release" /\ call[t].chunk = c /\ Bucket(t) = b
      BY <2>1
    <3>2. UsesRight(t)
      BY <1>0 DEF UsedRight
    <3>3. c \in used[b]
      BY <3>1, <3>2 DEF UsesRight
    <3>4. used[b] \subseteq Chunks
      BY <1>1
    <3> QED
      BY <3>3, <3>4, FiniteAssumption, FS_Subset
  <2>3. /\ used'[b] = used[b] \ {c} /\ used_count'[b] = used_count[b] - 1
        /\ \A pb \in PB \ {b} : used'[pb] = used[pb] /\ used_count'[pb] = used_count[pb]
    BY <1>1, <2>1
  <2>4. Cardinality(used'[b]) = Cardinality(used[b]) - 1
    <3> DEFINE U == used[b]
    <3>1. c \in U /\ IsFiniteSet(U) /\ used'[b] = U \ {c}
      BY <2>2, <2>3
    <3> HIDE DEF U
    <3>2. Cardinality(U \ {c}) = Cardinality(U) - 1
      BY <3>1, FS_RemoveElement
    <3> QED
      BY <3>1, <3>2 DEF U
  <2>5. /\ \A pb \in PB \ {b} : free'[pb] = free[pb]
        /\ b[2] > 0 => Len(free'[b]) = Len(free[b]) + 1
    <3>1. CASE b[2] > 0
      <4>1. free' = [free EXCEPT ![b] = <<c>> \o @] /\ Len(<<c>> \o free[b]) = Len(free[b]) + 1
        BY <2>1, <3>1
      <4> QED
        BY <1>1, <4>1
    <3>2. CASE ~ (b[2] > 0)
      BY <2>1, <3>2
    <3> QED
      BY <3>1, <3>2
  <2>6. /\ used_count[b] = Cardinality(used[b]) /\ used_count[b] \in Int /\ Len(free[b]) \in Int
        /\ total_count[b] \in Int
        /\ b[2] > 0 => total_count[b] = used_count[b] + Len(free[b])
    BY <1>1 DEF Counted
  <2>7. used_count'[b] = Cardinality(used'[b])
    BY <2>3, <2>4, <2>6
  <2>8. b[2] > 0 => total_count'[b] = used_count'[b] + Len(free'[b])
    BY <2>1, <2>3, <2>5, <2>6
  <2> QED
    BY <2>1, <2>3, <2>5, <2>7, <2>8, CountedElse
<1> QED
  BY <1>3, <1>4, <1>5, <1>6

-----------------------------------------------------------------------------
(* The marks: a chunk of a free list that is not marked as freed yet is in  *)
(* the hands of the free that put it there.                                 *)
LEMMA MarkedElse ==
  ASSUME Typed, FreeMarked, NEW t \in Threads, Others(t), call[t].at # "mark",
         \A pb \in PB : Range(free'[pb]) \subseteq Range(free[pb]), DOMAIN free' = PB,
         \A pb \in PB : \A c \in Range(free'[pb]) : magic'[c] = magic[c]
  PROVE  FreeMarked'
<1> SUFFICES ASSUME NEW pb \in PB, NEW c \in Range(free'[pb])
             PROVE  magic'[c] = "freed" \/ \E u \in Threads : At(u, "mark")' /\ call'[u].chunk = c
  BY DEF FreeMarked
<1>1. c \in Range(free[pb]) /\ magic'[c] = magic[c] /\ DOMAIN free = PB
  BY DEF Typed, TypeOK
<1>2. CASE magic[c] = "freed"
  BY <1>1, <1>2
<1>3. ASSUME NEW u \in Threads, At(u, "mark"), call[u].chunk = c
      PROVE  At(u, "mark")' /\ call'[u].chunk = c
  BY <1>3 DEF At, Others
<1> QED
  BY <1>1, <1>2, <1>3 DEF FreeMarked

LEMMA MarkedCall ==
  ASSUME Typed, Typed', Apart, FreeMarked, NEW t \in Threads,
         \/ Alloc(t) \/ Realloc(t) \/ TakeFree(t) \/ TakeNew(t) \/ TakeNothing(t)
         \/ Fill(t) \/ Add(t)
         \/ Free(t) \/ Release(t) \/ Mark(t) \/ Subtract(t)
  PROVE  FreeMarked'
<1>0. DOMAIN free = PB /\ DOMAIN free' = PB
  BY DEF Typed, TypeOK
<1>1. ASSUME Others(t), call[t].at # "mark", UNCHANGED <<free, magic>> PROVE FreeMarked'
  BY <1>0, <1>1, MarkedElse
<1>2. CASE Alloc(t)
  <2>1. Others(t) /\ call[t].at = "idle" /\ UNCHANGED <<free, magic>>
    BY <1>2, MoveAlloc
  <2> QED
    BY <1>1, <2>1
<1>3. CASE Realloc(t)
  <2>1. Others(t) /\ call[t].at = "idle" /\ UNCHANGED <<free, magic>>
    BY <1>3, MoveRealloc
  <2> QED
    BY <1>1, <2>1
<1>4. CASE TakeNothing(t)
  <2>1. call[t].at = "take" /\ FreeOld(t, {}) /\ UNCHANGED <<free, magic>>
    BY <1>4 DEF TakeNothing, At
  <2>2. Others(t)
    BY <2>1, MoveFreeOld
  <2> QED
    BY <1>1, <2>1, <2>2
<1>5. CASE Add(t)
  <2>1. PICK n \in Handles : /\ call[t].at = "add" /\ FreeOld(t, {n}) /\ UNCHANGED <<free, magic>>
    BY <1>5, MoveAdd
  <2>2. Others(t)
    BY <2>1, MoveFreeOld
  <2> QED
    BY <1>1, <2>1, <2>2
<1>6. CASE Free(t)
  <2>1. Others(t) /\ call[t].at = "idle" /\ UNCHANGED <<free, magic>>
    BY <1>6, MoveFree
  <2> QED
    BY <1>1, <2>1
<1>7. CASE Subtract(t)
  <2>1. Others(t) /\ call[t].at = "subtract" /\ UNCHANGED <<free, magic>>
    BY <1>7, MoveSubtract
  <2> QED
    BY <1>1, <2>1
<1>8. CASE TakeNew(t)
  <2>1. PICK c : At(t, "take") /\ Take(t, c) /\ UNCHANGED <<free, magic>>
    BY <1>8 DEF TakeNew
  <2>2. Others(t) /\ call[t].at = "take"
    BY <2>1, MoveTake
  <2> QED
    BY <1>1, <2>1, <2>2
<1>9. CASE TakeFree(t)
  <2>1. PICK c \in Chunks, b \in PB :
          /\ At(t, "take") /\ Take(t, c) /\ free' = [free EXCEPT ![b] = Tail(@)]
          /\ Range(Tail(free[b])) = Range(free[b]) \ {c} /\ UNCHANGED magic
    BY <1>9, MoveTakeFree
  <2>2. Others(t) /\ call[t].at = "take"
    BY <2>1, MoveTake
  <2>3. \A pb \in PB : Range(free'[pb]) \subseteq Range(free[pb])
    BY <1>0, <2>1
  <2> QED
    BY <1>0, <2>1, <2>2, <2>3, MarkedElse
<1>10. CASE Fill(t)
  <2>1. PICK c \in Chunks : /\ Others(t) /\ call[t].at = "fill" /\ InWork(t) = {c}
                            /\ magic' = [magic EXCEPT ![c] = "used"] /\ UNCHANGED free
    BY <1>10, MoveFill
  <2>2. \A pb \in PB : c \notin Range(free[pb])
    BY <1>0, <2>1 DEF Apart, InHand
  <2>3. \A pb \in PB : \A d \in Range(free'[pb]) : magic'[d] = magic[d]
    BY <2>1, <2>2, RangeIn DEF Typed, TypeOK
  <2> QED
    BY <1>0, <2>1, <2>3, MarkedElse
<1>11. CASE Release(t)
  <2>0. PICK c \in Chunks, b \in PB : Released(t, c, b)
    BY <1>11, MoveRelease
  <2>1.   /\ Others(t) /\ call[t].at = "release" /\ call'[t].at = "mark" /\ c = call'[t].chunk
          /\ IF b[2] > 0 THEN /\ free' = [free EXCEPT ![b] = <<c>> \o @]
                              /\ Len(<<c>> \o free[b]) = Len(free[b]) + 1
                              /\ IsInjective(<<c>> \o free[b])
                              /\ Range(<<c>> \o free[b]) = Range(free[b]) \cup {c}
                         ELSE free' = free /\ b[2] = 0
          /\ UNCHANGED magic
    BY <2>0 DEF Released
  <2>2. \A pb \in PB : Range(free'[pb]) \subseteq Range(free[pb]) \cup {c}
    <3>1. CASE b[2] > 0
      <4>1. /\ free' = [free EXCEPT ![b] = <<c>> \o @]
            /\ Range(<<c>> \o free[b]) = Range(free[b]) \cup {c}
        BY <2>1, <3>1
      <4> QED
        BY <1>0, <4>1
    <3>2. CASE ~ (b[2] > 0)
      BY <2>1, <3>2
    <3> QED
      BY <3>1, <3>2
  <2> SUFFICES ASSUME NEW pb \in PB, NEW d \in Range(free'[pb])
               PROVE  magic'[d] = "freed" \/ \E u \in Threads : At(u, "mark")' /\ call'[u].chunk = d
    BY <1>0 DEF FreeMarked
  <2>3. CASE d = c
    BY <2>1, <2>3 DEF At
  <2>4. CASE d # c
    <3>1. d \in Range(free[pb])
      BY <2>2, <2>4
    <3>2. ASSUME NEW u \in Threads, At(u, "mark"), call[u].chunk = d
          PROVE  At(u, "mark")' /\ call'[u].chunk = d
      BY <2>1, <3>2 DEF At, Others
    <3> QED
      BY <1>0, <2>1, <3>1, <3>2 DEF FreeMarked
  <2> QED
    BY <2>3, <2>4
<1>12. CASE Mark(t)
  <2>1. PICK c \in Chunks :
         /\ Others(t) /\ call[t].at = "mark" /\ c = call[t].chunk
         /\ InWork(t) = (IF BucketOf(call[t].size) = 0 THEN {c} ELSE {})
         /\ IF BucketOf(call[t].size) = 0
            THEN heap' = heap \cup {c} /\ UNCHANGED magic
            ELSE magic' = [magic EXCEPT ![c] = "freed"] /\ UNCHANGED heap
         /\ UNCHANGED free
    BY <1>12, MoveMark
  <2> SUFFICES ASSUME NEW pb \in PB, NEW d \in Range(free[pb])
               PROVE  magic'[d] = "freed" \/ \E u \in Threads : At(u, "mark")' /\ call'[u].chunk = d
    BY <1>0, <2>1 DEF FreeMarked
  <2>2. d \in Chunks
    BY RangeIn DEF Typed, TypeOK
  <2>3. ASSUME NEW u \in Threads, At(u, "mark"), call[u].chunk = d, d # c
        PROVE  At(u, "mark")' /\ call'[u].chunk = d
    BY <2>1, <2>3 DEF At, Others
  <2>4. CASE BucketOf(call[t].size) = 0
    <3>1. d # c
      BY <1>0, <2>1, <2>4 DEF Apart, InHand
    <3> QED
      BY <1>0, <2>1, <2>3, <2>4, <3>1 DEF FreeMarked
  <2>5. CASE BucketOf(call[t].size) # 0
    <3>1. magic'[c] = "freed" /\ (d # c => magic'[d] = magic[d])
      BY <2>1, <2>2, <2>5 DEF Typed, TypeOK
    <3> QED
      BY <1>0, <2>3, <3>1 DEF FreeMarked
  <2> QED
    BY <2>4, <2>5
<1> QED
  BY <1>2, <1>3, <1>4, <1>5, <1>6, <1>7, <1>8, <1>9, <1>10, <1>11, <1>12

-----------------------------------------------------------------------------
(* The sizes and the marks together.                                        *)
LEMMA BalanceCall ==
  ASSUME ConserveInvariant, Typed', Balanced, Written, NEW t \in Threads,
         \/ Alloc(t) \/ Realloc(t) \/ TakeFree(t) \/ TakeNew(t) \/ TakeNothing(t)
         \/ Fill(t) \/ Add(t)
         \/ Free(t) \/ Release(t) \/ Mark(t) \/ Subtract(t)
  PROVE  Balanced'
<1>0. Typed /\ Apart /\ Written
  BY LocatedIsApart DEF ConserveInvariant
<1>1. ASSUME Others(t), UNCHANGED <<size, element_count, used_size, used_count>>,
             call[t].at \in {"idle", "take"}, call'[t].at \in {"idle", "take", "release"}
      PROVE  Balanced'
  <2>1. \A labels \in {Using, Leaving} : call[t].at \notin labels /\ call'[t].at \notin labels
    BY <1>1 DEF Using, Leaving
  <2> QED
    BY <1>0, <1>1, <2>1, BalanceQuiet
<1>2. CASE Alloc(t)
  <2>1. /\ Others(t) /\ call[t].at = "idle" /\ call'[t].at = "take"
        /\ UNCHANGED <<size, element_count, used_size, used_count>>
    BY <1>0, <1>2, MoveAlloc DEF stats
  <2> QED
    BY <1>1, <2>1
<1>3. CASE Realloc(t)
  <2>1. /\ Others(t) /\ call[t].at = "idle" /\ call'[t].at = "take"
        /\ UNCHANGED <<size, element_count, used_size, used_count>>
    BY <1>0, <1>3, MoveRealloc DEF stats
  <2> QED
    BY <1>1, <2>1
<1>4. CASE Free(t)
  <2>1. /\ Others(t) /\ call[t].at = "idle" /\ call'[t].at = "release"
        /\ UNCHANGED <<size, element_count, used_size, used_count>>
    BY <1>0, <1>4, MoveFree DEF stats
  <2> QED
    BY <1>1, <2>1
<1>5. CASE TakeNothing(t)
  <2>1. /\ call[t].at = "take" /\ FreeOld(t, {})
        /\ UNCHANGED <<size, element_count, used_size, used_count>>
    BY <1>5 DEF TakeNothing, At, stats
  <2>2. Others(t) /\ call'[t].at \in {"idle", "release"}
    BY <1>0, <2>1, MoveFreeOld
  <2> QED
    BY <1>1, <2>1, <2>2
<1>6. CASE Fill(t)
  <2>1. /\ Others(t) /\ Same(t) /\ call[t].at = "fill" /\ call'[t].at = "add"
        /\ UNCHANGED <<size, element_count, used_size, used_count>>
    BY <1>0, <1>6, MoveFill DEF stats
  <2>2. \A labels \in {Using, Leaving} :
           /\ call[t].at \in labels <=> call'[t].at \in labels
           /\ call'[t].pool = call[t].pool /\ call'[t].size = call[t].size
    BY <2>1 DEF Using, Leaving, Same
  <2> QED
    BY <1>0, <2>1, <2>2, BalanceQuiet
<1>7. CASE Mark(t)
  <2>1. /\ Others(t) /\ Same(t) /\ call[t].at = "mark" /\ call'[t].at = "subtract"
        /\ UNCHANGED <<size, element_count, used_size, used_count>>
    BY <1>0, <1>7, MoveMark DEF stats
  <2>2. \A labels \in {Using, Leaving} :
           /\ call[t].at \in labels <=> call'[t].at \in labels
           /\ call'[t].pool = call[t].pool /\ call'[t].size = call[t].size
    BY <2>1 DEF Using, Leaving, Same
  <2> QED
    BY <1>0, <2>1, <2>2, BalanceQuiet
<1>8. ASSUME call[t].at # "idle"
      PROVE  /\ call[t].pool \in Pools /\ call[t].size \in Nat /\ Bucket(t) \in PB
             /\ Bucket(t)[1] = call[t].pool
  BY <1>0, <1>8, CallTyped DEF CallOK, At, Calls, Bucket, Typed, TypeOK
<1>9. CASE TakeFree(t) \/ TakeNew(t)
  <2>1. PICK c : At(t, "take") /\ Take(t, c) /\ UNCHANGED <<size, element_count>>
    BY <1>9 DEF TakeFree, TakeNew
  <2>2. Others(t) /\ Same(t) /\ call[t].at = "take" /\ call'[t].at = "fill"
    BY <1>0, <2>1, MoveTake
  <2>3. /\ used_size' = [used_size EXCEPT ![Bucket(t)] = @ + call[t].size]
        /\ used_count' = [used_count EXCEPT ![Bucket(t)] = @ + 1]
    BY <2>1 DEF Take
  <2>4. PICK b \in PB : b = Bucket(t) /\ b[1] = call[t].pool
    BY <1>8, <2>2
  <2>5. PICK s \in Nat : s = call[t].size
    BY <1>8, <2>2
  <2>6. /\ used_size' = [used_size EXCEPT ![b] = @ + s]
        /\ used_count' = [used_count EXCEPT ![b] = @ + 1]
    BY <2>3, <2>4, <2>5
  <2> QED
    BY <1>0, <2>1, <2>2, <2>4, <2>5, <2>6, BalanceBucket
<1>10. CASE Release(t)
  <2>1. /\ At(t, "release")
        /\ used_size' = [used_size EXCEPT ![Bucket(t)] = @ - chunk_size[call[t].chunk]]
        /\ used_count' = [used_count EXCEPT ![Bucket(t)] = @ - 1]
        /\ UNCHANGED <<size, element_count>>
    BY <1>10 DEF Release
  <2>2. Others(t) /\ Same(t) /\ call[t].at = "release" /\ call'[t].at = "mark"
    BY <1>0, <1>10, MoveRelease DEF Released
  <2>3. chunk_size[call[t].chunk] = call[t].size
    BY <1>0, <2>2 DEF Written, WrittenRight
  <2>4. PICK b \in PB : b = Bucket(t) /\ b[1] = call[t].pool
    BY <1>8, <2>2
  <2>5. PICK s \in Nat : s = call[t].size
    BY <1>8, <2>2
  <2>6. /\ used_size' = [used_size EXCEPT ![b] = @ - s]
        /\ used_count' = [used_count EXCEPT ![b] = @ - 1]
    BY <2>1, <2>3, <2>4, <2>5
  <2>7. UNCHANGED <<size, element_count>>
    BY <2>1
  <2> QED
    BY <1>0, <1>1, <2>2, <2>4, <2>5, <2>6, <2>7, BalanceBucket
<1>11. CASE Add(t)
  <2>1. PICK n \in Handles :
         /\ n.pool = call[t].pool /\ n.size = call[t].size
         /\ call[t].at = "add" /\ FreeOld(t, {n})
         /\ size' = [size EXCEPT ![n.pool] = @ + n.size]
         /\ element_count' = [element_count EXCEPT ![n.pool] = @ + 1]
         /\ UNCHANGED <<used_size, used_count>>
    <3>1. \E n \in Handles :
           /\ n.pool = call[t].pool /\ n.size = call[t].size
           /\ call[t].at = "add" /\ FreeOld(t, {n})
           /\ size' = [size EXCEPT ![n.pool] = @ + n.size]
           /\ element_count' = [element_count EXCEPT ![n.pool] = @ + 1]
           /\ UNCHANGED stats
      BY <1>0, <1>11, MoveAdd
    <3> QED
      BY <3>1 DEF stats
  <2>2. Others(t) /\ call'[t].at \in {"idle", "release"}
    BY <1>0, <2>1, MoveFreeOld
  <2>3. PICK q \in Pools : q = call[t].pool
    BY <1>8, <2>1
  <2>4. PICK s \in Nat : s = call[t].size
    BY <1>8, <2>1
  <2>5. /\ size' = [size EXCEPT ![q] = @ + s]
        /\ element_count' = [element_count EXCEPT ![q] = @ + 1]
    BY <2>1, <2>3, <2>4
  <2> QED
    BY <1>0, <2>1, <2>2, <2>3, <2>4, <2>5, BalanceTotals
<1>12. CASE Subtract(t)
  <2>1. /\ Others(t) /\ call[t].at = "subtract" /\ call'[t].at = "idle"
        /\ size' = [size EXCEPT ![call[t].pool] = @ - call[t].size]
        /\ element_count' = [element_count EXCEPT ![call[t].pool] = @ - 1]
        /\ UNCHANGED <<used_size, used_count>>
    BY <1>0, <1>12, MoveSubtract DEF stats
  <2>2. PICK q \in Pools : q = call[t].pool
    BY <1>8, <2>1
  <2>3. PICK s \in Nat : s = call[t].size
    BY <1>8, <2>1
  <2>4. /\ size' = [size EXCEPT ![q] = @ - s]
        /\ element_count' = [element_count EXCEPT ![q] = @ - 1]
    BY <2>1, <2>2, <2>3
  <2> QED
    BY <1>0, <2>1, <2>2, <2>3, <2>4, BalanceTotals
<1> QED
  BY <1>2, <1>3, <1>4, <1>5, <1>6, <1>7, <1>9, <1>10, <1>11, <1>12

SizeInvariant == ConserveInvariant /\ Balanced /\ Written /\ Counted /\ FreeMarked

LEMMA SizeInit == Init => SizeInvariant
<1> SUFFICES ASSUME Init PROVE SizeInvariant
  OBVIOUS
<1>1. ConserveInvariant
  BY ConserveInit
<1>2. Typed
  BY <1>1 DEF ConserveInvariant
<1>3. /\ \A pb \in PB : /\ used[pb] = {} /\ free[pb] = <<>> /\ used_size[pb] = 0
                        /\ used_count[pb] = 0 /\ total_count[pb] = 0
      /\ \A p \in Pools : size[p] = 0 /\ element_count[p] = 0
      /\ held = {} /\ \A t \in Threads : call[t] = Idle
  BY DEF Init, PB, Zeros
<1>4. Balanced
  <2> SUFFICES ASSUME NEW p \in Pools PROVE SizeBalance(p) /\ CountBalance(p)
    BY DEF Balanced
  <2>1. \A t \in Threads : call[t].pool # p
    BY <1>3, IdleIsCall, ConstantsKnown
  <2>2. Sum(used_size, p) = 0 /\ Sum(used_count, p) = 0
    <3>1. \A k \in Buckets : used_size[<<p, k>>] = 0 /\ used_count[<<p, k>>] = 0
      BY <1>3 DEF PB
    <3> QED
      BY <1>2, <3>1, SumZero DEF Typed, TypeOK
  <2>3. /\ SizeOf(Untold(p, Using)) = 0 /\ Cardinality(Untold(p, Using)) = 0
        /\ SizeOf(Untold(p, Leaving)) = 0 /\ Cardinality(Untold(p, Leaving)) = 0
    BY <1>2, <2>1, UntoldNone
  <2> QED
    BY <1>3, <2>2, <2>3 DEF SizeBalance, CountBalance
<1>5. Written
  BY <1>3, IdleIsCall DEF Written, WrittenRight
<1>6. Counted
  <2>1. Cardinality({}) = 0 /\ Len(<<>>) = 0
    BY FS_EmptySet, EmptySeq
  <2>2. ASSUME NEW pb \in PB
        PROVE  /\ used_count[pb] = Cardinality(used[pb])
               /\ total_count[pb] = used_count[pb] + Len(free[pb])
    <3>1. used[pb] = {} /\ free[pb] = <<>> /\ used_count[pb] = 0 /\ total_count[pb] = 0
      BY <1>3
    <3>2. Cardinality(used[pb]) = 0 /\ Len(free[pb]) = 0
      BY <2>1, <3>1
    <3> QED
      BY <3>1, <3>2
  <2> QED
    BY <2>2 DEF Counted
<1>7. FreeMarked
  <2>1. DOMAIN free = PB /\ \A pb \in PB : Range(free[pb]) = {}
    BY <1>2, <1>3, EmptyRange DEF Typed, TypeOK
  <2> QED
    BY <2>1 DEF FreeMarked
<1> QED
  BY <1>1, <1>4, <1>5, <1>6, <1>7 DEF SizeInvariant

(* A pool that is freed is as one that never was.                           *)
LEMMA SizePoolFree ==
  ASSUME SizeInvariant, Typed', NEW p \in Pools, PoolFree(p)
  PROVE  Balanced' /\ Written' /\ Counted' /\ FreeMarked'
<1>0. Typed /\ Balanced /\ Written /\ Counted /\ FreeMarked
  BY DEF SizeInvariant, ConserveInvariant
<1>1. PICK gone \in SUBSET pools :
         /\ \A t \in Threads : call[t].pool \notin gone
         /\ \A pb \in PB :
              /\ used'[pb] = IF pb[1] \in gone THEN {} ELSE used[pb]
              /\ free'[pb] = IF pb[1] \in gone THEN <<>> ELSE free[pb]
              /\ used_size'[pb] = IF pb[1] \in gone THEN 0 ELSE used_size[pb]
              /\ used_count'[pb] = IF pb[1] \in gone THEN 0 ELSE used_count[pb]
              /\ total_count'[pb] = IF pb[1] \in gone THEN 0 ELSE total_count[pb]
         /\ size' = [q \in Pools |-> IF q \in gone THEN 0 ELSE size[q]]
         /\ element_count' = [q \in Pools |-> IF q \in gone THEN 0 ELSE element_count[q]]
         /\ held' = {h \in held : h.pool \notin gone}
         /\ UNCHANGED <<chunk_size, magic, call>>
  BY <1>0, MovePoolFree
<1>2. Balanced'
  <2> SUFFICES ASSUME NEW q \in Pools PROVE SizeBalance(q)' /\ CountBalance(q)'
    BY DEF Balanced
  <2>1. \A labels : Untold(q, labels)' = Untold(q, labels)
    BY <1>1 DEF Untold
  <2>2. \A labels : SizeOf(Untold(q, labels))' = SizeOf(Untold(q, labels))
    BY <1>1, <2>1 DEF SizeOf
  <2>3. Sum(used_size, q)' = Sum(used_size', q) /\ Sum(used_count, q)' = Sum(used_count', q)
    BY DEF Sum
  <2>4. \A k \in Buckets : <<q, k>> \in PB /\ <<q, k>>[1] = q
    BY DEF PB
  <2>5. CASE q \notin gone
    <3>1. Sum(used_size', q) = Sum(used_size, q) /\ Sum(used_count', q) = Sum(used_count, q)
      <4>1. \A k \in Buckets : /\ used_size'[<<q, k>>] = used_size[<<q, k>>]
                               /\ used_count'[<<q, k>>] = used_count[<<q, k>>]
        BY <1>1, <2>4, <2>5
      <4>2. /\ [k \in Buckets |-> used_size'[<<q, k>>]] = [k \in Buckets |-> used_size[<<q, k>>]]
            /\ [k \in Buckets |-> used_count'[<<q, k>>]] = [k \in Buckets |-> used_count[<<q, k>>]]
        BY <4>1
      <4> QED
        BY <4>2 DEF Sum
    <3>2. size'[q] = size[q] /\ element_count'[q] = element_count[q]
      BY <1>1, <2>5
    <3>3. SizeBalance(q) /\ CountBalance(q)
      BY <1>0 DEF Balanced
    <3> QED
      BY <2>1, <2>2, <2>3, <3>1, <3>2, <3>3 DEF SizeBalance, CountBalance
  <2>6. CASE q \in gone
    <3>1. Sum(used_size', q) = 0 /\ Sum(used_count', q) = 0
      <4>1. \A k \in Buckets : used_size'[<<q, k>>] = 0 /\ used_count'[<<q, k>>] = 0
        BY <1>1, <2>4, <2>6
      <4>2. used_size' \in [PB -> Int] /\ used_count' \in [PB -> Int]
        BY DEF Typed, TypeOK
      <4> QED
        BY <4>1, <4>2, SumZero
    <3>2. size'[q] = 0 /\ element_count'[q] = 0
      BY <1>1, <2>6
    <3>3. \A t \in Threads : call[t].pool # q
      BY <1>1, <2>6
    <3>4. \A labels : SizeOf(Untold(q, labels)) = 0 /\ Cardinality(Untold(q, labels)) = 0
      BY <1>0, <3>3, UntoldNone
    <3> QED
      BY <2>1, <2>2, <2>3, <3>1, <3>2, <3>4 DEF SizeBalance, CountBalance
  <2> QED
    BY <2>5, <2>6
<1>3. Written'
  BY <1>0, <1>1 DEF Written, WrittenRight
<1>4. Counted'
  BY <1>0, <1>1, FS_EmptySet, EmptySeq DEF Counted
<1>5. FreeMarked'
  <2>1. DOMAIN free = PB /\ DOMAIN free' = PB
    BY <1>0 DEF Typed, TypeOK
  <2>2. \A pb \in PB : Range(free'[pb]) \subseteq Range(free[pb])
    BY <1>1, EmptyRange
  <2> QED
    BY <1>0, <1>1, <2>1, <2>2 DEF FreeMarked, At
<1> QED
  BY <1>2, <1>3, <1>4, <1>5

LEMMA SizeStep == ASSUME SizeInvariant, [Next]_vars PROVE SizeInvariant'
<1>0. /\ ConserveInvariant /\ Typed /\ Apart
      /\ Balanced /\ Written /\ Counted /\ FreeMarked
  BY LocatedIsApart DEF SizeInvariant, ConserveInvariant
<1>1. ConserveInvariant' /\ Typed'
  BY <1>0, ConserveStep DEF ConserveInvariant
<1>2. ASSUME UNCHANGED <<used, free, stats, size, element_count, chunk_size, magic, heap, held,
                         call>>
      PROVE  SizeInvariant'
  <2>1. Balanced'
    <3>1. \A p, labels : Untold(p, labels)' = Untold(p, labels)
      BY <1>2 DEF Untold
    <3>2. \A p, labels : SizeOf(Untold(p, labels))' = SizeOf(Untold(p, labels))
      BY <1>2, <3>1 DEF SizeOf
    <3>3. \A p : Sum(used_size, p)' = Sum(used_size, p) /\ Sum(used_count, p)' = Sum(used_count, p)
      BY <1>2 DEF Sum, stats
    <3> QED
      BY <1>0, <1>2, <3>1, <3>2, <3>3 DEF Balanced, SizeBalance, CountBalance
  <2>2. Written'
    BY <1>0, <1>2 DEF Written, WrittenRight
  <2>3. Counted' /\ FreeMarked'
    BY <1>0, <1>2 DEF Counted, FreeMarked, At, stats
  <2> QED
    BY <1>1, <2>1, <2>2, <2>3 DEF SizeInvariant
<1>3. CASE UNCHANGED vars
  BY <1>2, <1>3 DEF vars
<1>4. ASSUME NEW t \in Threads,
             \/ Alloc(t) \/ Realloc(t) \/ TakeFree(t) \/ TakeNew(t) \/ TakeNothing(t)
             \/ Fill(t) \/ Add(t)
             \/ Free(t) \/ Release(t) \/ Mark(t) \/ Subtract(t)
      PROVE  SizeInvariant'
  <2>1. Balanced'
    BY <1>0, <1>1, <1>4, BalanceCall
  <2>2. Written'
    BY <1>0, <1>1, <1>4, WrittenCall
  <2>3. Counted'
    BY <1>0, <1>4, CountedCall
  <2>4. FreeMarked'
    BY <1>0, <1>1, <1>4, MarkedCall
  <2> QED
    BY <1>1, <2>1, <2>2, <2>3, <2>4 DEF SizeInvariant
<1>5. ASSUME NEW p \in Pools, PoolAlloc(p) PROVE SizeInvariant'
  BY <1>2, <1>5 DEF PoolAlloc
<1>6. ASSUME NEW p \in Pools, PoolFree(p) PROVE SizeInvariant'
  BY <1>1, <1>6, SizePoolFree DEF SizeInvariant
<1> QED
  BY <1>3, <1>4, <1>5, <1>6 DEF Next

LEMMA SizeImplies == SizeInvariant => SizesMarked
<1> SUFFICES ASSUME SizeInvariant PROVE SizesMarked
  OBVIOUS
<1>1. Typed /\ Balanced /\ Written /\ Counted /\ FreeMarked
  BY DEF SizeInvariant, ConserveInvariant
<1>2. DOMAIN used = PB /\ pools \subseteq Pools
  BY <1>1 DEF Typed, TypeOK
<1>3. ASSUME NEW p \in pools
      PROVE  /\ size[p] = Sum(used_size, p) - SizeOf(Untold(p, {"fill", "add"}))
                          + SizeOf(Untold(p, {"mark", "subtract"}))
             /\ element_count[p] = Sum(used_count, p) - Cardinality(Untold(p, {"fill", "add"}))
                                   + Cardinality(Untold(p, {"mark", "subtract"}))
  BY <1>1, <1>2 DEF Balanced, SizeBalance, CountBalance, Using, Leaving
<1>4. SizesAgree
  BY <1>1, <1>2, <1>3 DEF SizesAgree, Counted, Written
<1> QED
  BY <1>1, <1>4 DEF SizesMarked

(* The totals of a pool are what its buckets say once the calls under way   *)
(* are over, what a bucket says is what its lists hold, a chunk that was    *)
(* handed out keeps the size asked for until it is freed, and a chunk in a  *)
(* free list is marked as freed unless the free that put it there has still *)
(* to mark it.                                                              *)
THEOREM SizesHonest == Spec => []SizesMarked
<1>1. Spec => []SizeInvariant
  BY SizeInit, SizeStep, PTL DEF Spec
<1> QED
  BY <1>1, SizeImplies, PTL

=============================================================================
