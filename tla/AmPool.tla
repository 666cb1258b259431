-------------------------------- MODULE AmPool --------------------------------
(***************************************************************************)
(* The memory pools of src/src/libam_pool.c.  A pool keeps a bucket for    *)
(* every multiple of 16 bytes up to 512 and one for larger sizes; a chunk  *)
(* of the first goes to a free list when it is freed, and a larger one     *)
(* back to malloc.  Each bucket has a mutex, but an allocation fills in    *)
(* its chunk, and a free marks it as freed, after unlocking; the totals of *)
(* the pool are added to atomically after that.  The part under the mutex  *)
(* is one action, and each of the others.                                  *)
(***************************************************************************)
EXTENDS Integers, Sequences, FiniteSets, FiniteSetsExt

CONSTANTS Threads,
          Pools,   \* the pools
          Parent,  \* Parent[p]: the pool p is made a child of, or NULL
          Sizes,   \* the sizes asked for
          Chunks,  \* the addresses of malloc, numbers
          TotalLimit, \* bound: a bucket's total_element_count, which never goes
                      \* down in the bucket of larger sizes
          NULL

ASSUME SizesAssumption == Sizes \subseteq Nat \ {0} /\ Chunks \subseteq Nat
                         /\ TotalLimit \in Nat
ASSUME FiniteAssumption == IsFiniteSet(Threads) /\ IsFiniteSet(Sizes) /\ IsFiniteSet(Chunks)
ASSUME PoolsAssumption == Parent \in [Pools -> Pools \cup {NULL}] /\ NULL \notin Pools

\* A bucket is named by its element_size, 0 for `oversized'.
MaxStepped == 512
AlignSize(s) == 16 * ((s + 15) \div 16)
BucketOf(s) == IF AlignSize(s) <= MaxStepped THEN AlignSize(s) ELSE 0
Buckets == {BucketOf(s) : s \in Sizes}

VARIABLES pools,       \* the pools there are
          used, free,  \* used_list and free_list, by pool and bucket
          used_size, used_count,    \* their stats, by pool and bucket
          total_size, total_count,
          size, element_count,      \* of the pools
          chunk_size,  \* of the chunks
          magic,       \* a chunk's header says "used" or "freed"
          heap,        \* the chunks malloc may return
          held,        \* what the callers have: pool, chunk and size
          call         \* call[t]: where t is, and its locals

stats == <<used_size, used_count, total_size, total_count>>
vars == <<pools, used, free, stats, size, element_count, chunk_size, magic, heap, held, call>>

Idle == [at |-> "idle", pool |-> NULL, size |-> 0, chunk |-> NULL, old |-> {}, new |-> {}]

Zeros == [pb \in Pools \X Buckets |-> 0]

Init ==
    /\ pools = {}
    /\ used = [pb \in Pools \X Buckets |-> {}]
    /\ free = [pb \in Pools \X Buckets |-> <<>>]
    /\ used_size = Zeros /\ used_count = Zeros
    /\ total_size = Zeros /\ total_count = Zeros
    /\ size = [p \in Pools |-> 0]
    /\ element_count = [p \in Pools |-> 0]
    /\ chunk_size = [c \in Chunks |-> 0]
    /\ magic = [c \in Chunks |-> "freed"]
    /\ heap = Chunks
    /\ held = {}
    /\ call = [t \in Threads |-> Idle]

At(t, label) == call[t].at = label
Goto(t, label) == call' = [call EXCEPT ![t].at = label]

\* The bucket the call of t works on.
Bucket(t) == <<call[t].pool, BucketOf(call[t].size)>>

-----------------------------------------------------------------------------
(* ampool_op_alloc                                                          *)

Alloc(t) == \E p \in pools, s \in Sizes :
    /\ At(t, "idle")
    /\ call' = [call EXCEPT ![t] = [Idle EXCEPT !.at = "take", !.pool = p, !.size = s]]
    /\ UNCHANGED <<pools, used, free, stats, size, element_count, chunk_size, magic, heap, held>>

\* ampool_op_realloc: an allocation, and then a free of the old chunk, even if
\* there is no new one.
Realloc(t) == \E h \in held, s \in Sizes :
    /\ At(t, "idle")
    /\ held' = held \ {h}
    /\ call' = [call EXCEPT ![t] = [Idle EXCEPT !.at = "take", !.pool = h.pool, !.size = s,
                                                !.old = {h}]]
    /\ UNCHANGED <<pools, used, free, stats, size, element_count, chunk_size, magic, heap>>

\* What is left of a realloc: to free the old chunk.
FreeOld(t, new) ==
    IF call[t].old = {} THEN call' = [call EXCEPT ![t] = Idle]
    ELSE \E h \in call[t].old :
        call' = [call EXCEPT ![t] = [Idle EXCEPT !.at = "release", !.pool = h.pool,
                                         !.size = h.size, !.chunk = h.chunk, !.new = new]]

\* bucket_alloc, up to the unlock.
Take(t, c) ==
    /\ used' = [used EXCEPT ![Bucket(t)] = @ \cup {c}]
    /\ used_count' = [used_count EXCEPT ![Bucket(t)] = @ + 1]
    /\ used_size' = [used_size EXCEPT ![Bucket(t)] = @ + call[t].size]
    /\ call' = [call EXCEPT ![t].at = "fill", ![t].chunk = c]

TakeFree(t) ==
    /\ At(t, "take") /\ free[Bucket(t)] # <<>>
    /\ Take(t, Head(free[Bucket(t)]))
    /\ free' = [free EXCEPT ![Bucket(t)] = Tail(@)]
    /\ UNCHANGED <<pools, total_size, total_count, size, element_count, chunk_size, magic, heap,
                   held>>

TakeNew(t) ==
    /\ At(t, "take") /\ free[Bucket(t)] = <<>> /\ heap # {}
    /\ total_count[Bucket(t)] < TotalLimit
    /\ Take(t, Min(heap))
    /\ heap' = heap \ {Min(heap)}
    /\ total_count' = [total_count EXCEPT ![Bucket(t)] = @ + 1]
    /\ total_size' = [total_size EXCEPT ![Bucket(t)] = @ + call[t].size]
    /\ UNCHANGED <<pools, free, size, element_count, chunk_size, magic, held>>

\* malloc fails.
TakeNothing(t) ==
    /\ At(t, "take") /\ free[Bucket(t)] = <<>>
    /\ FreeOld(t, {})
    /\ UNCHANGED <<pools, used, free, stats, size, element_count, chunk_size, magic, heap, held>>

\* bucket_alloc, after the unlock.
Fill(t) ==
    /\ At(t, "fill")
    /\ chunk_size' = [chunk_size EXCEPT ![call[t].chunk] = call[t].size]
    /\ magic' = [magic EXCEPT ![call[t].chunk] = "used"]
    /\ Goto(t, "add")
    /\ UNCHANGED <<pools, used, free, stats, size, element_count, heap, held>>

\* The additions to size and to element_count, two atomic ones.
Add(t) ==
    LET new == {[pool |-> call[t].pool, chunk |-> call[t].chunk, size |-> call[t].size]}
    IN  /\ At(t, "add")
        /\ size' = [size EXCEPT ![call[t].pool] = @ + call[t].size]
        /\ element_count' = [element_count EXCEPT ![call[t].pool] = @ + 1]
        /\ FreeOld(t, new)
        /\ held' = IF call[t].old = {} THEN held \cup new ELSE held
        /\ UNCHANGED <<pools, used, free, stats, chunk_size, magic, heap>>

-----------------------------------------------------------------------------
(* ampool_op_free                                                           *)

Free(t) == \E h \in held :
    /\ At(t, "idle")
    /\ held' = held \ {h}
    /\ call' = [call EXCEPT ![t] = [Idle EXCEPT !.at = "release", !.pool = h.pool,
                                                !.size = h.size, !.chunk = h.chunk]]
    /\ UNCHANGED <<pools, used, free, stats, size, element_count, chunk_size, magic, heap>>

\* Slip: what is subtracted is the size of an element, not of the chunk.
ReleaseElement(t) ==
    LET c == call[t].chunk
        b == BucketOf(call[t].size)
    IN  /\ At(t, "release")
        /\ used_count' = [used_count EXCEPT ![Bucket(t)] = @ - 1]
        /\ used_size' = [used_size EXCEPT ![Bucket(t)] = @ - b]
        /\ used' = [used EXCEPT ![Bucket(t)] = @ \ {c}]
        /\ free' = IF b > 0 THEN [free EXCEPT ![Bucket(t)] = <<c>> \o @] ELSE free
        /\ Goto(t, "mark")
        /\ UNCHANGED <<pools, total_size, total_count, size, element_count, chunk_size, magic,
                       heap, held>>

\* bucket_free, up to the unlock.
Release(t) ==
    LET c == call[t].chunk
        b == BucketOf(call[t].size)
    IN  /\ At(t, "release")
        /\ used_count' = [used_count EXCEPT ![Bucket(t)] = @ - 1]
        /\ used_size' = [used_size EXCEPT ![Bucket(t)] = @ - chunk_size[c]]
        /\ used' = [used EXCEPT ![Bucket(t)] = @ \ {c}]
        /\ free' = IF b > 0 THEN [free EXCEPT ![Bucket(t)] = <<c>> \o @] ELSE free
        /\ Goto(t, "mark")
        /\ UNCHANGED <<pools, total_size, total_count, size, element_count, chunk_size, magic,
                       heap, held>>

\* Slip: every chunk goes back to malloc.
MarkGone(t) ==
    /\ At(t, "mark")
    /\ heap' = heap \cup {call[t].chunk}
    /\ magic' = [magic EXCEPT ![call[t].chunk] = "freed"]
    /\ Goto(t, "subtract")
    /\ UNCHANGED <<pools, used, free, stats, size, element_count, chunk_size, held>>

\* bucket_free, after the unlock: the chunk is in the free list already, and may
\* be another caller's by now.
Mark(t) ==
    /\ At(t, "mark")
    /\ IF BucketOf(call[t].size) > 0
       THEN magic' = [magic EXCEPT ![call[t].chunk] = "freed"] /\ UNCHANGED heap
       ELSE heap' = heap \cup {call[t].chunk} /\ UNCHANGED magic
    /\ Goto(t, "subtract")
    /\ UNCHANGED <<pools, used, free, stats, size, element_count, chunk_size, held>>

\* The subtractions; a realloc returns its new chunk.
Subtract(t) ==
    /\ At(t, "subtract")
    /\ size' = [size EXCEPT ![call[t].pool] = @ - call[t].size]
    /\ element_count' = [element_count EXCEPT ![call[t].pool] = @ - 1]
    /\ held' = held \cup call[t].new
    /\ call' = [call EXCEPT ![t] = Idle]
    /\ UNCHANGED <<pools, used, free, stats, chunk_size, magic, heap>>

-----------------------------------------------------------------------------
(* Pools, under the mutex of the hierarchy                                  *)

\* ampool_pool_alloc_flags_named
PoolAlloc(p) ==
    /\ p \notin pools
    /\ Parent[p] # NULL => Parent[p] \in pools
    /\ pools' = pools \cup {p}
    /\ UNCHANGED <<used, free, stats, size, element_count, chunk_size, magic, heap, held, call>>

\* A pool, its parent, and so on.
Lineage[p \in Pools] == IF Parent[p] = NULL THEN {p} ELSE {p} \cup Lineage[Parent[p]]

Family(p) == {q \in pools : p \in Lineage[q]}

\* _ampool_pool_free: the pool and its children go, with all their chunks, those
\* that are in use as well.  A caller does this when no call on them goes on.
PoolFree(p) ==
    LET gone == Family(p)
        chunks == UNION {used[<<q, b>>] \cup Range(free[<<q, b>>]) : q \in gone, b \in Buckets}
        Cleared(f, zero) == [pb \in DOMAIN f |-> IF pb[1] \in gone THEN zero ELSE f[pb]]
    IN  /\ p \in pools
        /\ \A t \in Threads : call[t].pool \notin gone
        /\ pools' = pools \ gone
        /\ used' = Cleared(used, {}) /\ free' = Cleared(free, <<>>)
        /\ used_size' = Cleared(used_size, 0) /\ used_count' = Cleared(used_count, 0)
        /\ total_size' = Cleared(total_size, 0) /\ total_count' = Cleared(total_count, 0)
        /\ size' = [q \in Pools |-> IF q \in gone THEN 0 ELSE size[q]]
        /\ element_count' = [q \in Pools |-> IF q \in gone THEN 0 ELSE element_count[q]]
        /\ heap' = heap \cup chunks
        /\ held' = {h \in held : h.pool \notin gone}
        /\ UNCHANGED <<chunk_size, magic, call>>

-----------------------------------------------------------------------------
Next ==
    \/ \E t \in Threads :
        \/ Alloc(t) \/ Realloc(t) \/ TakeFree(t) \/ TakeNew(t) \/ TakeNothing(t)
        \/ Fill(t) \/ Add(t)
        \/ Free(t) \/ Release(t) \/ Mark(t) \/ Subtract(t)
    \/ \E p \in Pools : PoolAlloc(p) \/ PoolFree(p)

Spec == Init /\ [][Next]_vars

-----------------------------------------------------------------------------
(* Properties                                                               *)

\* The chunk a call fills in or frees, and those a realloc keeps: the old one to
\* be freed, or its result while it still frees.
InWork(t) == IF \/ call[t].at \in {"fill", "add", "release"}
                \/ At(t, "mark") /\ BucketOf(call[t].size) = 0
             THEN {call[t].chunk} ELSE {}
Kept(t) == {h.chunk : h \in call[t].old \cup call[t].new}
InHand(t) == InWork(t) \cup Kept(t)

HeldChunks == {h.chunk : h \in held}

\* A chunk is in one place at most.
Apart ==
    /\ \A h \in held : \A g \in held : h.chunk = g.chunk => h = g
    /\ heap \cap HeldChunks = {}
    /\ \A pb \in DOMAIN free :
        /\ IsInjective(free[pb])
        /\ Range(free[pb]) \cap (heap \cup HeldChunks) = {}
        /\ \A qb \in DOMAIN free \ {pb} : Range(free[pb]) \cap Range(free[qb]) = {}
    /\ \A t \in Threads :
        /\ InWork(t) \cap Kept(t) = {}
        /\ InHand(t) \cap (heap \cup HeldChunks) = {}
        /\ \A pb \in DOMAIN free : InHand(t) \cap Range(free[pb]) = {}
        /\ \A u \in Threads \ {t} : InHand(t) \cap InHand(u) = {}

\* No two callers have the same memory and no memory is lost: a chunk is in the
\* heap, in one free list, with one caller or in one call, and a caller's is in
\* the used list it will be freed from.
ChunksConserved ==
    /\ Chunks = heap \cup HeldChunks
                     \cup (UNION {Range(free[pb]) : pb \in DOMAIN free})
                     \cup (UNION {InHand(t) : t \in Threads})
    /\ Apart
    /\ \A h \in held : h.chunk \in used[<<h.pool, BucketOf(h.size)>>]

\* The calls on pool p that have used a chunk, or released one, and not told the
\* totals so.
Untold(p, labels) == {t \in Threads : call[t].pool = p /\ call[t].at \in labels}
SizeOf(ts) == SumFunction([t \in Threads |-> IF t \in ts THEN call[t].size ELSE 0])
Sum(f, p) == SumFunction([b \in Buckets |-> f[<<p, b>>]])

\* The totals of a pool are what its buckets say, up to the calls under way, so
\* that a pool whose calls are over has a size its buckets agree with, as
\* _ampool_pool_free asserts; and what a bucket says is what its callers asked
\* for, although the sizes of chunks are written after the unlock.
SizesAgree ==
    /\ \A p \in pools :
        /\ size[p] = Sum(used_size, p) - SizeOf(Untold(p, {"fill", "add"}))
                     + SizeOf(Untold(p, {"mark", "subtract"}))
        /\ element_count[p] = Sum(used_count, p) - Cardinality(Untold(p, {"fill", "add"}))
                              + Cardinality(Untold(p, {"mark", "subtract"}))
    /\ \A pb \in DOMAIN used :
        /\ used_count[pb] = Cardinality(used[pb])
        /\ pb[2] > 0 => total_count[pb] = used_count[pb] + Len(free[pb])
    /\ \A h \in held : chunk_size[h.chunk] = h.size

\* The assertion an allocation makes of the mark of a chunk it reuses fails at
\* most while the call that freed the chunk has not marked it: once all calls
\* are over every chunk of a free list is marked as freed.
FreeMarked ==
    \A pb \in DOMAIN free : \A c \in Range(free[pb]) :
        magic[c] = "freed" \/ \E t \in Threads : At(t, "mark") /\ call[t].chunk = c

\* The totals of a pool agree with what its buckets count, but for the calls under
\* way, and a chunk that was freed is marked so, or its free has still to mark it.
SizesMarked == SizesAgree /\ FreeMarked
=============================================================================
