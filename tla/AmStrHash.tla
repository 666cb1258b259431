------------------------------ MODULE AmStrHash ------------------------------
(***************************************************************************)
(* The hash table with string keys of src/src/libam_strhash.c: chains that *)
(* are moved to twice as many buckets when the table fills up, a list of   *)
(* spare entries, a callback for the values that leave, and an optional    *)
(* lock around every operation, which makes an operation one step here.    *)
(*                                                                         *)
(* A lookup compares the hashes of the keys and strings only when the two  *)
(* pointers are the same, so that it never tells apart two keys with the   *)
(* same hash.                                                              *)
(***************************************************************************)
EXTENDS Integers, Sequences, FiniteSets, SequencesExt

CONSTANTS Hashes,           \* the hashes of the keys in use
          Values,           \* the values, each stored once at most
          Entries,          \* the addresses an entry can have, numbers
          NULL,
          InitialCapacity,  \* inital_capacity
          Percents,         \* the values of attr.percent_threashold
          Thresholds,       \* the values of attr.bucket_threashold
          FreeSize,         \* attr.free_size
          FlagSets,         \* the flags given to amstrhash_init
          CapacityLimit     \* bound: the number of buckets

\* amstrhash_init raises a smaller capacity, and replaces thresholds that would
\* not do.
ASSUME InitAssumption ==
    /\ Hashes \subseteq Nat
    /\ InitialCapacity \in Nat /\ InitialCapacity >= 8 /\ CapacityLimit \in Nat
    /\ Percents \subseteq Nat \ {0} /\ Thresholds \subseteq Nat \ {0, 1}
    /\ FreeSize \in Nat
    /\ \A f \in FlagSets : f \subseteq {"FIXED_SIZE", "USE_LOCK", "DUP_KEYS", "OVERWRITE",
                                        "NO_FREE_CB"}
ASSUME NamesAssumption == /\ NULL \notin Values \cup Entries
                          /\ Entries \subseteq Nat \ {0} /\ IsFiniteSet(Entries)

VARIABLES flags, percent, threshold,  \* flags and attr
          capacity,   \* hash->capacity
          size,       \* hash->size
          chain,      \* chain[b]: the entries of bucket b, in list order
          count,      \* count[b]: buckets[b].size
          key_hash,   \* of the entries
          value,      \* of the entries
          spare,      \* free_ents
          free_size,  \* hash->free_size
          dups,       \* keys strdup'ed and not freed
          lock,       \* the lock is held by a call that returned
          outside,    \* the values that are not the table's: never stored, or
                      \* handed to on_delete, or handed to the caller
          reply       \* what the last call told of its key

table == <<capacity, size, chain, count, key_hash, value, spare, free_size, dups>>
vars == <<flags, percent, threshold, table, lock, outside, reply>>

Buckets == 0 .. capacity - 1

Init ==
    /\ flags \in FlagSets /\ percent \in Percents /\ threshold \in Thresholds
    /\ capacity = InitialCapacity
    /\ size = 0
    /\ chain = [b \in Buckets |-> <<>>]
    /\ count = [b \in Buckets |-> 0]
    /\ key_hash = [e \in Entries |-> 0]
    /\ value = [e \in Entries |-> NULL]
    /\ spare = <<>> /\ free_size = 0
    /\ dups = 0
    /\ lock = FALSE
    /\ outside = Values
    /\ reply = NULL

\* The elements of s at the positions P, in the order of s.
Picked(s, P) ==
    [k \in 1 .. Cardinality(P) |-> s[CHOOSE i \in P : Cardinality({j \in P : j <= i}) = k]]

\* amstrhash_bucket
BucketOf(h) == h % capacity

\* The entry the loops of insert and find stop at, or NULL.
Found(h) ==
    LET entries == chain[BucketOf(h)]
        matches == {i \in DOMAIN entries : key_hash[entries[i]] = h}
    IN  IF matches = {} THEN NULL ELSE entries[Min(matches)]

Linked == UNION {Range(chain[b]) : b \in Buckets}

FoundValue(h) == IF Found(h) = NULL THEN NULL ELSE value[Found(h)]

\* Each call answers with the value it finds for its key.
Answer(h) == reply' = [key |-> h, item |-> FoundValue(h)]

\* A call on a locked table waits.
CallOn(h) == ~lock /\ Answer(h) /\ UNCHANGED <<flags, percent, threshold, lock>>

-----------------------------------------------------------------------------
(* amstrhash_insert                                                         *)

Overwrites == "OVERWRITE" \in flags

\* on_delete gets the old value.
InsertOverwrite(h, v) ==
    /\ CallOn(h) /\ Found(h) # NULL /\ Overwrites
    /\ value' = [value EXCEPT ![Found(h)] = v]
    /\ outside' = (outside \ {v}) \cup {value[Found(h)]}
    /\ UNCHANGED <<capacity, size, chain, count, key_hash, spare, free_size, dups>>

InsertExists(h) ==
    /\ CallOn(h) /\ Found(h) # NULL /\ ~Overwrites
    /\ UNCHANGED <<table, outside>>

ShouldResize(h) ==
    /\ "FIXED_SIZE" \notin flags
    /\ \/ size + 1 >= (percent * capacity) \div 100
       \/ count[BucketOf(h)] + 1 >= threshold

\* Slip: an entry stays in the bucket it was in.
UpsizedNot ==
    [b \in 0 .. 2 * capacity - 1 |-> IF b < capacity THEN Reverse(chain[b]) ELSE <<>>]

\* amstrhash_upsize: every chain is taken apart from its front, each entry going
\* to the front of the bucket its hash has among twice as many.
Upsized ==
    [b \in 0 .. 2 * capacity - 1 |->
        LET old == chain[b % capacity]
        IN  Reverse(Picked(old, {i \in DOMAIN old : key_hash[old[i]] % (2 * capacity) = b}))]

Upsize(h) ==
    IF ShouldResize(h)
    THEN [capacity |-> 2 * capacity, chain |-> Upsized,
          count |-> [b \in DOMAIN Upsized |-> Len(Upsized[b])]]
    ELSE [capacity |-> capacity, chain |-> chain, count |-> count]

\* What malloc may return: the lowest free address.
Unallocated == Entries \ (Linked \cup Range(spare))
Fresh == CHOOSE e \in Unallocated : \A f \in Unallocated : e <= f

\* Slip: the counter of the bucket the key had before the resize goes up.
InsertNewStale(h, v) ==
    LET up == Upsize(h)
        b == h % up.capacity
        e == IF spare # <<>> THEN Head(spare) ELSE Fresh
    IN  /\ CallOn(h) /\ Found(h) = NULL
        /\ spare # <<>> \/ Unallocated # {}
        /\ up.capacity <= CapacityLimit
        /\ capacity' = up.capacity
        /\ chain' = [up.chain EXCEPT ![b] = <<e>> \o @]
        /\ count' = [up.count EXCEPT ![BucketOf(h)] = @ + 1]
        /\ size' = size + 1
        /\ key_hash' = [key_hash EXCEPT ![e] = h]
        /\ value' = [value EXCEPT ![e] = v]
        /\ spare' = IF spare # <<>> THEN Tail(spare) ELSE spare
        /\ free_size' = IF spare # <<>> THEN free_size - 1 ELSE free_size
        /\ dups' = IF "DUP_KEYS" \in flags THEN dups + 1 ELSE dups
        /\ outside' = outside \ {v}

\* The table is resized if need be, and amstrhash_ent_new takes a spare entry,
\* or a new one, and puts it at the front of its chain.
InsertNew(h, v) ==
    LET up == Upsize(h)
        b == h % up.capacity
        e == IF spare # <<>> THEN Head(spare) ELSE Fresh
    IN  /\ CallOn(h) /\ Found(h) = NULL
        /\ spare # <<>> \/ Unallocated # {}
        /\ up.capacity <= CapacityLimit
        /\ capacity' = up.capacity
        /\ chain' = [up.chain EXCEPT ![b] = <<e>> \o @]
        /\ count' = [up.count EXCEPT ![b] = @ + 1]
        /\ size' = size + 1
        /\ key_hash' = [key_hash EXCEPT ![e] = h]
        /\ value' = [value EXCEPT ![e] = v]
        /\ spare' = IF spare # <<>> THEN Tail(spare) ELSE spare
        /\ free_size' = IF spare # <<>> THEN free_size - 1 ELSE free_size
        /\ dups' = IF "DUP_KEYS" \in flags THEN dups + 1 ELSE dups
        /\ outside' = outside \ {v}

\* There is no memory: for the buckets, and nothing happens; or for the copy of
\* the key or the entry, and the table has been resized all the same.
InsertNoMemory(h) ==
    /\ CallOn(h) /\ Found(h) = NULL
    /\ \/ /\ ShouldResize(h)
          /\ UNCHANGED table
       \/ /\ "DUP_KEYS" \in flags \/ spare = <<>>
          /\ Upsize(h).capacity <= CapacityLimit
          /\ capacity' = Upsize(h).capacity
          /\ chain' = Upsize(h).chain
          /\ count' = Upsize(h).count
          /\ UNCHANGED <<size, key_hash, value, spare, free_size, dups>>
    /\ UNCHANGED outside

-----------------------------------------------------------------------------
(* amstrhash_find, the setter of a value, removals, amstrhash_term          *)

Find(h) ==
    /\ CallOn(h)
    /\ UNCHANGED <<table, outside>>

\* amstrhash_set_ent_value, by a caller that keeps the old value; not locked.
SetEntValue(h, v) ==
    /\ Found(h) # NULL /\ Answer(h)
    /\ value' = [value EXCEPT ![Found(h)] = v]
    /\ outside' = (outside \ {v}) \cup {value[Found(h)]}
    /\ UNCHANGED <<flags, percent, threshold, lock, capacity, size, chain, count, key_hash,
                   spare, free_size, dups>>

\* amstrhash_ent_remove: the value goes to on_delete and the entry to the spares
\* or to free.
EntRemove(e) ==
    LET keep == free_size < FreeSize
        b == BucketOf(key_hash[e])
    IN  /\ outside' = outside \cup {value[e]}
        /\ value' = [value EXCEPT ![e] = NULL]
        /\ dups' = IF "DUP_KEYS" \in flags THEN dups - 1 ELSE dups
        /\ chain' = [c \in Buckets |->
                        Picked(chain[c], {i \in DOMAIN chain[c] : chain[c][i] # e})]
        /\ size' = size - 1
        /\ count' = [count EXCEPT ![b] = @ - 1]
        /\ spare' = IF keep THEN <<e>> \o spare ELSE spare
        /\ free_size' = IF keep THEN free_size + 1 ELSE free_size
        /\ key_hash' = IF keep THEN key_hash ELSE [key_hash EXCEPT ![e] = 0]
        /\ UNCHANGED capacity

\* amstrhash_remove and amstrhash_remove_key: a caller of the first has looked
\* its entry up before, maybe before a resize, and nobody removed it since.
RemoveEntry(h) ==
    /\ CallOn(h) /\ Found(h) # NULL
    /\ EntRemove(Found(h))

\* amstrhash_remove_key returns without unlocking when there is no such key.
RemoveMissing(h) ==
    /\ ~lock /\ Found(h) = NULL
    /\ Answer(h)
    /\ lock' = ("USE_LOCK" \in flags)
    /\ UNCHANGED <<flags, percent, threshold, table, outside>>

\* amstrhash_term: every entry is removed, with or without on_delete, and all
\* entries are freed; a caller that wanted no callback still has its values.
Term ==
    /\ ~lock
    /\ size' = 0 /\ dups' = 0
    /\ chain' = [b \in Buckets |-> <<>>]
    /\ count' = [b \in Buckets |-> 0]
    /\ value' = [e \in Entries |-> NULL]
    /\ key_hash' = [e \in Entries |-> 0]
    /\ spare' = <<>> /\ free_size' = 0
    /\ outside' = outside \cup {value[e] : e \in Linked}
    /\ reply' = NULL
    /\ UNCHANGED <<flags, percent, threshold, lock, capacity>>

-----------------------------------------------------------------------------
Next ==
    \/ \E h \in Hashes :
        \/ \E v \in outside : InsertOverwrite(h, v) \/ InsertNew(h, v) \/ SetEntValue(h, v)
        \/ InsertExists(h) \/ InsertNoMemory(h) \/ Find(h)
        \/ RemoveEntry(h) \/ RemoveMissing(h)
    \/ Term

Spec == Init /\ [][Next]_vars

-----------------------------------------------------------------------------
(* Properties                                                               *)

\* Every count of amstrhash agrees with what it counts, through resizes, failed
\* insertions and reuse: an entry is in the one bucket its hash has now, once,
\* or among the spares, and the keys it copied are the keys it will free.
Bookkeeping ==
    /\ \A b \in Buckets :
        /\ count[b] = Len(chain[b])
        /\ \A i \in 1 .. Len(chain[b]) : BucketOf(key_hash[chain[b][i]]) = b
        /\ IsInjective(chain[b])
    /\ size = Cardinality(Linked)
    /\ free_size = Len(spare) /\ IsInjective(spare)
    /\ Linked \cap Range(spare) = {}
    /\ dups = IF "DUP_KEYS" \in flags THEN size ELSE 0

\* No value is lost and none is given away twice: each is stored in one entry
\* or is outside, with the callers or with on_delete.
ValuesConserved ==
    /\ outside = Values \ {value[e] : e \in Linked}
    /\ \A e, f \in Linked : value[e] = value[f] => e = f

\* The counts of the table and of its buckets are right across resizes, and no
\* value is lost or in two places (amstrhash_insert, amstrhash_upsize).
TableSound == Bookkeeping /\ ValuesConserved

Stored == [h \in {key_hash[e] : e \in Linked} |-> FoundValue(h)]

Map == INSTANCE AmMap WITH Keys <- Hashes, Items <- Values, contents <- Stored

\* The table is a map from the hashes of its keys: whatever it is resized to
\* and whichever entries it reuses, a call changes and answers for its own key.
ImplementsMap == Map!Spec
=============================================================================
