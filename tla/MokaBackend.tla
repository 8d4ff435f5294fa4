----------------------------- MODULE MokaBackend -----------------------------
(***************************************************************************)
(* MokaBackend (hitbox-moka): an in-process cache with a capacity, in      *)
(* entries or in bytes, a time to live for each entry and gauges of what   *)
(* it holds.  Moka itself, which is not part of the repository, applies    *)
(* writes at once for its readers and later, in pending tasks, to its      *)
(* counts and its order of eviction; it is modelled as far as the backend, *)
(* its comments and its tests rely on it.                                  *)
(***************************************************************************)
EXTENDS Naturals, Sequences, FiniteSets, SequencesExt, FiniteSetsExt

CONSTANTS
    Keys,
    Sizes,        \* sizes of data
    Expires,      \* expiry times of values, None if they do not expire
    KeySize,      \* key -> CacheKey::memory_size()
    OVERHEAD,     \* size_of::<CacheValue>()
    U32_MAX,
    MAX_ENTRIES, MAX_BYTES,   \* the capacity that max_entries() or max_bytes() set
    Kinds,        \* {"entries", "bytes"}, or one of them
    Policies,     \* policies given to the builder, None if none is
    MAX_TIME, MAX_WRITES,   \* bounds on the clock and on the writes,
    MAX_TASKS,    \* and on the operations that go on at once
    None

Times   == 0..MAX_TIME \cup {None}
Entries == [size : Sizes, expire : Times, until : Times]

(* What an instance has to give the constants. *)
ConstantsOK ==
    /\ Sizes \subseteq Nat /\ Expires \subseteq Times /\ KeySize \in [Keys -> Nat]
    /\ OVERHEAD \in Nat /\ U32_MAX \in Nat \ {0} /\ {MAX_ENTRIES, MAX_BYTES} \subseteq Nat
    /\ Kinds \subseteq {"entries", "bytes"}
    /\ Policies \subseteq {"lru", "tiny_lfu", None} /\ None \notin {"lru", "tiny_lfu"}
    /\ {MAX_TIME, MAX_WRITES, MAX_TASKS} \subseteq Nat
    /\ None \notin Entries

VARIABLES
    kind, given, policy,      \* how the backend was built
    cache,     \* key -> the entry that a read finds, or None
    order,     \* the counted keys, the least recently used first
    pending,   \* writes that Moka has yet to count
    now,
    due,       \* calls of record_metrics() still to come
    gauge,     \* what the gauges show
    writes

vars == <<kind, given, policy, cache, order, pending, now, due, gauge, writes>>

(* build(): TinyLFU for max_entries(), LRU for max_bytes(). *)
EvictionPolicy(g, k) ==
    IF g # None THEN g ELSE IF k = "entries" THEN "tiny_lfu" ELSE "lru"

Init ==
    /\ kind \in Kinds
    /\ given \in Policies
    /\ policy = EvictionPolicy(given, kind)
    /\ cache = [k \in Keys |-> None]
    /\ order = <<>> /\ pending = <<>>
    /\ now = 0 /\ due = 0 /\ writes = 0
    /\ gauge = [entries |-> 0, size |-> 0]

-----------------------------------------------------------------------------
(* memory_size() of the value; the entry's is that of key and value. *)
ValueSize(entry) == OVERHEAD + entry.size
EntrySize(k, entry) == KeySize[k] + ValueSize(entry)

ByteWeigher(k, entry) ==
    IF EntrySize(k, entry) > U32_MAX THEN U32_MAX ELSE EntrySize(k, entry)

Weight(k) == IF kind = "entries" THEN 1 ELSE ByteWeigher(k, cache[k])

MaxCapacity == IF kind = "entries" THEN MAX_ENTRIES ELSE MAX_BYTES

EntryCount   == Len(order)
WeightedSize == MapThenSumSet(Weight, Range(order))

UntilKept(k, value) ==      \* mutant: Moka's own expire_after_update
    IF cache[k] # None THEN cache[k].until
    ELSE IF value.expire = None THEN None
    ELSE IF value.expire < now THEN now ELSE value.expire

(* Expiration: after a create and after an update the time of the value. *)
Until(k, value) ==
    IF value.expire = None THEN None
    ELSE IF value.expire < now THEN now ELSE value.expire

(* The counted keys without one of them; each is counted once. *)
Without(keys, k) ==
    IF Contains(keys, k) THEN RemoveAt(keys, CHOOSE i \in DOMAIN keys : keys[i] = k) ELSE keys

Expired(k) == cache[k].until # None /\ cache[k].until <= now

-----------------------------------------------------------------------------
(* read(): a hit makes the key the most recently used one. *)
Read(k) ==
    /\ cache[k] # None
    /\ order' = IF Contains(order, k) THEN Append(Without(order, k), k) ELSE order
    /\ UNCHANGED <<kind, given, policy, cache, pending, now, due, gauge, writes>>

WriteValue(k, value) ==
    /\ writes < MAX_WRITES /\ due < MAX_TASKS
    /\ cache' = [cache EXCEPT ![k] = [size |-> value.size, expire |-> value.expire,
                                      until |-> Until(k, value)]]
    /\ pending' = Append(pending, k)
    /\ due' = due + 1
    /\ writes' = writes + 1
    /\ UNCHANGED <<kind, given, policy, order, now, gauge>>

Write(k) ==
    \E size \in Sizes, expire \in Expires :
        WriteValue(k, [size |-> size, expire |-> expire])

Delete(k) ==
    /\ cache[k] # None /\ due < MAX_TASKS
    /\ cache' = [cache EXCEPT ![k] = None]
    /\ order' = Without(order, k)
    /\ due' = due + 1
    /\ UNCHANGED <<kind, given, policy, pending, now, gauge, writes>>

(* The last step of write() and remove(). *)
RecordMetrics ==
    /\ due > 0
    /\ due' = due - 1
    /\ gauge' = [entries |-> EntryCount, size |-> WeightedSize]
    /\ UNCHANGED <<kind, given, policy, cache, order, pending, now, writes>>

-----------------------------------------------------------------------------
(* Pending tasks.  The keys that go first until what stays fits. *)
Fits(keys) == MapThenSumSet(Weight, Range(keys)) <= MaxCapacity

Evicted(n, keys) ==
    /\ Fits(SubSeq(keys, n + 1, Len(keys)))
    /\ \A m \in 0..(n - 1) : ~Fits(SubSeq(keys, m + 1, Len(keys)))

Keep(keys, dropped) ==
    /\ order' = keys
    /\ cache' = [k \in Keys |-> IF k \in dropped THEN None ELSE cache[k]]

MakeRoom(keys) ==
    \E n \in 0..Len(keys) :
        /\ Evicted(n, keys)
        /\ Keep(SubSeq(keys, n + 1, Len(keys)), Range(SubSeq(keys, 1, n)))

(* A write is counted: an update moves the key to the end, a new key is     *)
(* admitted if it fits or if others make room - which under TinyLFU they do *)
(* only for a key that is asked for more often than they are.               *)
CountWrite ==
    /\ pending # <<>>
    /\ pending' = Tail(pending)
    /\ LET k == Head(pending) IN
       IF cache[k] = None THEN UNCHANGED <<order, cache>>
       ELSE IF Weight(k) > MaxCapacity THEN Keep(Without(order, k), {k})
       ELSE \/ MakeRoom(Append(Without(order, k), k))
            \/ /\ policy = "tiny_lfu" /\ ~Contains(order, k) /\ ~Fits(Append(order, k))
               /\ Keep(order, {k})
    /\ UNCHANGED <<kind, given, policy, now, due, gauge, writes>>

Expire(k) ==
    /\ cache[k] # None /\ Expired(k)
    /\ Keep(Without(order, k), {k})
    /\ UNCHANGED <<kind, given, policy, pending, now, due, gauge, writes>>

Tick ==
    /\ now < MAX_TIME
    /\ now' = now + 1
    /\ UNCHANGED <<kind, given, policy, cache, order, pending, due, gauge, writes>>

Next == \/ \E k \in Keys : Read(k) \/ Write(k) \/ Delete(k) \/ Expire(k)
        \/ RecordMetrics \/ CountWrite \/ Tick

Spec == Init /\ [][Next]_vars

-----------------------------------------------------------------------------
TypeOK ==
    /\ kind \in {"entries", "bytes"} /\ given \in Policies /\ policy \in {"lru", "tiny_lfu"}
    /\ cache \in [Keys -> Entries \cup {None}]
    /\ order \in Seq(Keys) /\ pending \in Seq(Keys)
    /\ now \in 0..MAX_TIME /\ due \in 0..MAX_TASKS /\ writes \in 0..MAX_WRITES
    /\ \A k \in Range(order) : cache[k] # None

(* Once Moka has done what is pending, the memory of keys and values is     *)
(* within max_bytes(), and their number within max_entries() - also after   *)
(* updates that change a value's size.  (An entry of more than u32::MAX     *)
(* bytes is taken for one of u32::MAX.)                                     *)
Held == {k \in Keys : cache[k] # None}
Memory(k) == EntrySize(k, cache[k])

WithinCapacity ==
    pending = <<>> =>
        IF kind = "entries" THEN Cardinality(Held) <= MaxCapacity
        ELSE \/ MapThenSumSet(Memory, Held) <= MaxCapacity
             \/ \E k \in Held : Memory(k) > U32_MAX

(* An entry goes only when somebody deletes it, for lack of room, or when   *)
(* the time of the value that was written last is over: a longer one is not *)
(* cut short by the time of the value before it (builder.rs:36-40).         *)
IsLostForAReason(k) ==
    cache[k] # None /\ cache'[k] = None =>
        \/ Delete(k)
        \/ /\ CountWrite
           /\ Weight(k) > MaxCapacity \/ ~Fits(Append(Without(order, Head(pending)), Head(pending)))
        \/ cache[k].expire # None /\ cache[k].expire <= now
LostForAReason == [][\A k \in Keys : IsLostForAReason(k)]_vars

(* With LRU, which max_bytes() gets unless told otherwise, a new entry that  *)
(* fits is never the one that has to go for it; it is the one to find when  *)
(* the same request comes again.                                            *)
IsNotAdmitted(k) ==
    /\ CountWrite /\ k = Head(pending)
    /\ cache[k] # None /\ cache'[k] = None /\ Weight(k) <= MaxCapacity

IsLru     == given = "lru" \/ (given = None /\ kind = "bytes")
LruAdmits == [][IsLru => \A k \in Keys : ~IsNotAdmitted(k)]_vars
=============================================================================
