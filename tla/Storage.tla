------------------------------ MODULE Storage -------------------------------
(***************************************************************************)
(* One key in each of the stores a hitbox backend keeps values in: Moka    *)
(* (in process), Redis and FeOxDB.  An entry is the value as it will be    *)
(* read back, with the time until which the store itself keeps it; the     *)
(* entry is dropped when that time comes (the stores do so when they next  *)
(* look at it).  The three differ in what they keep of the value's times:  *)
(*   - Moka keeps the value, and drops it exactly when it expires;         *)
(*   - FeOxDB keeps the value, and drops it after its ttl() in whole       *)
(*     seconds, or never if that is None;                                  *)
(*   - Redis keeps data and stale time in a hash, and the expiry only as   *)
(*     the time to live of the key: HSET leaves the stale field and the    *)
(*     time to live of a previous value alone where the new one has none.  *)
(* The commands of a Redis pipeline are taken to run back to back.         *)
(***************************************************************************)
EXTENDS CacheValue

Stores  == {"Moka", "Redis", "FeOxDb"}
Entries == [data : Nat, expire : Times, stale : Times, until : Times]

ASSUME StorageAssumption == None \notin Entries

KeptAt(entry, now) == IF entry = None \/ Passed(entry.until, now) THEN None ELSE entry

(* read(): the value found, or None.  FeOxDB compares the expiry with < . *)
Read(store, entry, now) ==
    IF \/ entry = None
       \/ store = "FeOxDb" /\ entry.expire # None /\ entry.expire < now
    THEN None
    ELSE [data |-> entry.data, expire |-> entry.expire, stale |-> entry.stale]

WholeSeconds(value, now) ==
    IF Ttl(value, now) = None THEN None ELSE now + SECOND * Ttl(value, now)

OldField(old, field) == IF old = None THEN None ELSE old[field]

MokaWrite(value) ==
    [data |-> value.data, expire |-> value.expire, stale |-> value.stale,
     until |-> value.expire]

FeOxDbWrite(value, now) ==
    [data |-> value.data, expire |-> value.expire, stale |-> value.stale,
     until |-> WholeSeconds(value, now)]

(* HSET, and EXPIRE if the value has a ttl(). *)
RedisWrite(old, value, now) ==
    LET until == IF Ttl(value, now) = None THEN OldField(old, "until")
                 ELSE WholeSeconds(value, now)
    IN [data   |-> value.data,
        expire |-> until,
        stale  |-> IF value.stale = None THEN OldField(old, "stale") ELSE value.stale,
        until  |-> until]

(* write(): the entry that takes the place of the old one. *)
Write(store, old, value, now) ==
    KeptAt(CASE store = "Moka"   -> MokaWrite(value)
             [] store = "FeOxDb" -> FeOxDbWrite(value, now)
             [] store = "Redis"  -> RedisWrite(old, value, now), now)

(* A write after which the entry may outlive the value. *)
Immortal(store, value, now) ==
    store = "Redis" /\ value.expire # None /\ Ttl(value, now) = None
=============================================================================
