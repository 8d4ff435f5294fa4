----------------------------- MODULE CacheValue -----------------------------
(***************************************************************************)
(* CacheValue (hitbox-core/src/value.rs): cached data with the times at    *)
(* which it turns stale and expires.  Time is counted in ticks, SECOND of  *)
(* them to a second: the code compares timestamps exactly, but ttl() rounds*)
(* down to whole seconds.  The data of a value is the number of the        *)
(* upstream response it came from.                                         *)
(***************************************************************************)
EXTENDS Naturals

CONSTANTS
    SECOND,   \* ticks in a second
    None

Times == Nat \cup {None}

CacheValues == [data : Nat, expire : Times, stale : Times]

ASSUME CacheValueAssumption ==
    /\ SECOND \in Nat \ {0}
    /\ None \notin Nat /\ None \notin CacheValues

Passed(time, now) == time # None /\ time <= now

StateStaleFirst(value, now) ==     \* mutant: looks at the stale time first
    IF Passed(value.stale, now) THEN "Stale"
    ELSE IF Passed(value.expire, now) THEN "Expired" ELSE "Actual"

(* cache_state(): the expiry is looked at before the stale time. *)
CacheState(value, now) ==
    IF Passed(value.expire, now) THEN "Expired"
    ELSE IF Passed(value.stale, now) THEN "Stale" ELSE "Actual"

(* ttl(): the seconds a value has left, None when that rounds down to none. *)
Ttl(value, now) ==
    IF value.expire # None /\ value.expire >= now + SECOND
    THEN (value.expire - now) \div SECOND ELSE None

After(duration, now) == IF duration = None THEN None ELSE now + duration

(* cache_policy() of a cacheable response: both lifetimes start now. *)
FreshValue(data, config, now) ==
    [data |-> data, expire |-> After(config.ttl, now),
     stale |-> After(config.stale_ttl, now)]
=============================================================================
