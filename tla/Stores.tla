------------------------------- MODULE Stores -------------------------------
(***************************************************************************)
(* The backends that keep values: Redis, FeOxDB and Moka.  A program has   *)
(* one of them, chosen when it starts.  The variables of the others stay   *)
(* None; those that have one name in several modules are one.              *)
(***************************************************************************)
EXTENDS CacheValue

CONSTANTS
    Tasks, Lifetimes, MAX_TIME,                             \* of several
    Home, Timeouts, Faults,                                 \* of Redis
    Keys, Paths, CAPACITY, MAX_RESTARTS,                    \* of FeOxDB
    MokaKeys, KeySize, Sizes, Expires, OVERHEAD, U32_MAX,   \* of Moka
    MAX_ENTRIES, MAX_BYTES, Kinds, Policies, MAX_TASKS, MAX_WRITES

VARIABLES
    backend,                              \* which one
    now, op,                              \* of several
    timeouts, silent, hash, cell, opened, gaveup,    \* of Redis
    path, store, file, restarts, lost,    \* of FeOxDB
    kind, given, policy, cache, order, pending, due, gauge, writes    \* of Moka

redisVars == <<timeouts, silent, hash, cell, opened, gaveup>>
feoxVars  == <<path, store, file, restarts, lost>>
mokaVars  == <<kind, given, policy, cache, order, pending, due, gauge, writes>>
vars == <<backend, now, op, redisVars, feoxVars, mokaVars>>

Redis == INSTANCE RedisBackend
FeOx  == INSTANCE FeOxDbBackend
Moka  == INSTANCE MokaBackend WITH Keys <- MokaKeys

ASSUME StoresAssumption == Redis!ConstantsOK /\ FeOx!ConstantsOK /\ Moka!ConstantsOK

-----------------------------------------------------------------------------
NoRedis == /\ timeouts = None /\ silent = None /\ hash = None /\ cell = None /\ opened = None
           /\ gaveup = None
NoFeOx  == path = None /\ store = None /\ file = None /\ restarts = None /\ lost = None
NoMoka  == /\ kind = None /\ given = None /\ policy = None /\ cache = None /\ order = None
           /\ pending = None /\ due = None /\ gauge = None /\ writes = None

Init ==
    \/ backend = "redis" /\ Redis!Init /\ NoFeOx /\ NoMoka
    \/ backend = "feoxdb" /\ FeOx!Init /\ NoRedis /\ NoMoka
    \/ backend = "moka" /\ Moka!Init /\ op = None /\ NoRedis /\ NoFeOx

NotRedis == UNCHANGED <<backend, feoxVars, mokaVars>>

RedisClient(t) == backend = "redis" /\ Redis!Client(t) /\ NotRedis
RedisServer(t) == backend = "redis" /\ Redis!AnswersInTime(t) /\ NotRedis
RedisNext    == backend = "redis" /\ Redis!Next /\ NotRedis
FeOxNext     == backend = "feoxdb" /\ FeOx!Next /\ UNCHANGED <<backend, redisVars, mokaVars>>
MokaNext     == backend = "moka" /\ Moka!Next /\ UNCHANGED <<backend, op, redisVars, feoxVars>>

Next == RedisNext \/ FeOxNext \/ MokaNext

Fairness == \A t \in Tasks : WF_vars(RedisClient(t)) /\ WF_vars(RedisServer(t))

Spec == Init /\ [][Next]_vars /\ Fairness

-----------------------------------------------------------------------------
(* The properties of each module, about the program that has its backend.   *)

(* State stays within the types of the backend's module. *)
TypeOK ==
    /\ backend = "redis" => Redis!TypeOK
    /\ backend = "feoxdb" => FeOx!TypeOK
    /\ backend = "moka" => Moka!TypeOK

(* Redis drops every entry in time unless a write failed in between, and a  *)
(* process opens one connection to it.                                      *)
WithinLimits == backend = "redis" => Redis!EntriesExpire /\ Redis!OneConnection

(* An operation on Redis that was started returns if Redis answers, or if   *)
(* the program has set the timeout of the stage it is in.                   *)
OperationsEnd ==
    \A t \in Tasks :
        (backend = "redis" /\ Redis!Due(t))
            ~> (backend = "redis" => Redis!Ended(t) \/ (Redis!Sent(t) /\ Redis!Waits("response")))

(* A read of FeOxDB does not go back behind what its caller could know. *)
ReadsTheLatest == backend = "feoxdb" => FeOx!ReadsTheLatest

(* What was written to FeOxDB is found until its time is over or somebody   *)
(* removes or replaces it, after a restart if it was flushed.               *)
WrittenIsFound == backend = "feoxdb" => FeOx!MissForAReason

(* Moka lets an entry go only when it is deleted, over, or for lack of room.*)
LostForAReason ==
    [][backend = "moka" => \A k \in MokaKeys : Moka!IsLostForAReason(k)]_vars

(* Moka makes room and no more than that: what it holds fits the capacity   *)
(* it was built with, no entry goes without a reason, and with LRU a new    *)
(* entry that fits is not the one that has to go.                           *)
EvictsOnlyForRoom ==
    /\ [](backend = "moka" => Moka!WithinCapacity)
    /\ LostForAReason
    /\ [][backend = "moka" /\ Moka!IsLru => \A k \in MokaKeys : ~Moka!IsNotAdmitted(k)]_vars
=============================================================================
