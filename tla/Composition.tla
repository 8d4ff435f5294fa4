---------------------------- MODULE Composition -----------------------------
(***************************************************************************)
(* CompositionBackend (hitbox-backend/src/composition): two backends, L1   *)
(* in front of L2, under a read, a write and a refill policy, used by      *)
(* concurrent requests for one key (operations on different keys share     *)
(* nothing) the way CacheFuture uses a backend: get, then answer, refill   *)
(* or fetch and set.  Concurrency limits are in the module CacheFuture and *)
(* are left out here, so every request that misses fetches.                *)
(*                                                                         *)
(* A composition is called through its own type ("static"), or as a        *)
(* Box<dyn Backend> ("dyn"), where the default methods of CacheBackend run *)
(* over read, write and remove, and the layers travel in one envelope.     *)
(*                                                                         *)
(* An operation on a layer takes effect in one step; the two of a race or  *)
(* of a parallel policy do so in either order.                             *)
(***************************************************************************)
EXTENDS Storage, Sequences

CONSTANTS
    Clients,
    Configs,      \* the configurations to consider
    Faults,       \* "read", "write": a layer's operation fails; "drop": its
                  \* caller drops a future; "evict": a store drops an entry
    MAX_TIME,     \* bound on the clock
    MAX_FETCHES,  \* bound on the responses of the upstream
    MAX_CALLS,    \* bound on the requests and deletes
    MAX_FAULTS    \* bound on the faults

L1 == "L1"
L2 == "L2"
Layers == {L1, L2}
Other(l) == IF l = L1 THEN L2 ELSE L1

CompositionConfig ==
    [store    : [Layers -> Stores],
     read     : {"Sequential", "Race", "Parallel"},
     write    : {"Sequential", "OptimisticParallel", "RaceOffload", "RaceDrop"},
     refill   : {"Always", "Never"},
     dispatch : {"static", "dyn"},
     stale    : {"Return", "Revalidate", "OffloadRevalidate"},
     ttl      : Times, stale_ttl : Times]

ASSUME CompositionAssumption ==
    /\ Configs \subseteq CompositionConfig
    /\ Faults \subseteq {"read", "write", "drop", "evict"}
    /\ MAX_TIME \in Nat /\ MAX_FETCHES \in Nat /\ MAX_CALLS \in Nat
    /\ MAX_FAULTS \in Nat
    /\ None \notin Layers

VARIABLES
    config,
    now,      \* the clock
    layers,   \* layer -> the entry its store has, or None
    ops,      \* client -> the request or delete it is busy with
    late,     \* writes whose caller did not wait for them
    offered,  \* when each cacheable response of the upstream expires (history)
    calls,    \* number of requests and deletes begun (history)
    faults,   \* number of faults so far (history)
    floor,    \* the least data a get that starts now may answer (history)
    causes    \* what has happened that excuses the layers (history)

vars == <<config, now, layers, ops, late, offered, calls, faults, floor, causes>>

-----------------------------------------------------------------------------
Unstarted == [l \in Layers |-> [status |-> "Unstarted", value |-> None]]
Unwritten == [l \in Layers |-> "Unstarted"]

Operation ==
    [pc     : {"Idle", "Getting", "Fetching", "Setting", "Deleting"},
     ctx    : {"Direct", "Refill"},                          \* ReadMode
     read   : [Layers -> [status : {"Unstarted", "Pending", "Hit", "Miss", "Error"},
                          value  : CacheValues \cup {None}]],
     write  : [Layers -> {"Unstarted", "Pending", "Ok", "Error"}],
     value  : CacheValues \cup {None},                       \* the value to set
     floor  : Nat]                              \* floor when its get began (history)

LateWrite == [layer : Layers, value : CacheValues, offloaded : BOOLEAN]

Idle == [pc |-> "Idle", ctx |-> "Direct", read |-> Unstarted, write |-> Unwritten,
         value |-> None, floor |-> 0]

(* Besides the types: an idle client has no operation left over, and only   *)
(* a race that offloads its loser has a write in the background that is     *)
(* bound to be tried.                                                       *)
TypeOK ==
    /\ config \in Configs
    /\ now \in 0..MAX_TIME
    /\ layers \in [Layers -> Entries \cup {None}]
    /\ ops \in [Clients -> Operation]
    /\ late \subseteq LateWrite
    /\ offered \in Seq(Times) /\ Len(offered) <= MAX_FETCHES
    /\ calls \in 0..MAX_CALLS /\ faults \in 0..MAX_FAULTS
    /\ floor \in 0..MAX_FETCHES + 1
    /\ causes \subseteq {"fault", "overlap", "late", "evicted", "skipped", "untimed", "immortal"}
    /\ \A c \in Clients :
        /\ ops[c].pc = "Idle" => ops[c].write = Unwritten
        /\ ops[c].pc # "Getting" => ops[c].read = Unstarted
        /\ ops[c].pc = "Setting" <=> ops[c].value # None
    /\ (\E w \in late : w.offloaded) => config.write = "RaceOffload"

Init ==
    /\ config \in Configs
    /\ now = 0
    /\ layers = [l \in Layers |-> None]
    /\ ops = [c \in Clients |-> Idle]
    /\ late = {}
    /\ offered = <<>>
    /\ calls = 0 /\ faults = 0
    /\ floor = 0
    /\ causes = {}

-----------------------------------------------------------------------------
(* The read policies. *)
Hits(read)    == {l \in Layers : read[l].status = "Hit"}
Ended(status) == status \notin {"Unstarted", "Pending"}

StartRead == [l \in Layers |->
    [status |-> IF config.read = "Sequential" /\ l = L2 THEN "Unstarted" ELSE "Pending",
     value |-> None]]

(* A sequential read goes on to L2 when L1 missed or failed. *)
ReadNext(read) ==
    IF config.read = "Sequential" /\ read[L2].status = "Unstarted" /\ L1 \notin Hits(read)
    THEN [read EXCEPT ![L2].status = "Pending"]
    ELSE read

ReadDecided(read) ==
    \/ \A l \in Layers : Ended(read[l].status)
    \/ config.read # "Parallel" /\ Hits(read) # {}

PreferShorter(v1, v2) ==      \* mutant of Prefer: the comparison the other way
    LET ttl1 == Ttl(v1, now) ttl2 == Ttl(v2, now) IN
    IF ttl2 # None /\ (ttl1 = None \/ ttl2 < ttl1) THEN L2 ELSE L1

(* A parallel read that hits twice prefers the longer ttl(), and no ttl()   *)
(* to any.                                                                  *)
Prefer(v1, v2) ==
    LET ttl1 == Ttl(v1, now) ttl2 == Ttl(v2, now) IN
    IF ttl1 # None /\ (ttl2 = None \/ ttl2 > ttl1) THEN L2 ELSE L1

(* The layer a decided read takes its value from, None for a miss or error. *)
ReadSource(read) ==
    CASE Hits(read) = {}                                   -> None
      [] Hits(read) = Layers /\ config.read = "Parallel"   ->
             Prefer(read[L1].value, read[L2].value)
      [] OTHER -> IF L1 \in Hits(read) THEN L1 ELSE L2

(* The read mode that get() leaves in the context: a composition that is    *)
(* called through a trait object asks for a refill whatever the policy.     *)
CtxAfterGet(read) ==
    IF ReadSource(read) = L2 /\ (config.refill = "Always" \/ config.dispatch = "dyn")
    THEN "Refill" ELSE "Direct"

-----------------------------------------------------------------------------
(* The write policies.  In refill mode only L1 is written, and nothing at   *)
(* all when the default set() of a trait object sees the mode.              *)
Targets(ctx) ==
    IF ctx = "Direct" THEN Layers
    ELSE IF config.dispatch = "static" /\ config.refill = "Always" THEN {L1} ELSE {}

StartWrite(ctx) == [l \in Layers |->
    IF l \in Targets(ctx) /\ ~(config.write = "Sequential" /\ l = L2)
    THEN "Pending" ELSE "Unstarted"]

(* A sequential write goes on to L2 when L1 was written. *)
WriteNext(op, write) ==
    IF /\ op.pc = "Setting" /\ config.write = "Sequential" /\ op.ctx = "Direct"
       /\ write[L1] = "Ok" /\ write[L2] = "Unstarted"
    THEN [write EXCEPT ![L2] = "Pending"]
    ELSE write

Racing(op) == op.ctx = "Direct" /\ config.write \in {"RaceOffload", "RaceDrop"}

WriteDecided(op) ==
    \/ \A l \in Layers : op.write[l] # "Pending"
    \/ Racing(op) /\ \E l \in Layers : op.write[l] = "Ok"

SetOkIfAny(op) == \E l \in Layers : op.write[l] = "Ok"     \* mutant of SetOk

(* What set() returns: a race and an optimistic write need one layer. *)
SetOk(op) ==
    IF op.ctx = "Refill" \/ config.write = "Sequential"
    THEN \A l \in Targets(op.ctx) : op.write[l] = "Ok"
    ELSE \E l \in Layers : op.write[l] = "Ok"

-----------------------------------------------------------------------------
Put(c, op)  == ops' = [ops EXCEPT ![c] = op]
Done(c)     == Put(c, Idle)
Blame(what) == causes' = causes \cup what
Fault(kind) == kind \in Faults /\ faults < MAX_FAULTS /\ faults' = faults + 1
Writing     == \/ late # {}
               \/ \E c \in Clients : ops[c].pc \in {"Setting", "Deleting"}

(* A refill is overtaken when something was set or deleted since its value  *)
(* was looked for.                                                          *)
Overtaken(c, value) == floor # ops[c].floor \/ value.data < floor

(* What set() has for the layers.  The envelope of a trait object has no    *)
(* times in it, and the times around it end in write().                     *)
Enveloped(value) ==
    IF config.dispatch = "dyn" THEN [value EXCEPT !.expire = None, !.stale = None]
    ELSE value

(* set() begins.  A skipped set is one that the refill mode keeps from a    *)
(* layer although that layer does not have the value.                       *)
StartSet(c, value, ctx, isRefill) ==
    /\ Put(c, [Idle EXCEPT !.pc = "Setting", !.ctx = ctx, !.value = Enveloped(value),
                           !.write = StartWrite(ctx)])
    /\ Blame((IF Writing \/ (isRefill /\ Overtaken(c, value)) THEN {"overlap"} ELSE {})
             \cup (IF ctx = "Refill" /\ ~isRefill THEN {"skipped"} ELSE {})
             \cup (IF Enveloped(value) # value THEN {"untimed"} ELSE {}))

StartGet(c) ==
    /\ ops[c].pc = "Idle"
    /\ calls < MAX_CALLS
    /\ calls' = calls + 1
    /\ Put(c, [Idle EXCEPT !.pc = "Getting", !.read = StartRead, !.floor = floor])
    /\ UNCHANGED <<config, now, layers, late, offered, faults, floor, causes>>

ReadResult(c, l, status, value) ==
    /\ ops[c].read[l].status = "Pending"
    /\ Put(c, [ops[c] EXCEPT !.read =
                  ReadNext([@ EXCEPT ![l] = [status |-> status, value |-> value]])])
    /\ UNCHANGED <<config, now, layers, late, offered, calls, floor>>

ReadLayer(c, l) ==
    LET found == Read(config.store[l], layers[l], now) IN
    /\ ReadResult(c, l, IF found = None THEN "Miss" ELSE "Hit", found)
    /\ UNCHANGED <<faults, causes>>

ReadFails(c, l) ==
    /\ Fault("read")
    /\ ReadResult(c, l, "Error", None)
    /\ UNCHANGED causes

-----------------------------------------------------------------------------
(* get() returns, and the request looks at the state of the value. *)
Got(c) == ops[c].pc = "Getting" /\ ReadDecided(ops[c].read)

Found(c) == LET source == ReadSource(ops[c].read) IN
            IF source = None THEN None ELSE ops[c].read[source].value

FoundState(c) == IF Found(c) = None THEN "None" ELSE CacheState(Found(c), now)

FoundIn(c, states) == Got(c) /\ FoundState(c) \in states

GoOn(c, pc, ctx) ==
    /\ Put(c, [Idle EXCEPT !.pc = pc, !.ctx = ctx])
    /\ UNCHANGED <<config, now, layers, late, offered, calls, faults, floor, causes>>

ServeActual(c) ==
    /\ FoundIn(c, {"Actual"})
    /\ CtxAfterGet(ops[c].read) = "Direct"
    /\ GoOn(c, "Idle", "Direct")

(* The value is put back with set(), which the refill mode keeps to L1. *)
RefillActual(c) ==
    /\ FoundIn(c, {"Actual"})
    /\ CtxAfterGet(ops[c].read) = "Refill"
    /\ StartSet(c, Found(c), "Refill", TRUE)
    /\ UNCHANGED <<config, now, layers, late, offered, calls, faults, floor>>

ServeStale(c) ==
    /\ FoundIn(c, {"Stale"})
    /\ config.stale = "Return"
    /\ GoOn(c, "Idle", "Direct")

(* The context, and the read mode with it, goes along to the upstream call. *)
RevalidateStale(c) ==
    /\ FoundIn(c, {"Stale"})
    /\ config.stale = "Revalidate"
    /\ GoOn(c, "Fetching", CtxAfterGet(ops[c].read))

(* The background task starts with a context of its own; the client stands  *)
(* for it from here on.                                                     *)
OffloadStale(c) ==
    /\ FoundIn(c, {"Stale"})
    /\ config.stale = "OffloadRevalidate"
    /\ GoOn(c, "Fetching", "Direct")

Miss(c) ==
    /\ FoundIn(c, {"None", "Expired"})
    /\ GoOn(c, "Fetching", CtxAfterGet(ops[c].read))

FetchCacheable(c) ==
    LET data == Len(offered) + 1 fresh == FreshValue(data, config, now) IN
    /\ ops[c].pc = "Fetching"
    /\ data <= MAX_FETCHES
    /\ offered' = Append(offered, fresh.expire)
    /\ StartSet(c, fresh, ops[c].ctx, FALSE)
    /\ UNCHANGED <<config, now, layers, late, calls, faults, floor>>

FetchNonCacheable(c) ==
    /\ ops[c].pc = "Fetching"
    /\ GoOn(c, "Idle", "Direct")

-----------------------------------------------------------------------------
Stored(l, value) == Write(config.store[l], layers[l], value, now)

Apply(l, value, blame) ==
    /\ layers' = [layers EXCEPT ![l] = Stored(l, value)]
    /\ Blame(blame \cup IF Immortal(config.store[l], value, now) THEN {"immortal"} ELSE {})

WriteResult(c, l, status) ==
    /\ ops[c].write[l] = "Pending"
    /\ Put(c, [ops[c] EXCEPT !.write = WriteNext(ops[c], [@ EXCEPT ![l] = status])])
    /\ UNCHANGED <<config, now, late, offered, calls, floor>>

WriteLayer(c, l) ==
    /\ ops[c].pc = "Setting"
    /\ WriteResult(c, l, "Ok")
    /\ Apply(l, ops[c].value, {})
    /\ UNCHANGED faults

(* remove() of a layer. *)
RemoveLayer(c, l) ==
    /\ ops[c].pc = "Deleting"
    /\ WriteResult(c, l, "Ok")
    /\ layers' = [layers EXCEPT ![l] = None]
    /\ UNCHANGED <<faults, causes>>

(* A write or remove fails before, or a write after, it took effect. *)
WriteFails(c, l) ==
    /\ Fault("write")
    /\ WriteResult(c, l, "Error")
    /\ \/ UNCHANGED layers /\ Blame({"fault"})
       \/ ops[c].pc = "Setting" /\ Apply(l, ops[c].value, {"fault"})

LeftNothing(c, offloaded) == {}      \* mutant of Left: the loser is forgotten

LeftOffloaded(c, offloaded) ==       \* mutant of Left: whatever the loser policy
    {[layer |-> l, value |-> ops[c].value, offloaded |-> TRUE] :
        l \in {k \in Layers : ops[c].pc = "Setting" /\ ops[c].write[k] = "Pending"}}

(* The writes that are still going on when their caller turns away. *)
Left(c, offloaded) ==
    {[layer |-> l, value |-> ops[c].value, offloaded |-> offloaded] :
        l \in {k \in Layers : ops[c].pc = "Setting" /\ ops[c].write[k] = "Pending"}}

(* set() returns.  The loser of a race goes on in the background or is      *)
(* dropped, which may come before or after the store got the command.       *)
SetReturns(c) ==
    /\ ops[c].pc = "Setting"
    /\ WriteDecided(ops[c])
    /\ late' = late \cup Left(c, config.write = "RaceOffload")
    /\ Blame(IF Left(c, FALSE) = {} THEN {} ELSE {"late"})
    /\ floor' = IF SetOk(ops[c]) /\ ops[c].ctx = "Direct" /\ ops[c].value.data > floor
                THEN ops[c].value.data ELSE floor
    /\ Done(c)
    /\ UNCHANGED <<config, now, layers, offered, calls, faults>>

LateWriteLands(w) ==
    /\ late' = late \ {w}
    /\ Apply(w.layer, w.value, {})
    /\ UNCHANGED <<config, now, ops, offered, calls, faults, floor>>

LateWriteLost(w) ==
    /\ IF w.offloaded THEN Fault("write") ELSE UNCHANGED faults
    /\ late' = late \ {w}
    /\ Blame({"fault"})
    /\ UNCHANGED <<config, now, layers, ops, offered, calls, floor>>

-----------------------------------------------------------------------------
(* delete(): both layers at once, whatever the write policy. *)
StartDelete(c) ==
    /\ ops[c].pc = "Idle"
    /\ calls < MAX_CALLS
    /\ calls' = calls + 1
    /\ Put(c, [Idle EXCEPT !.pc = "Deleting", !.write = [l \in Layers |-> "Pending"]])
    /\ Blame(IF Writing THEN {"overlap"} ELSE {})
    /\ UNCHANGED <<config, now, layers, late, offered, faults, floor>>

DeleteReturnsEarly(c) ==      \* mutant: returns as soon as one layer is done
    /\ ops[c].pc = "Deleting"
    /\ \E l \in Layers : ops[c].write[l] # "Pending"
    /\ floor' = IF \E l \in Layers : ops[c].write[l] = "Ok" THEN Len(offered) + 1 ELSE floor
    /\ Done(c)
    /\ UNCHANGED <<config, now, layers, late, offered, calls, faults, causes>>

(* An error of one layer is logged, and the other's status is returned. *)
DeleteReturns(c) ==
    /\ ops[c].pc = "Deleting"
    /\ \A l \in Layers : ops[c].write[l] # "Pending"
    /\ floor' = IF \E l \in Layers : ops[c].write[l] = "Ok" THEN Len(offered) + 1 ELSE floor
    /\ Done(c)
    /\ UNCHANGED <<config, now, layers, late, offered, calls, faults, causes>>

(* The caller drops its future; what was sent to a store may still arrive. *)
Drop(c) ==
    /\ Fault("drop")
    /\ ops[c].pc # "Idle"
    /\ late' = late \cup Left(c, FALSE)
    /\ Done(c)
    /\ Blame({"fault"})
    /\ UNCHANGED <<config, now, layers, offered, calls, floor>>

Tick ==
    /\ now < MAX_TIME
    /\ now' = now + 1
    /\ layers' = [l \in Layers |-> KeptAt(layers[l], now + 1)]
    /\ UNCHANGED <<config, ops, late, offered, calls, faults, floor, causes>>

(* A store makes room. *)
Evict(l) ==
    /\ Fault("evict")
    /\ layers[l] # None
    /\ layers' = [layers EXCEPT ![l] = None]
    /\ Blame({"evicted"})
    /\ UNCHANGED <<config, now, ops, late, offered, calls, floor>>

-----------------------------------------------------------------------------
LayerStep(c, l) == ReadLayer(c, l) \/ ReadFails(c, l) \/ WriteLayer(c, l)
                   \/ RemoveLayer(c, l) \/ WriteFails(c, l)

GetReturns(c) == ServeActual(c) \/ RefillActual(c) \/ ServeStale(c)
                 \/ RevalidateStale(c) \/ OffloadStale(c) \/ Miss(c)

ClientStep(c) ==
    \/ \E l \in Layers : LayerStep(c, l)
    \/ GetReturns(c)
    \/ FetchCacheable(c)
    \/ FetchNonCacheable(c)
    \/ SetReturns(c)
    \/ DeleteReturns(c)

LateStep == \E w \in late : LateWriteLands(w) \/ LateWriteLost(w)

Next ==
    \/ \E c \in Clients : StartGet(c) \/ StartDelete(c) \/ ClientStep(c) \/ Drop(c)
    \/ LateStep
    \/ Tick
    \/ \E l \in Layers : Evict(l)

Spec == Init /\ [][Next]_vars

-----------------------------------------------------------------------------
Excused(what) == causes \cap what # {}
Answers(c)    == ServeActual(c) \/ RefillActual(c) \/ ServeStale(c) \/ OffloadStale(c)

(* When nothing is in flight, the layers that have the key have the same    *)
(* response, however reads, refills, calls, evictions and lost races were   *)
(* interleaved - unless two writes overlapped, a layer failed, or a set was *)
(* skipped in refill mode.                                                  *)
AgreeAtRest ==
    /\ ~Writing
    /\ ~Excused({"overlap", "fault", "skipped"})
    => \A l, k \in Layers :
           layers[l] # None /\ layers[k] # None => layers[l].data = layers[k].data

(* A get that begins after a set (other than one in refill mode) or a delete*)
(* returned is not answered with anything older, whichever layer it reads   *)
(* and whatever is in flight - unless two writes overlapped, a layer failed,*)
(* or the loser of a race is late.                                          *)
ReadsDoNotGoBack ==
    [][\A c \in Clients :
        Answers(c) /\ ~Excused({"overlap", "fault", "late"}) =>
            Found(c).data >= ops[c].floor]_vars

AnswersInTimeUnless(what) ==
    \A c \in Clients :
        Answers(c) /\ ~Excused(what) => ~Passed(offered[Found(c).data], now)

(* CacheValue.expire, "When the data expires (becomes invalid)": a response *)
(* is never answered from the cache after it expired, whichever layer it    *)
(* was read from, refilled to or kept in, and whatever was lost or late.    *)
(* The exceptions are a value that Redis got with less than a second to     *)
(* live, and one that was set through a trait object.                       *)
NeverServedExpired == [][AnswersInTimeUnless({"immortal", "untimed"})]_vars

(* A set that returns Ok left its value in both layers under the sequential *)
(* policy and in one of them under the others, even when layers fail.  The  *)
(* value must not have expired in the meantime.                             *)
Holders(value) == {l \in Layers : layers[l] # None /\ layers[l].data = value.data}

AckedSetIsStored ==
    [][\A c \in Clients :
        /\ SetReturns(c) /\ SetOk(ops[c]) /\ ops[c].ctx = "Direct"
        /\ ops[c].value.expire = None \/ Ttl(ops[c].value, now) # None
        /\ ~Excused({"overlap", "evicted"})
        => IF config.write = "Sequential" THEN Holders(ops[c].value) = Layers
           ELSE Holders(ops[c].value) # {}]_vars

(* ParallelReadPolicy, "returns data with longest remaining TTL": of two    *)
(* hits with a second or more to live it never answers the one that expires *)
(* a second or more before the other.                                       *)
ParallelServesFreshest ==
    config.read = "Parallel" =>
        \A c \in Clients :
            Got(c) /\ Hits(ops[c].read) = Layers =>
                LET v == Found(c)
                    w == ops[c].read[Other(ReadSource(ops[c].read))].value
                IN  Ttl(v, now) # None /\ Ttl(w, now) # None => w.expire < v.expire + SECOND
=============================================================================
