----------------------------- MODULE CacheFuture ----------------------------
(***************************************************************************)
(* The caching finite state machine (hitbox/src/fsm/{future,states}.rs).   *)
(* Every request runs one CacheFuture; concurrent futures meet in the      *)
(* concurrency manager (ConcurrencyManager) and in the cache backend.  A   *)
(* state of the future is one of the variants of the Rust enum State; each *)
(* action below is the match arm of CacheFuture::poll for that variant     *)
(* together with the `transition` it calls.                                *)
(*                                                                         *)
(* Data is abstracted: a response is named by the future whose upstream    *)
(* call produced it, a cache entry is such a name with its freshness, and  *)
(* predicates and extractors decide nondeterministically.                  *)
(***************************************************************************)
EXTENDS Naturals, Sequences, FiniteSets

CONSTANTS
    Requests,         \* futures started by callers
    Tasks,            \* background revalidations; {} is DisabledOffload
    Keys,
    Limits,
    Policies,         \* the PolicyConfig values a service may be built with
    RequestVerdicts,  \* what the request predicates may decide
    ResponseVerdicts, \* what the response predicates may decide
    ReadModes,        \* what backend.get may leave in the context
    Faults,           \* which disturbances may happen
    None

Futures   == Requests \cup Tasks
Verdicts  == {"Cacheable", "NonCacheable"}
Freshness == {"Actual", "Stale", "Expired"}
StalePolicies == {"Return", "Revalidate", "OffloadRevalidate"}
AllFaults == {"cancel", "age", "read_error", "write_error"}

CacheEntry == [by : Futures \cup {None}, age : Freshness]

(* A PolicyConfig; enabled = FALSE is PolicyConfig::Disabled. *)
PolicyConfig ==
    [enabled : BOOLEAN, stale : StalePolicies, concurrency : Limits \cup {None}]

ASSUME FutureAssumption ==
    /\ IsFiniteSet(Requests)
    /\ Limits \subseteq 1..255         \* BoundedU8<1, 255>
    /\ Policies \subseteq PolicyConfig
    /\ RequestVerdicts \subseteq Verdicts
    /\ ResponseVerdicts \subseteq Verdicts
    /\ ReadModes \subseteq {"Direct", "Refill"}
    /\ Faults \subseteq AllFaults
    /\ Requests \cap Tasks = {}
    /\ None \notin Futures \cup Keys \cup Limits
    /\ None \notin Nat /\ None \notin Verdicts /\ None \notin CacheEntry

VARIABLES
    inFlight, capacity, available, broadcast, permit, receiver, checked,
    fut,     \* future -> its state, context and the data it carries
    store,   \* key -> the entry in the cache backend, or None
    policy,  \* the service's PolicyConfig, shared by all its futures
    calls    \* future -> how often it called the upstream

managerVars ==
    <<inFlight, capacity, available, broadcast, permit, receiver, checked>>
vars == <<managerVars, fut, store, policy, calls>>

Manager == INSTANCE ConcurrencyManager WITH CanCancel <- "cancel" \in Faults

States == {"Initial", "CheckRequestCachePolicy", "PollCache", "CacheAnswered",
           "ConvertResponse", "HandleStale", "AwaitResponse", "PollUpstream",
           "CheckResponseCachePolicy", "UpdateCache", "Response",
           "Ready", "Dropped", "NotSpawned"}

FutureRecord ==
    [state   : States,
     key     : Keys \cup {None},
     entry   : CacheEntry \cup {None},       \* cached value or response in hand
     status  : {"Miss", "Hit", "Stale"},
     source  : {"Upstream", "Backend"},
     mode    : {"Direct", "Refill"},
     verdict : Verdicts \cup {None}]         \* what the response predicates said

TypeOK ==
    /\ Manager!TypeOK
    /\ fut \in [Futures -> FutureRecord]
    /\ store \in [Keys -> CacheEntry \cup {None}]
    /\ policy \in Policies
    /\ calls \in [Futures -> Nat]

(* CacheContext::default() in a future that has not been polled. *)
NewFuture(s) ==
    [state |-> s, key |-> None, entry |-> None, status |-> "Miss",
     source |-> "Upstream", mode |-> "Direct", verdict |-> None]

(* The backend may hold entries of an earlier process (by = None). *)
Init ==
    /\ Manager!Init
    /\ policy \in Policies
    /\ store \in [Keys -> [by : {None}, age : Freshness] \cup {None}]
    /\ fut = [f \in Futures |-> NewFuture(IF f \in Requests THEN "Initial"
                                                            ELSE "NotSpawned")]
    /\ calls = [f \in Futures |-> 0]

-----------------------------------------------------------------------------
(* CacheValue::cache_state() compares with the clock: a value is never      *)
(* fresher than it was when it was read.                                    *)
AgesFrom(a) ==
    CASE a = "Actual" -> Freshness
      [] a = "Stale"  -> {"Stale", "Expired"}
      [] OTHER        -> {"Expired"}

CallUpstream(f) == calls' = [calls EXCEPT ![f] = @ + 1]

(* Initial *)
StartRequest(r) ==
    /\ fut[r].state = "Initial"
    /\ IF policy.enabled
       THEN /\ fut' = [fut EXCEPT ![r].state = "CheckRequestCachePolicy"]
            /\ UNCHANGED calls
       ELSE /\ fut' = [fut EXCEPT ![r].state = "PollUpstream"]
            /\ CallUpstream(r)
    /\ UNCHANGED <<managerVars, store, policy>>

(* CheckRequestCachePolicy: the request predicates and the key extractor    *)
(* have run.                                                                *)
CheckRequestCachePolicy(r) ==
    /\ fut[r].state = "CheckRequestCachePolicy"
    /\ \/ /\ "Cacheable" \in RequestVerdicts
          /\ \E k \in Keys :
                fut' = [fut EXCEPT ![r].state = "PollCache", ![r].key = k]
          /\ UNCHANGED calls
       \/ /\ "NonCacheable" \in RequestVerdicts
          /\ fut' = [fut EXCEPT ![r].state = "PollUpstream"]
          /\ CallUpstream(r)
    /\ UNCHANGED <<managerVars, store, policy>>

(* CacheBackend::get answers; the future has not been polled yet.  A hit    *)
(* sets status and source, an error reads as a miss.                        *)
BackendGet(r) ==
    /\ fut[r].state = "PollCache"
    /\ \/ /\ store[fut[r].key] # None
          /\ \E m \in ReadModes :
                fut' = [fut EXCEPT ![r].state = "CacheAnswered",
                                   ![r].entry = store[fut[r].key],
                                   ![r].status = "Hit",
                                   ![r].source = "Backend",
                                   ![r].mode = m]
       \/ /\ store[fut[r].key] = None \/ "read_error" \in Faults
          /\ fut' = [fut EXCEPT ![r].state = "CacheAnswered"]
    /\ UNCHANGED <<managerVars, store, policy, calls>>

(* Mutant of ToUpstream: the context keeps the Hit of an expired value. *)
ToUpstreamKeepsStatus(r) ==
    \/ /\ policy.concurrency = None
       /\ fut' = [fut EXCEPT ![r].state = "PollUpstream", ![r].entry = None]
       /\ CallUpstream(r)
       /\ UNCHANGED managerVars
    \/ /\ policy.concurrency # None
       /\ Manager!Check(r, fut[r].key, policy.concurrency)
       /\ IF permit'[r] # None
          THEN /\ fut' = [fut EXCEPT ![r].state = "PollUpstream", ![r].entry = None]
               /\ CallUpstream(r)
          ELSE /\ fut' = [fut EXCEPT ![r].state = "AwaitResponse", ![r].entry = None]
               /\ UNCHANGED calls

(* PollCache::transition_to_upstream: ask the manager when the policy has a *)
(* concurrency limit, otherwise call the upstream at once.                  *)
ToUpstream(r) ==
    \/ /\ policy.concurrency = None
       /\ fut' = [fut EXCEPT ![r].state = "PollUpstream",
                             ![r].status = "Miss", ![r].entry = None]
       /\ CallUpstream(r)
       /\ UNCHANGED managerVars
    \/ /\ policy.concurrency # None
       /\ Manager!Check(r, fut[r].key, policy.concurrency)
       /\ IF permit'[r] # None
          THEN /\ fut' = [fut EXCEPT ![r].state = "PollUpstream",
                                     ![r].status = "Miss", ![r].entry = None]
               /\ CallUpstream(r)
          ELSE /\ fut' = [fut EXCEPT ![r].state = "AwaitResponse",
                                     ![r].status = "Miss", ![r].entry = None]
               /\ UNCHANGED calls

(* PollCache: the value found is classified by the clock now, which may be  *)
(* later than it was when the backend answered.                             *)
PollCacheHit(r) ==
    /\ fut[r].state = "CacheAnswered"
    /\ fut[r].entry # None
    /\ \E age \in IF "age" \in Faults THEN AgesFrom(fut[r].entry.age)
                                      ELSE {fut[r].entry.age} :
        \/ /\ age = "Actual"
           /\ fut' = [fut EXCEPT ![r].state = IF fut[r].mode = "Refill"
                                              THEN "UpdateCache"
                                              ELSE "ConvertResponse"]
           /\ UNCHANGED <<managerVars, calls>>
        \/ /\ age = "Stale"
           /\ fut' = [fut EXCEPT ![r].state = "HandleStale", ![r].entry.age = age]
           /\ UNCHANGED <<managerVars, calls>>
        \/ /\ age = "Expired"
           /\ ToUpstream(r)
    /\ UNCHANGED <<store, policy>>

PollCacheMiss(r) ==
    /\ fut[r].state = "CacheAnswered"
    /\ fut[r].entry = None
    /\ ToUpstream(r)
    /\ UNCHANGED <<store, policy>>

ConvertResponse(r) ==
    /\ fut[r].state = "ConvertResponse"
    /\ fut' = [fut EXCEPT ![r].state = "Response"]
    /\ UNCHANGED <<managerVars, store, policy, calls>>

(* HandleStale, by stale policy.  Revalidate calls the upstream without     *)
(* asking the manager.  OffloadRevalidate answers at once and spawns a      *)
(* future that starts at PollUpstream with the Noop manager.                *)
HandleStaleReturn(r) ==
    /\ fut[r].state = "HandleStale"
    /\ policy.stale = "Return"
    /\ fut' = [fut EXCEPT ![r].state = "Response", ![r].status = "Stale"]
    /\ UNCHANGED <<managerVars, store, policy, calls>>

HandleStaleRevalidate(r) ==
    /\ fut[r].state = "HandleStale"
    /\ policy.stale = "Revalidate"
    /\ fut' = [fut EXCEPT ![r].state = "PollUpstream",
                          ![r].status = "Miss", ![r].entry = None]
    /\ CallUpstream(r)
    /\ UNCHANGED <<managerVars, store, policy>>

HandleStaleOffload(r) ==
    /\ fut[r].state = "HandleStale"
    /\ policy.stale = "OffloadRevalidate"
    /\ \/ /\ Tasks = {}
          /\ fut' = [fut EXCEPT ![r].state = "Response", ![r].status = "Stale"]
          /\ UNCHANGED calls
       \/ \E t \in Tasks :
            /\ fut[t].state = "NotSpawned"
            /\ fut' = [fut EXCEPT ![r].state = "Response", ![r].status = "Stale",
                                  ![t].state = "PollUpstream", ![t].key = fut[r].key]
            /\ CallUpstream(t)
    /\ UNCHANGED <<managerVars, store, policy>>

(* AwaitResponse: the broadcast value becomes the response. *)
AwaitOk(r) ==
    /\ fut[r].state = "AwaitResponse"
    /\ Manager!Receive(r)
    /\ fut' = [fut EXCEPT ![r].state = "Response",
                          ![r].entry = [by  |-> broadcast[receiver[r]][1],
                                        age |-> "Actual"]]
    /\ UNCHANGED <<store, policy, calls>>

(* AwaitResponse: Lagged or Closed, fall back to the upstream, no permit. *)
AwaitError(r) ==
    /\ fut[r].state = "AwaitResponse"
    /\ Manager!ReceiveError(r)
    /\ fut' = [fut EXCEPT ![r].state = "PollUpstream"]
    /\ CallUpstream(r)
    /\ UNCHANGED <<store, policy>>

(* PollUpstream: the upstream has answered; without a key nothing is cached. *)
PollUpstream(f) ==
    /\ fut[f].state = "PollUpstream"
    /\ fut' = [fut EXCEPT ![f].state = IF fut[f].key = None
                                       THEN "Response"
                                       ELSE "CheckResponseCachePolicy",
                          ![f].entry = [by |-> f, age |-> "Actual"]]
    /\ UNCHANGED <<managerVars, store, policy, calls>>

(* Mutant of ResponseCacheable: a response fetched without a permit also    *)
(* resolves the key, and so removes another request's entry.                *)
ResponseCacheableAlwaysResolves(f) ==
    /\ fut[f].state = "CheckResponseCachePolicy"
    /\ "Cacheable" \in ResponseVerdicts
    /\ IF f \in Requests /\ permit[f] # None
       THEN Manager!Resolve(f)
       ELSE /\ inFlight' = [inFlight EXCEPT ![fut[f].key] = None]
            /\ UNCHANGED <<capacity, available, broadcast, permit, receiver, checked>>
    /\ fut' = [fut EXCEPT ![f].state = "UpdateCache", ![f].verdict = "Cacheable"]
    /\ UNCHANGED <<store, policy, calls>>

(* CheckResponseCachePolicy: a permit holder tells the manager first, and   *)
(* only then does the backend write start.                                  *)
ResponseCacheable(f) ==
    /\ fut[f].state = "CheckResponseCachePolicy"
    /\ "Cacheable" \in ResponseVerdicts
    /\ IF f \in Requests /\ permit[f] # None
       THEN Manager!Resolve(f)
       ELSE UNCHANGED managerVars
    /\ fut' = [fut EXCEPT ![f].state = "UpdateCache", ![f].verdict = "Cacheable"]
    /\ UNCHANGED <<store, policy, calls>>

(* Mutant of ResponseNonCacheable: the refused response is stored. *)
ResponseNonCacheableStored(f) ==
    /\ fut[f].state = "CheckResponseCachePolicy"
    /\ "NonCacheable" \in ResponseVerdicts
    /\ IF f \in Requests /\ permit[f] # None
       THEN Manager!Cleanup(f)
       ELSE UNCHANGED managerVars
    /\ fut' = [fut EXCEPT ![f].state = "UpdateCache", ![f].verdict = "NonCacheable"]
    /\ UNCHANGED <<store, policy, calls>>

ResponseNonCacheable(f) ==
    /\ fut[f].state = "CheckResponseCachePolicy"
    /\ "NonCacheable" \in ResponseVerdicts
    /\ IF f \in Requests /\ permit[f] # None
       THEN Manager!Cleanup(f)
       ELSE UNCHANGED managerVars
    /\ fut' = [fut EXCEPT ![f].state = "Response", ![f].verdict = "NonCacheable"]
    /\ UNCHANGED <<store, policy, calls>>

(* UpdateCache: the result of backend.set is ignored.  The value may also   *)
(* not be written because a leaf skips a set in Refill mode.                *)
UpdateCache(f) ==
    /\ fut[f].state = "UpdateCache"
    /\ \/ store' = [store EXCEPT ![fut[f].key] = fut[f].entry]
       \/ ("write_error" \in Faults \/ fut[f].mode = "Refill") /\ UNCHANGED store
    /\ fut' = [fut EXCEPT ![f].state = "Response"]
    /\ UNCHANGED <<managerVars, policy, calls>>

(* Response: a miss is reported as coming from the upstream. *)
Respond(f) ==
    /\ fut[f].state = "Response"
    /\ fut' = [fut EXCEPT ![f].state = "Ready",
                          ![f].source = IF fut[f].status = "Miss"
                                        THEN "Upstream" ELSE @]
    /\ UNCHANGED <<managerVars, store, policy, calls>>

-----------------------------------------------------------------------------
(* The environment. *)
DropKeepsPermit(f) ==          \* mutant of Drop: the permit is not owned
    /\ "cancel" \in Faults
    /\ fut[f].state \notin {"Ready", "Dropped", "NotSpawned"}
    /\ fut' = [fut EXCEPT ![f].state = "Dropped"]
    /\ UNCHANGED <<managerVars, store, policy, calls>>

Drop(f) ==
    /\ "cancel" \in Faults
    /\ fut[f].state \notin {"Ready", "Dropped", "NotSpawned"}
    /\ fut' = [fut EXCEPT ![f].state = "Dropped"]
    /\ IF f \in Requests /\ (permit[f] # None \/ receiver[f] # None)
       THEN Manager!Drop(f)
       ELSE UNCHANGED managerVars
    /\ UNCHANGED <<store, policy, calls>>

(* Time passes for a stored entry; the backend may also remove it. *)
Age(k) ==
    /\ "age" \in Faults
    /\ store[k] # None
    /\ \/ \E age \in AgesFrom(store[k].age) \ {store[k].age} :
            store' = [store EXCEPT ![k].age = age]
       \/ store' = [store EXCEPT ![k] = None]
    /\ UNCHANGED <<managerVars, fut, policy, calls>>

RequestStep(r) ==
    \/ StartRequest(r)
    \/ CheckRequestCachePolicy(r)
    \/ BackendGet(r)
    \/ PollCacheHit(r)
    \/ PollCacheMiss(r)
    \/ ConvertResponse(r)
    \/ HandleStaleReturn(r)
    \/ HandleStaleRevalidate(r)
    \/ HandleStaleOffload(r)
    \/ AwaitOk(r)
    \/ AwaitError(r)

FutureStep(f) ==
    \/ PollUpstream(f)
    \/ ResponseCacheable(f)
    \/ ResponseNonCacheable(f)
    \/ UpdateCache(f)
    \/ Respond(f)

Next ==
    \/ \E r \in Requests : RequestStep(r)
    \/ \E f \in Futures : FutureStep(f) \/ Drop(f)
    \/ \E k \in Keys : Age(k)

Spec == Init /\ [][Next]_vars

(* The executor polls a woken future again, and the futures it waits for    *)
(* (upstream, backend, predicates) complete.                                *)
Fairness ==
    /\ \A r \in Requests : WF_vars(RequestStep(r))
    /\ \A f \in Futures : WF_vars(FutureStep(f))

FairSpec == Spec /\ Fairness
-----------------------------------------------------------------------------
Fetching(k) ==
    {r \in Requests : fut[r].state = "PollUpstream" /\ fut[r].key = k}

(* What a caller is told about its response is true of where it came from:  *)
(* a Miss was fetched by this very request or broadcast to it by another    *)
(* one, a Hit or a Stale response comes from the backend and cost no        *)
(* upstream call; an expired value is never served and a stale one only if  *)
(* the stale policy lets it through.                                        *)
StatusMatchesOrigin ==
    \A r \in Requests : fut[r].state = "Ready" =>
        \/ /\ fut[r].status = "Miss" /\ fut[r].source = "Upstream"
           /\ fut[r].entry.by = r => calls[r] = 1
           /\ fut[r].entry.by # r => calls[r] = 0 /\ fut[r].entry.by \in Requests
        \/ /\ fut[r].status = "Hit" /\ fut[r].source = "Backend" /\ calls[r] = 0
           /\ fut[r].entry.age = "Actual"
        \/ /\ fut[r].status = "Stale" /\ fut[r].source = "Backend" /\ calls[r] = 0
           /\ fut[r].entry.age = "Stale" /\ policy.stale # "Revalidate"

(* A response that the response predicates refused, or that was fetched for *)
(* another key, never reaches the cache or another caller: neither through  *)
(* the backend nor through the broadcast channel.                           *)
SharedOnlyIfCacheable ==
    LET Shareable(f, k) ==
            f = None \/ (fut[f].verdict = "Cacheable" /\ fut[f].key = k)
    IN  /\ \A k \in Keys : store[k] # None => Shareable(store[k].by, k)
        /\ \A r \in Requests :
            fut[r].state = "Ready" /\ fut[r].entry.by # r =>
                Shareable(fut[r].entry.by, fut[r].key)

(* A permit is held only while its owner is fetching or judging a response, *)
(* and a receiver only while its owner waits: a future that ended, by       *)
(* answering or by being dropped, keeps nobody else out.                    *)
PermitOnlyWhileFetching ==
    \A r \in Requests :
        /\ permit[r] # None =>
                fut[r].state \in {"PollUpstream", "CheckResponseCachePolicy"}
        /\ receiver[r] # None <=> fut[r].state = "AwaitResponse"

(* Unless futures are dropped, a request that has to wait is waiting for    *)
(* somebody: a permit holder of its channel is at work.                     *)
WaiterHasFetcher ==
    "cancel" \notin Faults =>
        \A r \in Requests :
            fut[r].state = "AwaitResponse" /\ Manager!RecvResult(r) = "Pending" =>
                \E s \in Requests :
                    /\ permit[s] = receiver[r]
                    /\ fut[s].key = fut[r].key
                    /\ fut[s].state \in {"PollUpstream", "CheckResponseCachePolicy"}

(* With a limit of one, a policy that does not revalidate stale entries in  *)
(* the foreground and nobody dropping futures, only a refused response can  *)
(* let two requests of one key into the upstream at the same time: neither  *)
(* a late check after resolve nor a waiter that gives up does.              *)
SingleFlight ==
    "cancel" \notin Faults /\ policy.concurrency = 1 /\ policy.stale # "Revalidate" =>
        \A k \in Keys :
            \/ Cardinality(Fetching(k)) <= 1
            \/ \E r \in Requests :
                    fut[r].key = k /\ fut[r].verdict = "NonCacheable"

(* policy.rs:12, "A value of 1 means only one request can fetch from        *)
(* upstream at a time".                                                     *)
OneFetchAtATime ==
    policy.concurrency = 1 => \A k \in Keys : Cardinality(Fetching(k)) <= 1

(* concurrency.rs:62, cleanup is there to "cleanup stale entry from         *)
(* in-flight map (e.g., after channel closed error)": the entry a waiter    *)
(* removes after Closed is the closed one, never a live generation that     *)
(* other requests depend on.                                                *)
WaiterCleansOnlyItsOwnEntry ==
    [][\A r \in Requests : AwaitError(r) =>
            inFlight[fut[r].key] \in {receiver[r], None}]_vars

(* One future, apart from the others: FutureLifecycle with the cache, the    *)
(* predicates and the manager taken away.  CacheAnswered is a moment of     *)
(* PollCache.                                                               *)
LifeOf(f) ==
    [stage  |-> IF fut[f].state = "CacheAnswered" THEN "PollCache" ELSE fut[f].state,
     keyed  |-> fut[f].key # None,
     permit |-> f \in Requests /\ permit[f] # None,
     calls  |-> calls[f]]

Lives == [f \in Futures |-> LifeOf(f)]

Lifecycle == INSTANCE FutureLifecycle WITH life <- Lives

(* Each future takes only the transitions transitions.rs gives it, with the *)
(* key, the permit and the upstream call they hand on: at most one call on  *)
(* any path, and a permit that is let go of when the response is judged.    *)
ImplementsLifecycle == Lifecycle!Spec

(* Whatever way a future comes to its answer, through a hit, a miss, a wait *)
(* that fails or a stale value, its upstream is called at most once, and    *)
(* not at all before it is known that nothing in the cache will do.         *)
AtMostOneCall == Lifecycle!OneUpstreamCall

(* The manager's protocol (check at most once, then resolve, cleanup or     *)
(* drop) is what the state machine drives, and nothing else ever touches    *)
(* the in-flight map: not a revalidation, not a request without permit.     *)
ImplementsManager == Manager!Spec

(* Every future that started ends: concurrency.rs:200 expects that a waiter *)
(* whose permit holder failed sees the channel closed and falls back.       *)
EveryFutureEnds ==
    \A f \in Futures :
        fut[f].state # "NotSpawned" ~> fut[f].state \in {"Ready", "Dropped"}
=============================================================================
