----------------------------- MODULE HttpService -----------------------------
(***************************************************************************)
(* The two ways a program gets at the cache: CacheService, a Tower service *)
(* (hitbox-tower), and CacheMiddleware of reqwest (hitbox-reqwest), with   *)
(* the conversions between HTTP messages and what the cache holds          *)
(* (hitbox-http/src/{request,response,cache_status}.rs).                   *)
(*                                                                         *)
(* What this module is about is what goes in and what comes out: heads,    *)
(* extensions and trailers of messages, the status header, and whether an  *)
(* inner service is called when it has said that it is ready.  There is    *)
(* one key.                                                                *)
(*                                                                         *)
(* The caching itself is CacheFuture's, with its failures.  Here it takes  *)
(* the steps that tell whose response a client gets: a request bypasses    *)
(* the cache, hits a fresh or a stale entry, or misses; a miss waits for   *)
(* the response of another request if the concurrency limit says so; a     *)
(* stale hit may call the upstream itself or in the background.  Lookup    *)
(* and the call that follows are one step, and so are an upstream's answer,*)
(* its broadcast and its storing.                                          *)
(***************************************************************************)
EXTENDS Naturals, Sequences, SequencesExt

CONSTANTS
    Requests,
    Services,       \* clones of the CacheService, one for each connection
    Adapters,       \* {"tower", "reqwest"}, or one of them
    Inner,          \* kinds of inner service: "always" ready, "limited"
    PERMITS,        \* concurrent calls that a limited inner service takes
    Caching,        \* [stale policy, concurrency limit or None (no limit, or no
                    \*  BroadcastConcurrencyManager), offload or DisabledOffload]
    Formats,        \* how the backend stores a value: "serde", "rkyv"
    Heads,          \* the heads the upstream may send
    HeaderNames,    \* the names of headers, in the order of a HeaderMap
    Configured,     \* what cache_status_header() may be called with, or None
    Error,          \* an error of the upstream
    None

DEFAULT_CACHE_STATUS_HEADER == "x-cache-status"
Versions == {"HTTP/0.9", "HTTP/1.0", "HTTP/1.1", "HTTP/2", "HTTP/3"}
Headers  == [Range(HeaderNames) -> Seq({"a", "b", "HIT", "MISS", "STALE"})]
NoHeaders == [n \in Range(HeaderNames) |-> <<>>]

(* The background task of a stale hit, and all that may call the upstream. *)
Revalidation(r) == <<"revalidate", r>>
Futures == Requests \cup {Revalidation(r) : r \in Requests}

(* A message: its head, who asked for it (which stands for the body),       *)
(* whether it carries extensions and trailers.                              *)
Response(f, head) ==
    [version |-> head.version, headers |-> head.headers, body |-> f,
     extensions |-> TRUE, trailers |-> TRUE]

(* What an instance has to give the constants. *)
ConstantsOK ==
    /\ HeaderNames \in Seq(STRING) /\ IsInjective(HeaderNames)
    /\ DEFAULT_CACHE_STATUS_HEADER \in Range(HeaderNames)
    /\ Configured \subseteq Range(HeaderNames) \cup {None}
    /\ Inner \subseteq {"always", "limited"}
    /\ \A c \in Caching : /\ c.stale \in {"Return", "Revalidate", "OffloadRevalidate"}
                         /\ c.limit \in (Nat \ {0}) \cup {None}
                         /\ c.offload \in BOOLEAN
    /\ \A h \in Heads : h.version \in Versions /\ h.headers \in Headers
    /\ PERMITS \in Nat
    /\ \A r \in Requests : Revalidation(r) \notin Requests
    /\ \A f \in Futures, h \in Heads : {Response(f, h)} \cap {None, Error} = {}
    /\ Error # None /\ None \notin Nat

VARIABLES
    adapter, inner, format, header, caching,   \* how the service was built
    free,      \* permits of the inner service that nobody has
    reserved,  \* the services whose inner service holds a permit
    flight,    \* permits left of the key's entry in the ConcurrencyManager, if it has one
    req,       \* future -> where it is, what it holds, and its answer
    called,    \* the futures that have called the upstream,
    bare,      \* and those who did so without the extensions of their request
    sent,      \* future -> what the upstream answered to it
    stored,    \* the entry in the backend, serialized, or None
    age

config == <<adapter, inner, format, header, caching>>
vars   == <<config, free, reserved, flight, req, called, bare, sent, stored, age>>

States == {"New", "Ready", "Running", "Waiting", "Upstream", "Done", "Panicked",
           "NotSpawned", "Dropped"}

(* keyed: the request is cacheable; permit: of the key's entry; mail: what  *)
(* a waiter has received, Error if its channel is closed; past: the futures *)
(* that had ended when the request came.                                    *)
Idle(state) == [state |-> state, service |-> None, keyed |-> FALSE, permit |-> FALSE,
                mail |-> None, past |-> {}, answer |-> None]

(* CacheBuilder::build and CacheMiddlewareBuilder::build. *)
CacheStatusHeader(name) == IF name = None THEN DEFAULT_CACHE_STATUS_HEADER ELSE name

Init ==
    /\ adapter \in Adapters
    /\ inner \in (IF adapter = "tower" THEN Inner ELSE {"always"})
    /\ format \in Formats
    /\ header \in {CacheStatusHeader(n) : n \in Configured}
    /\ caching \in Caching
    /\ adapter = "reqwest" => ~caching.offload
    /\ free = PERMITS
    /\ reserved = {}
    /\ flight = None
    /\ req = [f \in Futures |-> Idle(IF f \in Requests THEN "New" ELSE "NotSpawned")]
    /\ called = {}
    /\ bare = {}
    /\ sent = [f \in Futures |-> None]
    /\ stored = None
    /\ age = "Actual"

-----------------------------------------------------------------------------
(* Conversions.                                                             *)

(* into_cached(): SerializableHttpResponse has no place for the rest. *)
IntoCached(response) ==
    [version |-> response.version, headers |-> response.headers, body |-> response.body]

(* from_cached(): a new response, whose body is one buffer. *)
FromCached(cached) ==
    [version |-> cached.version, headers |-> cached.headers, body |-> cached.body,
     extensions |-> FALSE, trailers |-> FALSE]

(* rkyv: the version as a number and the headers as a list of pairs; serde  *)
(* keeps both as they are.                                                  *)
VersionToU8 == [v \in Versions |->
    CASE v = "HTTP/0.9" -> 9 [] v = "HTTP/1.0" -> 10 [] v = "HTTP/1.1" -> 11
      [] v = "HTTP/2" -> 20 [] v = "HTTP/3" -> 30]

U8ToVersion(n) ==
    IF \E v \in Versions : VersionToU8[v] = n
    THEN CHOOSE v \in Versions : VersionToU8[v] = n ELSE "HTTP/1.1"

HeaderPairs(headers) ==
    FlattenSeq([i \in 1..Len(HeaderNames) |->
        [j \in 1..Len(headers[HeaderNames[i]]) |->
            <<HeaderNames[i], headers[HeaderNames[i]][j]>>]])

HeadersInserted(pairs) ==      \* mutant: insert() in place of append()
    FoldLeft(LAMBDA h, p : [h EXCEPT ![p[1]] = <<p[2]>>], NoHeaders, pairs)

HeadersOf(pairs) ==
    FoldLeft(LAMBDA h, p : [h EXCEPT ![p[1]] = Append(@, p[2])], NoHeaders, pairs)

Serialize(cached) ==
    IF format = "serde" THEN cached
    ELSE [version |-> VersionToU8[cached.version], headers |-> HeaderPairs(cached.headers),
          body |-> cached.body]

Deserialize(bytes) ==
    IF format = "serde" THEN bytes
    ELSE [version |-> U8ToVersion(bytes.version), headers |-> HeadersOf(bytes.headers),
          body |-> bytes.body]

(* CacheStatusExt::cache_status, by insert(): it replaces what was there. *)
WithStatus(response, status) == [response EXCEPT !.headers[header] = <<status>>]

-----------------------------------------------------------------------------
In(f, s) == req[f].state = s

(* The futures, once r is answered; the output of a task is dropped. *)
Answered(f, response, status) ==
    [req EXCEPT ![f].state = "Done",
                ![f].answer = IF f \notin Requests THEN None
                              ELSE IF response = Error THEN Error
                              ELSE WithStatus(response, status)]

(* CacheService::poll_ready asks the inner service.  Whoever asks has the   *)
(* service to itself until it calls it.                                     *)
PollReady(r, s) ==
    /\ adapter = "tower" /\ In(r, "New")
    /\ \A q \in Requests : In(q, "Ready") => req[q].service # s
    /\ IF inner = "limited" /\ s \notin reserved
       THEN /\ free > 0
            /\ free' = free - 1 /\ reserved' = reserved \cup {s}
       ELSE UNCHANGED <<free, reserved>>
    /\ req' = [req EXCEPT ![r].state = "Ready", ![r].service = s]
    /\ UNCHANGED <<config, flight, called, bare, sent, stored, age>>

(* CacheService::call, whose future gets a clone of the inner service, and  *)
(* CacheMiddleware::handle.                                                 *)
Comes(r) ==
    req' = [req EXCEPT ![r].state = "Running",
                       ![r].past = {f \in Futures : In(f, "Done")}]

Call(r) ==
    /\ In(r, "Ready")
    /\ Comes(r)
    /\ UNCHANGED <<config, free, reserved, flight, called, bare, sent, stored, age>>

Handle(r) ==
    /\ adapter = "reqwest" /\ In(r, "New")
    /\ Comes(r)
    /\ UNCHANGED <<config, free, reserved, flight, called, bare, sent, stored, age>>

-----------------------------------------------------------------------------
(* ReqwestUpstream gives the extensions away with its first call; a request *)
(* of Tower has them in it.                                                 *)
NotesCall(f, r) ==
    /\ called' = called \cup {f}
    /\ bare' = IF adapter = "reqwest" /\ {r, Revalidation(r)} \cap called # {}
               THEN bare \cup {f} ELSE bare

(* Upstream::call by a request.  A clone of a limited service holds no      *)
(* permit: its call() panics.                                               *)
CallUpstream(r, reqs, keyed, permit) ==
    /\ req' = IF inner = "limited" THEN [reqs EXCEPT ![r].state = "Panicked"]
              ELSE [reqs EXCEPT ![r].state = "Upstream", ![r].keyed = keyed,
                                ![r].permit = permit]
    /\ NotesCall(r, r)
    /\ UNCHANGED <<config, free, reserved, sent, stored, age>>

(* A request that is not cacheable. *)
Bypasses(r) ==
    /\ In(r, "Running")
    /\ CallUpstream(r, req, FALSE, FALSE)
    /\ UNCHANGED flight

AnswerStored(r, status) == req' = Answered(r, FromCached(Deserialize(stored)), status)

Hit(r) ==
    /\ In(r, "Running") /\ stored # None /\ age = "Actual"
    /\ AnswerStored(r, "HIT")
    /\ UNCHANGED <<config, free, reserved, flight, called, bare, sent, stored, age>>

(* A stale hit, by policy.stale. *)
IsStaleHit(r, policy) ==
    In(r, "Running") /\ stored # None /\ age = "Stale" /\ caching.stale = policy

StaleReturns(r) ==
    /\ IsStaleHit(r, "Return")
    /\ AnswerStored(r, "STALE")
    /\ UNCHANGED <<config, free, reserved, flight, called, bare, sent, stored, age>>

StaleAnswersMiss(r) ==     \* mutant: the stale response, with the status of the new one
    /\ IsStaleHit(r, "Revalidate")
    /\ AnswerStored(r, "MISS")
    /\ UNCHANGED <<config, free, reserved, flight, called, bare, sent, stored, age>>

StaleRevalidates(r) ==
    /\ IsStaleHit(r, "Revalidate")
    /\ CallUpstream(r, req, TRUE, FALSE)
    /\ UNCHANGED flight

(* CacheFuture::revalidate calls the upstream; then the task is spawned, or *)
(* dropped by DisabledOffload.                                              *)
StaleOffloads(r) ==
    LET task == Revalidation(r) IN
    /\ IsStaleHit(r, "OffloadRevalidate")
    /\ IF inner = "limited" THEN req' = [req EXCEPT ![r].state = "Panicked"]
       ELSE req' = [Answered(r, FromCached(Deserialize(stored)), "STALE") EXCEPT
                      ![task].state = IF caching.offload THEN "Upstream" ELSE "Dropped",
                      ![task].keyed = TRUE]
    /\ NotesCall(task, r)
    /\ UNCHANGED <<config, free, reserved, flight, sent, stored, age>>

-----------------------------------------------------------------------------
(* A miss: nothing is found, it is expired, or the backend failed.  With a  *)
(* concurrency limit, check() opens an entry, takes a permit, or subscribes.*)
MissesUnlimited(r) ==
    /\ In(r, "Running") /\ caching.limit = None
    /\ CallUpstream(r, req, TRUE, FALSE)
    /\ UNCHANGED flight

Proceeds(r) ==
    /\ In(r, "Running") /\ caching.limit # None /\ flight # 0
    /\ CallUpstream(r, req, TRUE, TRUE)
    /\ LET permits == IF flight = None THEN caching.limit ELSE flight IN
       flight' = IF inner = "limited" THEN permits ELSE permits - 1

Waits(r) ==
    /\ In(r, "Running") /\ caching.limit # None /\ flight = 0
    /\ req' = [req EXCEPT ![r].state = "Waiting"]
    /\ UNCHANGED <<config, free, reserved, flight, called, bare, sent, stored, age>>

(* resolve() and cleanup() remove the entry of the key, whoever opened it:  *)
(* its waiters receive the value, or find their channel closed.             *)
Deliver(reqs, m) ==
    [f \in Futures |-> IF reqs[f].state = "Waiting" /\ reqs[f].mail = None
                       THEN [reqs[f] EXCEPT !.mail = m] ELSE reqs[f]]

Receives(r) ==
    /\ In(r, "Waiting") /\ req[r].mail \notin {None, Error}
    /\ req' = Answered(r, FromCached(req[r].mail), "MISS")
    /\ UNCHANGED <<config, free, reserved, flight, called, bare, sent, stored, age>>

TurnedAway(r) ==
    /\ In(r, "Waiting") /\ req[r].mail = Error
    /\ CallUpstream(r, Deliver(req, Error), TRUE, FALSE)
    /\ flight' = None

-----------------------------------------------------------------------------
(* The future ends, and if it holds a permit its entry does so, too. *)
Ends(f, response, m) ==
    IF req[f].permit
    THEN req' = Deliver(Answered(f, response, "MISS"), m) /\ flight' = None
    ELSE req' = Answered(f, response, "MISS") /\ UNCHANGED flight

(* The upstream answers with an error, or with a response that is not to be *)
(* cached or whose body does not arrive: both pass as they are.             *)
UpstreamFails(f) ==
    /\ In(f, "Upstream")
    /\ sent' = [sent EXCEPT ![f] = Error]
    /\ Ends(f, Error, Error)
    /\ UNCHANGED <<config, free, reserved, called, bare, stored, age>>

NotCacheable(f) ==
    /\ In(f, "Upstream")
    /\ \E h \in Heads :
          /\ sent' = [sent EXCEPT ![f] = Response(f, h)]
          /\ Ends(f, Response(f, h), Error)
    /\ UNCHANGED <<config, free, reserved, called, bare, stored, age>>

(* A response for the cache is converted, broadcast, stored (or not: errors *)
(* of the backend are logged), and the client gets what came out of it.     *)
CacheableResponse(f) ==
    /\ In(f, "Upstream") /\ req[f].keyed
    /\ \E h \in Heads :
          LET cached == IntoCached(Response(f, h)) IN
          /\ sent' = [sent EXCEPT ![f] = Response(f, h)]
          /\ \/ stored' = Serialize(cached) /\ age' = "Actual"
             \/ UNCHANGED <<stored, age>>
          /\ Ends(f, FromCached(cached), cached)
    /\ UNCHANGED <<config, free, reserved, called, bare>>

Ages ==
    /\ stored # None /\ age # "Expired"
    /\ age' = IF age = "Actual" THEN "Stale" ELSE "Expired"
    /\ UNCHANGED <<config, free, reserved, flight, req, called, bare, sent, stored>>

Ended ==
    /\ \A f \in Futures : req[f].state \in {"Done", "Panicked", "NotSpawned", "Dropped"}
    /\ UNCHANGED vars

Next ==
    \/ \E r \in Requests :
          \/ \E s \in Services : PollReady(r, s)
          \/ Call(r) \/ Handle(r)
          \/ Bypasses(r) \/ Hit(r)
          \/ StaleReturns(r) \/ StaleRevalidates(r) \/ StaleOffloads(r)
          \/ MissesUnlimited(r) \/ Proceeds(r) \/ Waits(r)
          \/ Receives(r) \/ TurnedAway(r)
    \/ \E f \in Futures : UpstreamFails(f) \/ NotCacheable(f) \/ CacheableResponse(f)
    \/ Ages
    \/ Ended

Spec == Init /\ [][Next]_vars

-----------------------------------------------------------------------------
TypeOK ==
    /\ adapter \in Adapters /\ inner \in {"always", "limited"} /\ format \in Formats
    /\ header \in Range(HeaderNames) /\ caching \in Caching
    /\ free \in 0..PERMITS /\ reserved \subseteq Services /\ flight \in Nat \cup {None}
    /\ \A f \in Futures : /\ req[f].state \in States /\ req[f].service \in Services \cup {None}
                          /\ req[f].keyed \in BOOLEAN /\ req[f].permit \in BOOLEAN
                          /\ req[f].past \subseteq Futures
    /\ called \subseteq Futures /\ bare \subseteq called
    /\ age \in {"Actual", "Stale", "Expired"}

IsAnswered(r) == In(r, "Done") /\ req[r].answer # Error
IsSent(f)     == sent[f] \notin {None, Error}

(* Two messages look the same but for the cache's own header. *)
SameHead(a, b) ==
    /\ a.version = b.version
    /\ \A n \in Range(HeaderNames) \ {header} : a.headers[n] = b.headers[n]

(* Through both adapters and in both formats a client gets the version, the *)
(* headers with all of their values in order, and the body of one response  *)
(* that the upstream sent: to its own call if it made one, or else one that *)
(* it found stored or waited for.                                           *)
AnswersAreTheUpstreams ==
    \A r \in Requests : IsAnswered(r) =>
        LET by == req[r].answer.body IN
        /\ IsSent(by) /\ SameHead(req[r].answer, sent[by])
        /\ r \in called => by = r

(* The header of the cache has one value, HIT, MISS or STALE, also when the *)
(* upstream or another cache behind it sends a header of that name, which   *)
(* is stored.  A MISS is no old response: it is that of the request's own   *)
(* call, or, where there is a concurrency limit, that of a call which had   *)
(* not ended when the request came.  Behind a HIT or a STALE there is no    *)
(* call of the request itself (one in the background there may be).         *)
StatusHeaderTellsSource ==
    \A r \in Requests : IsAnswered(r) =>
        LET by == req[r].answer.body IN
        \E s \in {"HIT", "MISS", "STALE"} :
            /\ req[r].answer.headers[header] = <<s>>
            /\ s = "MISS" => by = r \/ (caching.limit # None /\ by \notin req[r].past)
            /\ s # "MISS" => r \notin called

(* The middlewares behind the cache see the extensions of the request that  *)
(* they are called for, also when they are called in the background, even   *)
(* though the extensions are handed over by mem::take.                      *)
ExtensionsReachUpstream ==
    \A f \in Futures : In(f, "Upstream") => f \in called \ bare
=============================================================================
