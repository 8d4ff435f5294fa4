-------------------------- MODULE FutureLifecycle ---------------------------
(***************************************************************************)
(* What one CacheFuture promises, whatever the cache, the predicates, the  *)
(* manager and the other futures do: the states it goes through, in the    *)
(* words of hitbox/src/fsm/transitions.rs.  Every action below is one of   *)
(* the transition enums; its disjuncts are the variants, with what they    *)
(* hand on: the key, the permit, and the call of the upstream, which each  *)
(* variant with an `upstream_future` makes.  CacheFuture implements this.  *)
(***************************************************************************)
EXTENDS Naturals

CONSTANTS
    Requests,   \* futures started by callers
    Tasks       \* background revalidations

Futures == Requests \cup Tasks

VARIABLE life   \* future -> where it is, and what it holds

Stages == {"Initial", "CheckRequestCachePolicy", "PollCache", "ConvertResponse",
           "HandleStale", "AwaitResponse", "PollUpstream",
           "CheckResponseCachePolicy", "UpdateCache", "Response",
           "Ready", "Dropped", "NotSpawned"}

Life == [stage  : Stages,
         keyed  : BOOLEAN,     \* it has a cache key
         permit : BOOLEAN,     \* it holds a permit of the concurrency manager
         calls  : Nat]         \* calls of the upstream

TypeOK == life \in [Futures -> Life]

Init ==
    life = [f \in Futures |->
              [stage |-> IF f \in Requests THEN "Initial" ELSE "NotSpawned",
               keyed |-> FALSE, permit |-> FALSE, calls |-> 0]]

-----------------------------------------------------------------------------
At(stage, keyed, permit, n) ==
    [stage |-> stage, keyed |-> keyed, permit |-> permit, calls |-> n]

(* A state that carries no permit. *)
Entering(l, stage) == At(stage, l.keyed, FALSE, l.calls)

(* State::PollUpstream, with the future of a call that has been made. *)
Fetching(l, keyed, permit) == At("PollUpstream", keyed, permit, l.calls + 1)

Enter(f, stage)  == life' = [life EXCEPT ![f] = Entering(@, stage)]
Fetch(f, permit) == life' = [life EXCEPT ![f] = Fetching(@, @.keyed, permit)]

InitialTransition(f) ==
    /\ life[f].stage = "Initial"
    /\ Enter(f, "CheckRequestCachePolicy") \/ Fetch(f, FALSE)

CheckRequestCachePolicyTransition(f) ==
    /\ life[f].stage = "CheckRequestCachePolicy"
    /\ \/ life' = [life EXCEPT ![f] = At("PollCache", TRUE, FALSE, @.calls)]
       \/ Fetch(f, FALSE)

PollCacheTransition(f) ==
    /\ life[f].stage = "PollCache"
    /\ \/ \E stage \in {"UpdateCache", "ConvertResponse", "HandleStale",
                        "AwaitResponse"} : Enter(f, stage)
       \/ \E permit \in BOOLEAN : Fetch(f, permit)

ConvertResponseTransition(f) ==
    life[f].stage = "ConvertResponse" /\ Enter(f, "Response")

(* The offload case answers, and spawns a future that is fetching already. *)
HandleStaleTransition(f) ==
    /\ life[f].stage = "HandleStale"
    /\ \/ Enter(f, "Response")
       \/ Fetch(f, FALSE)
       \/ \E t \in Tasks :
            /\ life[t].stage = "NotSpawned"
            /\ life' = [life EXCEPT ![f] = Entering(@, "Response"),
                                    ![t] = Fetching(@, TRUE, FALSE)]

AwaitResponseTransition(f) ==
    /\ life[f].stage = "AwaitResponse"
    /\ Enter(f, "Response") \/ Fetch(f, FALSE)

PollUpstreamTransition(f) ==
    /\ life[f].stage = "PollUpstream"
    /\ IF life[f].keyed
       THEN life' = [life EXCEPT ![f] =
                        At("CheckResponseCachePolicy", TRUE, @.permit, @.calls)]
       ELSE Enter(f, "Response")

CheckResponseCachePolicyTransition(f) ==
    /\ life[f].stage = "CheckResponseCachePolicy"
    /\ Enter(f, "UpdateCache") \/ Enter(f, "Response")

UpdateCacheTransition(f) ==
    life[f].stage = "UpdateCache" /\ Enter(f, "Response")

Answer(f) == life[f].stage = "Response" /\ Enter(f, "Ready")

Dropped(f) ==
    /\ life[f].stage \notin {"Ready", "Dropped", "NotSpawned"}
    /\ Enter(f, "Dropped")

Transition(f) ==
    \/ InitialTransition(f)
    \/ CheckRequestCachePolicyTransition(f)
    \/ PollCacheTransition(f)
    \/ ConvertResponseTransition(f)
    \/ HandleStaleTransition(f)
    \/ AwaitResponseTransition(f)
    \/ PollUpstreamTransition(f)
    \/ CheckResponseCachePolicyTransition(f)
    \/ UpdateCacheTransition(f)
    \/ Answer(f)
    \/ Dropped(f)

Next == \E f \in Futures : Transition(f)

Spec == Init /\ [][Next]_life
-----------------------------------------------------------------------------
BeforeUpstream == {"Initial", "NotSpawned", "CheckRequestCachePolicy", "PollCache",
                   "ConvertResponse", "HandleStale", "AwaitResponse"}

(* However a future comes to its answer (a hit, a fetch, a wait that fails, *)
(* a stale value revalidated, a refused response), it calls the upstream at *)
(* most once, and never after it has found or been given a response.        *)
OneUpstreamCall ==
    \A f \in Futures :
        /\ life[f].calls <= 1
        /\ life[f].stage \in BeforeUpstream => life[f].calls = 0
        /\ life[f].stage \in {"PollUpstream", "CheckResponseCachePolicy"} =>
                life[f].calls = 1

(* Only a response that was fetched for a key is judged and stored.         *)
StoredUnderAKey ==
    \A f \in Futures :
        life[f].stage \in {"CheckResponseCachePolicy", "UpdateCache"} => life[f].keyed

(* A permit is held while fetching and judging, and at no other time.       *)
PermitWhileFetching ==
    \A f \in Futures :
        life[f].permit => /\ life[f].stage \in {"PollUpstream", "CheckResponseCachePolicy"}
                          /\ life[f].keyed
=============================================================================
