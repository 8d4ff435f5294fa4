--------------------------- MODULE MCCacheFuture ----------------------------
(* Small instances of CacheFuture for TLC. *)
EXTENDS CacheFuture, TLC

Symmetry == Permutations(Requests) \cup Permutations(Keys)

(* A service built with stale policy s and concurrency limit n. *)
Service(s, n) == [enabled |-> TRUE, stale |-> s, concurrency |-> n]
Disabled      == [enabled |-> FALSE, stale |-> "Return", concurrency |-> None]

(* Every stale policy, and every limit: without one, one and two. *)
SomePolicies == {Disabled, Service("Revalidate", 2), Service("OffloadRevalidate", 1)} \cup
    {Service("Return", n) : n \in Limits \cup {None}}
LimitedPolicies == {Service(s, n) : s \in StalePolicies, n \in Limits}
ReturnLimitOne     == {Service("Return", 1)}
RevalidateLimitOne == {Service("Revalidate", 1)}
=============================================================================
