--------------------------- MODULE MCComposition ----------------------------
(* Small instances of Composition for TLC. *)
EXTENDS Composition, TLC

Symmetry == Permutations(Clients)

C(l1, l2, read, write, refill, dispatch, stale, ttl, stale_ttl) ==
    [store |-> [l \in Layers |-> IF l = L1 THEN l1 ELSE l2],
     read |-> read, write |-> write, refill |-> refill, dispatch |-> dispatch,
     stale |-> stale, ttl |-> ttl, stale_ttl |-> stale_ttl]

(* Every read and write policy, with the stores and the stale policies      *)
(* spread over them.                                                        *)
Mixed == {
    C("Moka", "Redis", "Sequential", "OptimisticParallel", "Never", "dyn", "Return", 2, None),
    C("Moka", "Redis", "Race", "Sequential", "Always", "static", "Revalidate", 3, 1),
    C("Moka", "FeOxDb", "Sequential", "RaceOffload", "Always", "static", "OffloadRevalidate", 3, 1),
    C("FeOxDb", "Redis", "Sequential", "RaceDrop", "Never", "static", "Return", 2, 1),
    C("Moka", "Redis", "Parallel", "OptimisticParallel", "Never", "static", "Revalidate", 4, None)}
=============================================================================
