------------------------ MODULE MCConcurrencyManager ------------------------
(* Small instances of ConcurrencyManager for TLC. *)
EXTENDS ConcurrencyManager, TLC

Symmetry == Permutations(Requests) \cup Permutations(Keys)
=============================================================================
