------------------------------ MODULE MCStores ------------------------------
(* Small instances of Stores for TLC.                                       *)
EXTENDS Stores, TLC

CONSTANTS k1, k2

(* Tasks 1 and 2 run in one process, task 3 in another.  Values live for    *)
(* one second and a half.                                                   *)
ThreeTasks   == 1..3
TwoProcesses == <<"p", "p", "q">>
Short        == {[ttl |-> 3, stale_ttl |-> 1]}

(* Keys of one and two units. *)
ThreeKeys == 1..3
KeyMemory == <<1, 1, 2>>
SomeTimes == {1, None}

(* Bounds: FeOxDB with a file has one key, for keys are persisted one by    *)
(* one, and may restart; in memory it has two that compete for room.  Moka  *)
(* has one tick; the clock of Redis stands where it may be silent or there  *)
(* are timeouts.                                                            *)
Small ==
    /\ backend = "redis" => (silent \/ timeouts # {} => now = 0)
    /\ backend = "feoxdb" =>
          IF path THEN \A t \in Tasks : op[t].key # k2 ELSE restarts = 0
    /\ backend = "moka" => now < MAX_TIME

SmallSpec == Init /\ [][Next /\ Small']_vars /\ Fairness
=============================================================================
