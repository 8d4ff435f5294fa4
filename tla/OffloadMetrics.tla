--------------------------- MODULE OffloadMetrics ---------------------------
(***************************************************************************)
(* OffloadManager with the feature "metrics": what the manager counts of   *)
(* its tasks (hitbox/src/offload/manager.rs, hitbox/src/metrics.rs).  The  *)
(* recording is a step of its own, after the one it is about: other        *)
(* threads run in between.  Under TimeoutPolicy::Cancel a task records     *)
(* that it ends before it takes its key out of the map, under the others   *)
(* after.                                                                  *)
(***************************************************************************)
EXTENDS OffloadManager, Integers

VARIABLES
    counters,   \* the counters of the manager
    active,     \* the gauge hitbox_offload_tasks_active
    counting,   \* calls that inserted the handle and have not counted it yet
    recording,  \* task -> how it ends, if that is still to be recorded, or None
    removing    \* task -> how it ended, if that is recorded and its key still
                \* to be removed, or None

metrics_vars == <<counters, active, counting, recording, removing>>
all_vars     == <<vars, metrics_vars>>

Counters == {"spawned", "completed", "timeout", "deduplicated"}

MetricsInit ==
    /\ Init
    /\ counters = [name \in Counters |-> 0]
    /\ active = 0
    /\ counting = {}
    /\ recording = [c \in Calls |-> None]
    /\ removing = [c \in Calls |-> None]

Increment(name) == counters' = [counters EXCEPT ![name] = @ + 1]

-----------------------------------------------------------------------------
SpawnAny(c) ==
    /\ Spawn(c)
    /\ UNCHANGED metrics_vars

(* A spawn that is skipped is counted before it returns. *)
SpawnKeyed(c) ==
    /\ \E k \in Keys : SpawnWithKey(c, k)
    /\ IF call'[c] = "Deduplicated" THEN Increment("deduplicated") ELSE UNCHANGED counters
    /\ UNCHANGED <<active, counting, recording, removing>>

SpawnRuns(c) ==
    /\ SpawnInner(c)
    /\ UNCHANGED metrics_vars

SpawnInserts(c) ==
    /\ Insert(c)
    /\ counting' = counting \cup {c}
    /\ UNCHANGED <<counters, active, recording, removing>>

SpawnCounts(c) ==
    /\ c \in counting
    /\ counting' = counting \ {c}
    /\ Increment("spawned")
    /\ active' = active + 1
    /\ UNCHANGED <<vars, recording, removing>>

RecordCompletion(how) ==       \* mutant: a timeout is recorded as a completion
    Increment("completed") /\ active' = active - 1

(* record_completion() and record_timeout() *)
Record(how) ==
    /\ Increment(IF how = "TimedOut" THEN "timeout" ELSE "completed")
    /\ active' = active - 1

(* TimeoutPolicy::Cancel: the task or its timeout ends, that is recorded,   *)
(* and then the key removed; nothing is awaited in between.                 *)
EndsInTime(c) ==
    /\ config.timeout = "Cancel"
    /\ task[c] = "Running" /\ removing[c] = None
    /\ \E how \in {"Finished", "TimedOut"} :
          /\ Record(how)
          /\ removing' = [removing EXCEPT ![c] = how]
    /\ UNCHANGED <<vars, counting, recording>>

RemovesKey(c) ==
    /\ removing[c] # None
    /\ IF removing[c] = "Finished" THEN Complete(c) ELSE TimeOut(c)
    /\ removing' = [removing EXCEPT ![c] = None]
    /\ UNCHANGED <<counters, active, counting, recording>>

(* TimeoutPolicy::None and Warn: the key is removed, then the end recorded. *)
Ends(c) ==
    /\ config.timeout # "Cancel"
    /\ Complete(c)
    /\ recording' = [recording EXCEPT ![c] = "Finished"]
    /\ UNCHANGED <<counters, active, counting, removing>>

RecordsEnd(c) ==
    /\ recording[c] # None
    /\ Record(recording[c])
    /\ recording' = [recording EXCEPT ![c] = None]
    /\ UNCHANGED <<vars, counting, removing>>

(* A task that panics or is aborted does not get to the recording. *)
Breaks(c) ==
    /\ removing[c] = None
    /\ Panic(c) \/ AbortTakesEffect(c)
    /\ UNCHANGED metrics_vars

Management ==
    /\ \/ \E k \in OffloadKeys : Cancel(k)
       \/ CancelAll \/ CleanupFinished \/ WaitAll \/ WaitStep
    /\ UNCHANGED metrics_vars

MetricsNext ==
    \/ \E c \in Calls :
          \/ SpawnAny(c) \/ SpawnKeyed(c) \/ SpawnRuns(c) \/ SpawnInserts(c) \/ SpawnCounts(c)
          \/ EndsInTime(c) \/ RemovesKey(c) \/ Ends(c) \/ RecordsEnd(c) \/ Breaks(c)
    \/ Management

MetricsSpec == MetricsInit /\ [][MetricsNext]_all_vars

-----------------------------------------------------------------------------
MetricsTypeOK ==
    /\ TypeOK
    /\ counters \in [Counters -> 0..Cardinality(Calls)]
    /\ active \in -Cardinality(Calls)..Cardinality(Calls)
    /\ counting \subseteq Calls
    /\ recording \in [Calls -> {None, "Finished"}]
    /\ removing \in [Calls -> {None, "Finished", "TimedOut"}]

AtRest ==
    /\ \A c \in Calls : call[c] \in {"Idle", "Returned", "Deduplicated"} /\ task[c] # "Running"
    /\ counting = {}
    /\ \A c \in Calls : recording[c] = None /\ removing[c] = None

Ended(how) == Cardinality({c \in Calls : task[c] \in how})

(* Whatever the interleaving of spawns, ends, timeouts and clean-ups, once *)
(* nothing is going on the counters account for every call exactly once:   *)
(* skipped, completed or timed out.  The tasks that broke are the          *)
(* difference.                                                             *)
CountersAddUp ==
    AtRest =>
        /\ counters["completed"] = Ended({"Finished"})
        /\ counters["timeout"] = Ended({"TimedOut"})
        /\ counters["spawned"] = Ended(TaskEnds)
        /\ counters["deduplicated"] = Cardinality({c \in Calls : call[c] = "Deduplicated"})

(* As long as no task panics and none is cancelled, the gauge is back at   *)
(* zero when no task runs any more.                                        *)
GaugeReturns == AtRest /\ Ended({"Panicked", "Aborted"}) = 0 => active = 0
=============================================================================
