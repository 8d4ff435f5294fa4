--------------------------- MODULE OffloadManager ---------------------------
(***************************************************************************)
(* OffloadManager (hitbox/src/offload/manager.rs): background tasks.  A    *)
(* concurrent map holds the JoinHandles of the tasks by key; a task takes  *)
(* its key out of the map as the last thing it does.  Spawning is three    *)
(* steps (contains_key, tokio::spawn, insert), and the spawned task runs   *)
(* on another thread from the second one on.                               *)
(*                                                                         *)
(* A task is named by the spawn call that made it; a generated key is      *)
(* named by its call too, for next_key() never returns a key twice.        *)
(***************************************************************************)
EXTENDS Naturals, FiniteSets

CONSTANTS
    Calls,    \* calls of spawn and spawn_with_key
    Keys,     \* OffloadKey::Cache
    Configs,  \* the OffloadConfig values to consider
    Faults,   \* "panic": a task may panic; "cancel": tasks may be cancelled
    None

OffloadKeys   == Keys \cup Calls
OffloadConfig == [deduplicate : BOOLEAN, timeout : {"None", "Cancel", "Warn"}]

TaskEnds == {"Finished", "TimedOut", "Panicked", "Aborted"}

ASSUME OffloadAssumption ==
    /\ IsFiniteSet(Calls)
    /\ Keys \cap Calls = {}
    /\ None \notin Keys \cup Calls \cup TaskEnds
    /\ Configs \subseteq OffloadConfig
    /\ Faults \subseteq {"panic", "cancel"}

VARIABLES
    config,
    tasks,     \* key -> the task whose handle the map holds, or None
    call,      \* call -> how far the spawn call is
    key,       \* call -> its OffloadKey, or None
    task,      \* call -> the state of the spawned task
    aborting,  \* running tasks whose handle was aborted
    waiter,    \* the caller of wait_all()
    awaited,   \* history: the tasks in the map when wait_all() was called
    raced      \* history: cache keys for which two spawn calls overlapped

vars == <<config, tasks, call, key, task, aborting, waiter, awaited, raced>>

TypeOK ==
    /\ config \in Configs
    /\ tasks \in [OffloadKeys -> Calls \cup {None}]
    /\ call \in [Calls -> {"Idle", "Checked", "Spawned", "Returned", "Deduplicated"}]
    /\ key \in [Calls -> OffloadKeys \cup {None}]
    /\ task \in [Calls -> {"NotSpawned", "Running"} \cup TaskEnds]
    /\ aborting \subseteq Calls
    /\ waiter \in {"Idle", "Cleaning", "Checking", "Returned"}
    /\ awaited \subseteq Calls
    /\ raced \subseteq Keys

Init ==
    /\ config \in Configs
    /\ tasks = [k \in OffloadKeys |-> None]
    /\ call = [c \in Calls |-> "Idle"]
    /\ key = [c \in Calls |-> None]
    /\ task = [c \in Calls |-> "NotSpawned"]
    /\ aborting = {}
    /\ waiter = "Idle"
    /\ awaited = {}
    /\ raced = {}

-----------------------------------------------------------------------------
IsFinished(c) == task[c] \in TaskEnds
Tracked       == {tasks[k] : k \in OffloadKeys} \ {None}
InProgress(k) == {c \in Calls : key[c] = k /\ call[c] \in {"Checked", "Spawned"}}
Remove(k)     == tasks' = [tasks EXCEPT ![k] = None]

(* Mutant of Spawn: the counter is read and written in two steps, so a call *)
(* may get the key of another one.                                          *)
SpawnRacyCounter(c) ==
    /\ call[c] = "Idle"
    /\ \E d \in Calls : key' = [key EXCEPT ![c] = d]
    /\ call' = [call EXCEPT ![c] = "Checked"]
    /\ UNCHANGED <<config, tasks, task, aborting, waiter, awaited, raced>>

(* spawn(): a generated key is never looked up in the map. *)
Spawn(c) ==
    /\ call[c] = "Idle"
    /\ key' = [key EXCEPT ![c] = c]
    /\ call' = [call EXCEPT ![c] = "Checked"]
    /\ UNCHANGED <<config, tasks, task, aborting, waiter, awaited, raced>>

(* spawn_with_key(): any handle under the key, finished or not, makes the   *)
(* call return false.                                                       *)
SpawnWithKey(c, k) ==
    /\ call[c] = "Idle"
    /\ key' = [key EXCEPT ![c] = k]
    /\ call' = [call EXCEPT ![c] = IF config.deduplicate /\ tasks[k] # None
                                   THEN "Deduplicated" ELSE "Checked"]
    /\ raced' = IF InProgress(k) = {} THEN raced ELSE raced \cup {k}
    /\ UNCHANGED <<config, tasks, task, aborting, waiter, awaited>>

(* spawn_inner(): from here on the task runs concurrently. *)
SpawnInner(c) ==
    /\ call[c] = "Checked"
    /\ call' = [call EXCEPT ![c] = "Spawned"]
    /\ task' = [task EXCEPT ![c] = "Running"]
    /\ UNCHANGED <<config, tasks, key, aborting, waiter, awaited, raced>>

(* tasks.insert(): replaces, without a look, what the key had. *)
Insert(c) ==
    /\ call[c] = "Spawned"
    /\ tasks' = [tasks EXCEPT ![key[c]] = c]
    /\ call' = [call EXCEPT ![c] = "Returned"]
    /\ UNCHANGED <<config, key, task, aborting, waiter, awaited, raced>>

-----------------------------------------------------------------------------
End(c, how) ==
    /\ task[c] = "Running"
    /\ task' = [task EXCEPT ![c] = how]
    /\ aborting' = aborting \ {c}
    /\ UNCHANGED <<config, call, key, waiter, awaited, raced>>

(* The wrapper around the task: its last statement removes the key, whoever *)
(* is registered under it.                                                  *)
Complete(c) == End(c, "Finished") /\ Remove(key[c])

(* TimeoutPolicy::Cancel: tokio::time::timeout drops the task. *)
TimeOut(c) ==
    /\ config.timeout = "Cancel"
    /\ End(c, "TimedOut")
    /\ Remove(key[c])

(* A panic unwinds the wrapper before it gets to the removal. *)
Panic(c) ==
    /\ "panic" \in Faults
    /\ End(c, "Panicked")
    /\ UNCHANGED tasks

(* An aborted task is dropped at its next await; nothing is removed. *)
AbortTakesEffect(c) ==
    /\ c \in aborting
    /\ End(c, "Aborted")
    /\ UNCHANGED tasks

-----------------------------------------------------------------------------
CancelUnchecked(k) ==          \* mutant of Cancel: get(key).unwrap()
    /\ "cancel" \in Faults
    /\ aborting' = aborting \cup {tasks[k]}
    /\ UNCHANGED <<config, tasks, call, key, task, waiter, awaited, raced>>

(* cancel() and cancel_all(): abort() of a finished handle does nothing. *)
Cancel(k) ==
    /\ "cancel" \in Faults
    /\ tasks[k] # None
    /\ aborting' = aborting \cup ({tasks[k]} \ {c \in Calls : IsFinished(c)})
    /\ UNCHANGED <<config, tasks, call, key, task, waiter, awaited, raced>>

CancelAll ==
    /\ "cancel" \in Faults
    /\ aborting' = aborting \cup {c \in Tracked : ~IsFinished(c)}
    /\ UNCHANGED <<config, tasks, call, key, task, waiter, awaited, raced>>

RetainActive ==
    tasks' = [k \in OffloadKeys |->
                IF tasks[k] \in Calls /\ IsFinished(tasks[k]) THEN None ELSE tasks[k]]

CleanupFinished ==
    /\ RetainActive
    /\ UNCHANGED <<config, call, key, task, aborting, waiter, awaited, raced>>

(* wait_all(): clean up, look whether the map is empty, yield, again. *)
WaitAll ==
    /\ waiter = "Idle"
    /\ waiter' = "Cleaning"
    /\ awaited' = Tracked
    /\ UNCHANGED <<config, tasks, call, key, task, aborting, raced>>

WaitCleanNothing ==          \* mutant of WaitClean: the loop only looks
    /\ waiter = "Cleaning"
    /\ waiter' = "Checking"
    /\ UNCHANGED <<config, tasks, call, key, task, aborting, awaited, raced>>

WaitClean ==
    /\ waiter = "Cleaning"
    /\ waiter' = "Checking"
    /\ RetainActive
    /\ UNCHANGED <<config, call, key, task, aborting, awaited, raced>>

WaitCheckOnce ==             \* mutant of WaitCheck: one round, no loop
    /\ waiter = "Checking"
    /\ waiter' = "Returned"
    /\ UNCHANGED <<config, tasks, call, key, task, aborting, awaited, raced>>

WaitCheck ==
    /\ waiter = "Checking"
    /\ waiter' = IF Tracked = {} THEN "Returned" ELSE "Cleaning"
    /\ UNCHANGED <<config, tasks, call, key, task, aborting, awaited, raced>>

-----------------------------------------------------------------------------
SpawnStep(c) ==
    \/ Spawn(c)
    \/ \E k \in Keys : SpawnWithKey(c, k)
    \/ SpawnInner(c)
    \/ Insert(c)

TaskStep(c) == Complete(c) \/ TimeOut(c) \/ Panic(c) \/ AbortTakesEffect(c)

WaitStep == WaitClean \/ WaitCheck

Next ==
    \/ \E c \in Calls : SpawnStep(c) \/ TaskStep(c)
    \/ \E k \in OffloadKeys : Cancel(k)
    \/ CancelAll
    \/ CleanupFinished
    \/ WaitAll
    \/ WaitStep

Spec == Init /\ [][Next]_vars

(* Tasks come to an end and the runtime polls whoever yielded.  Callers     *)
(* need not spawn, cancel or clean up anything.                             *)
FairSpec ==
    /\ Spec
    /\ \A c \in Calls : WF_vars(TaskStep(c))
    /\ WF_vars(WaitStep)

-----------------------------------------------------------------------------
Running(k) == {c \in Calls : key[c] = k /\ task[c] = "Running"}

(* A task with a generated key (every background revalidation has one) can  *)
(* be found, cancelled and waited for from the moment spawn() returned      *)
(* until it ends, whatever else is spawned, cancelled or cleaned up.        *)
GeneratedIsTracked ==
    \A c \in Calls :
        key[c] \in Calls /\ call[c] = "Returned" /\ task[c] = "Running" =>
            tasks[key[c]] = c

(* With deduplication, two tasks of one cache key run at the same time only *)
(* if two calls to spawn_with_key for that key overlapped at some point:    *)
(* completions, panics, aborts and clean-ups never let a second one in.     *)
DuplicateOnlyAfterRace ==
    config.deduplicate =>
        \A k \in Keys : Cardinality(Running(k)) <= 1 \/ k \in raced

(* What runs can be found: a task with a generated key under its key, and   *)
(* of the tasks of one cache key, unless their calls overlapped, the only.  *)
TasksAreTracked == GeneratedIsTracked /\ DuplicateOnlyAfterRace

(* wait_all() returns only when every task that was tracked when it was     *)
(* called has ended, unless another task was registered under its key.      *)
WaitAllWaits ==
    waiter = "Returned" =>
        \A c \in awaited :
            \/ IsFinished(c)
            \/ key[c] \in Keys /\ (~config.deduplicate \/ key[c] \in raced)

(* wait_all() returns once the tasks have ended, whichever way: a task that *)
(* panicked, was aborted, or ended before its handle was inserted leaves a  *)
(* dead entry in the map, which must not keep wait_all() looping.           *)
WaitAllReturns == waiter # "Idle" ~> waiter = "Returned"

(* manager.rs:153, "Task deduplicated - already in flight": a spawn is      *)
(* skipped only if is_in_flight(key), that is, a task of the key runs.      *)
SkippedOnlyIfInFlight ==
    [][\A c \in Calls :
        call[c] = "Idle" /\ call'[c] = "Deduplicated" =>
            ~IsFinished(tasks[key'[c]])]_vars
=============================================================================
