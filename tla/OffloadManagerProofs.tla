------------------------ MODULE OffloadManagerProofs ------------------------
(***************************************************************************)
(* Proofs about OffloadManager and its metrics (OffloadMetrics), for every *)
(* set of calls and keys and every set of configurations and faults.       *)
(***************************************************************************)
EXTENDS OffloadMetrics, FiniteSetTheorems, TLAPS

(* A generated key is the name of its call. *)
OwnGeneratedKeys == \A c \in Calls : key[c] \in Calls => key[c] = c

(* There is a task if and only if the call got past its check. *)
SpawnProgress ==
    \A c \in Calls :
        /\ task[c] = "NotSpawned" <=> call[c] \in {"Idle", "Checked", "Deduplicated"}
        /\ call[c] # "Idle" => key[c] # None

(* The map holds a task under the task's own key, and only once inserted. *)
OwnEntries ==
    \A k \in OffloadKeys : tasks[k] # None =>
        key[tasks[k]] = k /\ call[tasks[k]] = "Returned"

(* A call that may yet insert its task, or a task that has not ended. *)
Active(c) == call[c] \in {"Checked", "Spawned"} \/ task[c] = "Running"

(* No two overlapping calls have been made for the key, and it is           *)
(* deduplicated.                                                            *)
Unraced(k) == config.deduplicate /\ k \notin raced

(* The reason why the race is needed: as long as it has not happened, the   *)
(* one task of the key that is active will be, or is, the one in the map.   *)
OneActive ==
    \A k \in Keys : Unraced(k) =>
        /\ \A c, d \in Calls :
               key[c] = k /\ key[d] = k /\ Active(c) /\ Active(d) => c = d
        /\ \A c \in Calls :
               key[c] = k /\ call[c] = "Returned" /\ task[c] = "Running" => tasks[k] = c

AwaitedReturned == \A c \in awaited : call[c] = "Returned"

(* The inductive invariant. *)
IInv ==
    /\ TypeOK
    /\ OwnGeneratedKeys
    /\ SpawnProgress
    /\ OwnEntries
    /\ GeneratedIsTracked
    /\ OneActive
    /\ AwaitedReturned
    /\ WaitAllWaits

-----------------------------------------------------------------------------
LEMMA InitIInv == Init => IInv
  BY OffloadAssumption
  DEF Init, IInv, TypeOK, OwnGeneratedKeys, SpawnProgress, OwnEntries, GeneratedIsTracked,
      OneActive, AwaitedReturned, WaitAllWaits, OffloadKeys

(* A call that is idle becomes one with a key of its own or a cache key. *)
LEMMA SpawnIInv ==
    ASSUME IInv, NEW c \in Calls, Spawn(c)
    PROVE  IInv'
<1> USE OffloadAssumption DEF IInv
<1>1. /\ call[c] = "Idle" /\ task[c] = "NotSpawned"
      /\ \A k \in OffloadKeys : tasks[k] # c
  BY DEF Spawn, SpawnProgress, OwnEntries, TypeOK
<1>2. TypeOK'
  BY DEF Spawn, TypeOK, OffloadKeys
<1>3. OwnGeneratedKeys'
  BY DEF Spawn, TypeOK, OwnGeneratedKeys
<1>4. SpawnProgress'
  BY <1>1 DEF Spawn, TypeOK, SpawnProgress
<1>5. OwnEntries'
  BY <1>1 DEF Spawn, TypeOK, OwnEntries
<1>6. GeneratedIsTracked'
  BY <1>1 DEF Spawn, TypeOK, GeneratedIsTracked
<1>7. OneActive'
  BY <1>1 DEF Spawn, TypeOK, OneActive, Active, Unraced
<1>8. AwaitedReturned' /\ WaitAllWaits'
  BY <1>1 DEF Spawn, TypeOK, AwaitedReturned, WaitAllWaits, IsFinished
<1>9. QED
  BY <1>2, <1>3, <1>4, <1>5, <1>6, <1>7, <1>8

LEMMA SpawnWithKeyIInv ==
    ASSUME IInv, NEW c \in Calls, NEW k \in Keys, SpawnWithKey(c, k)
    PROVE  IInv'
<1> USE OffloadAssumption DEF IInv
<1>1. /\ call[c] = "Idle" /\ task[c] = "NotSpawned"
      /\ \A j \in OffloadKeys : tasks[j] # c
  BY DEF SpawnWithKey, SpawnProgress, OwnEntries, TypeOK
<1>2. TypeOK'
  BY DEF SpawnWithKey, TypeOK, OffloadKeys
<1>3. OwnGeneratedKeys'
  BY DEF SpawnWithKey, TypeOK, OwnGeneratedKeys
<1>4. SpawnProgress'
  BY <1>1 DEF SpawnWithKey, TypeOK, SpawnProgress
<1>5. OwnEntries'
  BY <1>1 DEF SpawnWithKey, TypeOK, OwnEntries
<1>6. GeneratedIsTracked'
  BY <1>1 DEF SpawnWithKey, TypeOK, GeneratedIsTracked
<1>7. OneActive'
  <2> SUFFICES ASSUME NEW j \in Keys, Unraced(j)'
               PROVE  /\ \A d, e \in Calls :
                             key'[d] = j /\ key'[e] = j /\ Active(d)' /\ Active(e)' => d = e
                      /\ \A d \in Calls :
                             key'[d] = j /\ call'[d] = "Returned" /\ task'[d] = "Running"
                                 => tasks'[j] = d
    BY DEF OneActive
  <2>1. Unraced(j)
    BY DEF SpawnWithKey, Unraced
  <2>2. \A d \in Calls : d # c =>
            key'[d] = key[d] /\ call'[d] = call[d] /\ task'[d] = task[d]
    BY DEF SpawnWithKey, TypeOK
  <2>3. key'[c] = k /\ task'[c] = "NotSpawned" /\ tasks' = tasks
    BY <1>1 DEF SpawnWithKey, TypeOK
  <2>4. ASSUME j = k, Active(c)', NEW d \in Calls, d # c, key[d] = k
        PROVE  ~Active(d)
    <3>1. InProgress(k) = {}
      BY <2>4 DEF SpawnWithKey, Unraced
    <3>2. call[d] \notin {"Checked", "Spawned"}
      BY <3>1, <2>4 DEF InProgress
    <3>3. config.deduplicate => tasks[k] = None
      BY <2>3, <2>4 DEF SpawnWithKey, Active, TypeOK
    <3>4. config.deduplicate
      BY <2>1 DEF Unraced
    <3>5. task[d] # "Running"
      BY <2>1, <2>4, <3>2, <3>3, <3>4 DEF OneActive, SpawnProgress, TypeOK
    <3>6. QED
      BY <3>2, <3>5 DEF Active
  <2>5. \A d, e \in Calls :
            key'[d] = j /\ key'[e] = j /\ Active(d)' /\ Active(e)' => d = e
    BY <2>1, <2>2, <2>3, <2>4 DEF OneActive, Active
  <2>6. \A d \in Calls :
            key'[d] = j /\ call'[d] = "Returned" /\ task'[d] = "Running" => tasks'[j] = d
    BY <2>1, <2>2, <2>3 DEF OneActive
  <2>7. QED
    BY <2>5, <2>6
<1>8. AwaitedReturned' /\ WaitAllWaits'
  BY <1>1 DEF SpawnWithKey, TypeOK, AwaitedReturned, WaitAllWaits, IsFinished
<1>9. QED
  BY <1>2, <1>3, <1>4, <1>5, <1>6, <1>7, <1>8

LEMMA SpawnInnerIInv ==
    ASSUME IInv, NEW c \in Calls, SpawnInner(c)
    PROVE  IInv'
<1> USE OffloadAssumption DEF IInv
<1>1. TypeOK'
  BY DEF SpawnInner, TypeOK
<1>2. OwnGeneratedKeys' /\ SpawnProgress'
  BY DEF SpawnInner, TypeOK, OwnGeneratedKeys, SpawnProgress
<1>3. OwnEntries'
  BY DEF SpawnInner, TypeOK, OwnEntries
<1>4. GeneratedIsTracked'
  BY DEF SpawnInner, TypeOK, GeneratedIsTracked
<1>5. OneActive'
  BY DEF SpawnInner, TypeOK, OneActive, Active, Unraced
<1>6. AwaitedReturned' /\ WaitAllWaits'
  BY DEF SpawnInner, TypeOK, AwaitedReturned, WaitAllWaits, IsFinished
<1>7. QED
  BY <1>1, <1>2, <1>3, <1>4, <1>5, <1>6

LEMMA InsertIInv ==
    ASSUME IInv, NEW c \in Calls, Insert(c)
    PROVE  IInv'
<1> USE OffloadAssumption DEF IInv
<1>1. key[c] \in OffloadKeys
  BY DEF Insert, SpawnProgress, TypeOK
<1>2. TypeOK'
  BY DEF Insert, TypeOK
<1>3. OwnGeneratedKeys' /\ SpawnProgress'
  BY DEF Insert, TypeOK, OwnGeneratedKeys, SpawnProgress
<1>4. OwnEntries'
  BY <1>1 DEF Insert, TypeOK, OwnEntries
<1>5. GeneratedIsTracked'
  BY <1>1 DEF Insert, TypeOK, GeneratedIsTracked, OwnGeneratedKeys, OffloadKeys
<1>6. OneActive'
  BY <1>1 DEF Insert, TypeOK, OneActive, Active, Unraced, OffloadKeys
<1>7. AwaitedReturned' /\ WaitAllWaits'
  BY DEF Insert, TypeOK, AwaitedReturned, WaitAllWaits, IsFinished
<1>8. QED
  BY <1>2, <1>3, <1>4, <1>5, <1>6, <1>7

-----------------------------------------------------------------------------
(* A task ends, with its key taken out of the map or left there. *)
LEMMA EndIInv ==
    ASSUME IInv, NEW c \in Calls, NEW how \in TaskEnds, End(c, how),
           Remove(key[c]) \/ UNCHANGED tasks
    PROVE  IInv'
<1> USE OffloadAssumption DEF IInv
<1>1. key[c] \in OffloadKeys /\ how \notin {"NotSpawned", "Running"}
  BY DEF End, SpawnProgress, TypeOK, TaskEnds
<1>2. \A k \in OffloadKeys : tasks'[k] = tasks[k] \/ (k = key[c] /\ tasks'[k] = None)
  BY <1>1 DEF Remove, TypeOK
<1>3. TypeOK'
  BY <1>1 DEF End, TypeOK, Remove
<1>4. OwnGeneratedKeys' /\ SpawnProgress'
  BY <1>1 DEF End, TypeOK, OwnGeneratedKeys, SpawnProgress
<1>5. OwnEntries'
  BY <1>2 DEF End, TypeOK, OwnEntries
<1>6. \A d \in Calls : task'[d] = "Running" => task[d] = "Running" /\ d # c
  BY <1>1 DEF End, TypeOK
<1>7. GeneratedIsTracked'
  BY <1>2, <1>6 DEF End, TypeOK, GeneratedIsTracked, OwnGeneratedKeys, OffloadKeys
<1>8. OneActive'
  <2>1. \A d \in Calls : Active(d)' => Active(d)
    BY <1>6 DEF Active, End
  <2>2. Active(c)
    BY DEF Active, End
  <2>3. QED
    BY <1>2, <1>6, <2>1, <2>2 DEF End, OneActive, Unraced, OffloadKeys, Active
<1>9. AwaitedReturned' /\ WaitAllWaits'
  BY DEF End, TypeOK, AwaitedReturned, WaitAllWaits, IsFinished
<1>10. QED
  BY <1>3, <1>4, <1>5, <1>7, <1>8, <1>9

LEMMA TaskStepIInv ==
    ASSUME IInv, NEW c \in Calls, TaskStep(c)
    PROVE  IInv'
<1>1. CASE Complete(c)
  BY <1>1, EndIInv DEF Complete, TaskEnds
<1>2. CASE TimeOut(c)
  BY <1>2, EndIInv DEF TimeOut, TaskEnds
<1>3. CASE Panic(c)
  BY <1>3, EndIInv DEF Panic, TaskEnds
<1>4. CASE AbortTakesEffect(c)
  BY <1>4, EndIInv DEF AbortTakesEffect, TaskEnds
<1>5. QED
  BY <1>1, <1>2, <1>3, <1>4 DEF TaskStep

-----------------------------------------------------------------------------
(* Aborting a task changes nothing the invariant speaks of but the type. *)
LEMMA CancelIInv ==
    ASSUME IInv, (\E k \in OffloadKeys : Cancel(k)) \/ CancelAll
    PROVE  IInv'
<1> USE OffloadAssumption DEF IInv
<1>1. Tracked \subseteq Calls
  BY DEF Tracked, TypeOK
<1>2. UNCHANGED <<config, tasks, call, key, task, waiter, awaited, raced>>
  BY DEF Cancel, CancelAll
<1>3. TypeOK'
  BY <1>1, <1>2 DEF TypeOK, Cancel, CancelAll
<1>4. OwnGeneratedKeys' /\ SpawnProgress' /\ OwnEntries' /\ GeneratedIsTracked'
  BY <1>2 DEF OwnGeneratedKeys, SpawnProgress, OwnEntries, GeneratedIsTracked
<1>5. OneActive' /\ AwaitedReturned' /\ WaitAllWaits'
  BY <1>2 DEF OneActive, Active, Unraced, AwaitedReturned, WaitAllWaits, IsFinished
<1>6. QED
  BY <1>3, <1>4, <1>5

(* Cleaning up removes no task that runs. *)
LEMMA RetainActiveIInv ==
    ASSUME IInv, RetainActive, UNCHANGED <<config, call, key, task, awaited, raced>>,
           aborting' \subseteq Calls,
           waiter' \in {"Idle", "Cleaning", "Checking", "Returned"},
           waiter' = "Returned" => waiter = "Returned"
    PROVE  IInv'
<1> USE OffloadAssumption DEF IInv
<1>1. \A k \in OffloadKeys :
          /\ tasks'[k] \in {tasks[k], None}
          /\ \A c \in Calls : tasks[k] = c /\ task[c] = "Running" => tasks'[k] = c
  BY DEF RetainActive, IsFinished, TaskEnds
<1>2. TypeOK'
  BY DEF TypeOK, RetainActive
<1>3. OwnGeneratedKeys' /\ SpawnProgress'
  BY DEF OwnGeneratedKeys, SpawnProgress
<1>4. OwnEntries'
  BY <1>1 DEF OwnEntries, TypeOK
<1>5. GeneratedIsTracked'
  BY <1>1 DEF GeneratedIsTracked, TypeOK, OffloadKeys
<1>6. OneActive'
  BY <1>1 DEF OneActive, Active, Unraced, OffloadKeys
<1>7. AwaitedReturned' /\ WaitAllWaits'
  BY DEF AwaitedReturned, WaitAllWaits, IsFinished
<1>8. QED
  BY <1>2, <1>3, <1>4, <1>5, <1>6, <1>7

LEMMA WaitAllIInv ==
    ASSUME IInv, WaitAll
    PROVE  IInv'
<1> USE OffloadAssumption DEF IInv
<1>1. \A c \in Tracked : c \in Calls /\ call[c] = "Returned"
  BY DEF Tracked, TypeOK, OwnEntries
<1>2. TypeOK'
  BY <1>1 DEF TypeOK, WaitAll
<1>3. OwnGeneratedKeys' /\ SpawnProgress' /\ OwnEntries' /\ GeneratedIsTracked'
  BY DEF WaitAll, OwnGeneratedKeys, SpawnProgress, OwnEntries, GeneratedIsTracked
<1>4. OneActive' /\ AwaitedReturned' /\ WaitAllWaits'
  BY <1>1 DEF WaitAll, OneActive, Active, Unraced, AwaitedReturned, WaitAllWaits
<1>5. QED
  BY <1>2, <1>3, <1>4

(* When the map is empty, whatever is still running is not tracked, which   *)
(* only a race over its key, or no deduplication, can bring about.          *)
LEMMA WaitCheckIInv ==
    ASSUME IInv, WaitCheck
    PROVE  IInv'
<1> USE OffloadAssumption DEF IInv
<1>1. TypeOK'
  BY DEF TypeOK, WaitCheck
<1>2. OwnGeneratedKeys' /\ SpawnProgress' /\ OwnEntries' /\ GeneratedIsTracked'
  BY DEF WaitCheck, OwnGeneratedKeys, SpawnProgress, OwnEntries, GeneratedIsTracked
<1>3. OneActive' /\ AwaitedReturned'
  BY DEF WaitCheck, OneActive, Active, Unraced, AwaitedReturned
<1>4. WaitAllWaits'
  <2> SUFFICES ASSUME waiter' = "Returned", NEW c \in awaited, ~IsFinished(c)
               PROVE  key[c] \in Keys /\ (~config.deduplicate \/ key[c] \in raced)
    BY DEF WaitCheck, WaitAllWaits, IsFinished
  <2>1. \A k \in OffloadKeys : tasks[k] = None
    BY DEF WaitCheck, Tracked
  <2>2. c \in Calls /\ call[c] = "Returned" /\ task[c] = "Running"
    BY DEF AwaitedReturned, SpawnProgress, TypeOK, IsFinished
  <2>3. key[c] \in OffloadKeys
    BY <2>2 DEF SpawnProgress, TypeOK
  <2>4. key[c] \notin Calls
    BY <2>1, <2>2, <2>3 DEF GeneratedIsTracked
  <2>5. key[c] \in Keys
    BY <2>3, <2>4 DEF OffloadKeys
  <2>6. ~Unraced(key[c])
    BY <2>1, <2>2, <2>3, <2>5 DEF OneActive
  <2>7. QED
    BY <2>5, <2>6 DEF Unraced
<1>5. QED
  BY <1>1, <1>2, <1>3, <1>4

LEMMA StutterIInv == IInv /\ UNCHANGED vars => IInv'
  BY DEF IInv, vars, TypeOK, OwnGeneratedKeys, SpawnProgress, OwnEntries, GeneratedIsTracked,
         OneActive, Active, Unraced, AwaitedReturned, WaitAllWaits, IsFinished

LEMMA NextIInv == IInv /\ [Next]_vars => IInv'
<1> SUFFICES ASSUME IInv, [Next]_vars
             PROVE  IInv'
  OBVIOUS
<1>1. ASSUME NEW c \in Calls, SpawnStep(c)
      PROVE  IInv'
  BY <1>1, SpawnIInv, SpawnWithKeyIInv, SpawnInnerIInv, InsertIInv DEF SpawnStep
<1>2. ASSUME NEW c \in Calls, TaskStep(c)
      PROVE  IInv'
  BY <1>2, TaskStepIInv
<1>3. CASE (\E k \in OffloadKeys : Cancel(k)) \/ CancelAll
  BY <1>3, CancelIInv
<1>4. CASE CleanupFinished \/ WaitClean
  BY <1>4, RetainActiveIInv DEF CleanupFinished, WaitClean, IInv, TypeOK
<1>5. CASE WaitAll
  BY <1>5, WaitAllIInv
<1>6. CASE WaitCheck
  BY <1>6, WaitCheckIInv
<1>7. CASE UNCHANGED vars
  BY <1>7, StutterIInv
<1>8. QED
  BY <1>1, <1>2, <1>3, <1>4, <1>5, <1>6, <1>7 DEF Next, WaitStep

-----------------------------------------------------------------------------
(* Whatever is spawned, cancelled, cleaned up or waited for, the map, the   *)
(* calls and the tasks stay within their types.                             *)
THEOREM TypeCorrect == Spec => []TypeOK
<1>1. Spec => []IInv
  BY InitIInv, NextIInv, PTL DEF Spec
<1>2. QED
  BY <1>1, PTL DEF IInv

(* A task with a generated key stays in the map, under its key, from when   *)
(* spawn() returned until it ends.                                          *)
THEOREM GeneratedTracked == Spec => []GeneratedIsTracked
<1>1. Spec => []IInv
  BY InitIInv, NextIInv, PTL DEF Spec
<1>2. QED
  BY <1>1, PTL DEF IInv

LEMMA OneRunning == IInv => DuplicateOnlyAfterRace
<1> SUFFICES ASSUME IInv, config.deduplicate, NEW k \in Keys, k \notin raced
             PROVE  Cardinality(Running(k)) <= 1
  BY DEF DuplicateOnlyAfterRace
<1>1. \A c, d \in Running(k) : c = d
  BY DEF Running, IInv, OneActive, Unraced, Active
<1>2. CASE Running(k) = {}
  BY <1>2, FS_EmptySet
<1>3. CASE Running(k) # {}
  <2>1. PICK c \in Running(k) : TRUE
    BY <1>3
  <2>2. Running(k) = {c}
    BY <1>1, <2>1
  <2>3. Cardinality({c}) = 1
    BY FS_Singleton
  <2>4. QED
    BY <2>2, <2>3
<1>4. QED
  BY <1>2, <1>3

(* With deduplication, two tasks of one cache key run at once only after    *)
(* two calls to spawn_with_key for it overlapped.                           *)
THEOREM DeduplicationHolds == Spec => []DuplicateOnlyAfterRace
<1>1. Spec => []IInv
  BY InitIInv, NextIInv, PTL DEF Spec
<1>2. QED
  BY <1>1, OneRunning, PTL

(* wait_all() does not return before the tasks it found in the map ended,   *)
(* except for tasks that another one replaced under their key.              *)
THEOREM WaitAllIsComplete == Spec => []WaitAllWaits
<1>1. Spec => []IInv
  BY InitIInv, NextIInv, PTL DEF Spec
<1>2. QED
  BY <1>1, PTL DEF IInv

(* The task map finds what runs, for every set of calls and keys. *)
THEOREM TasksTracked == Spec => []TasksAreTracked
<1>1. GeneratedIsTracked /\ DuplicateOnlyAfterRace => TasksAreTracked
  BY DEF TasksAreTracked
<1>2. QED
  BY <1>1, GeneratedTracked, DeduplicationHolds, PTL
-----------------------------------------------------------------------------
(* The metrics of the manager: the calls and the tasks that each counter    *)
(* stands for at any moment, recorded before or after the step they took.   *)
Completed == {c \in Calls : \/ task[c] = "Finished" /\ recording[c] = None
                            \/ removing[c] = "Finished"}
Expired   == {c \in Calls : task[c] = "TimedOut" \/ removing[c] = "TimedOut"}
Spawned   == {c \in Calls : call[c] = "Returned" /\ c \notin counting}
Skipped   == {c \in Calls : call[c] = "Deduplicated"}

MetricsType ==
    /\ counters \in [Counters -> Nat]
    /\ active \in Int
    /\ counting \subseteq Calls
    /\ recording \in [Calls -> {None, "Finished"}]
    /\ removing \in [Calls -> {None, "Finished", "TimedOut"}]

(* What is still to be recorded or removed, and of whom. *)
Pending ==
    \A c \in Calls :
        /\ recording[c] # None => task[c] = "Finished"
        /\ removing[c] # None => task[c] = "Running" /\ config.timeout = "Cancel"
        /\ c \in counting => call[c] = "Returned"

Accounts ==
    /\ counters["completed"] = Cardinality(Completed)
    /\ counters["timeout"] = Cardinality(Expired)
    /\ counters["spawned"] = Cardinality(Spawned)
    /\ counters["deduplicated"] = Cardinality(Skipped)
    /\ active = counters["spawned"] - counters["completed"] - counters["timeout"]

MInv == IInv /\ MetricsType /\ Pending /\ Accounts

(* A step that adds one call to a set of calls. *)
LEMMA OneMore ==
    ASSUME NEW S \in SUBSET Calls, NEW c \in Calls, c \notin S
    PROVE  Cardinality(S \cup {c}) = Cardinality(S) + 1
  BY OffloadAssumption, FS_AddElement, FS_Subset

(* Every account is a number. *)
LEMMA CallsCounted == \A S \in SUBSET Calls : IsFiniteSet(S) /\ Cardinality(S) \in Nat
  BY OffloadAssumption, FS_Subset, FS_CardinalityType

(* The metrics do not disturb the manager. *)
LEMMA MetricsMaps == MInv /\ [MetricsNext]_all_vars => [Next]_vars
<1> SUFFICES ASSUME MInv, [MetricsNext]_all_vars
             PROVE  [Next]_vars
  OBVIOUS
<1>1. CASE UNCHANGED all_vars
  BY <1>1 DEF all_vars
<1>2. CASE Management
  BY <1>2 DEF Management, Next
<1>3. ASSUME NEW c \in Calls,
             \/ SpawnAny(c) \/ SpawnKeyed(c) \/ SpawnRuns(c) \/ SpawnInserts(c) \/ SpawnCounts(c)
             \/ EndsInTime(c) \/ RemovesKey(c) \/ Ends(c) \/ RecordsEnd(c) \/ Breaks(c)
      PROVE  [Next]_vars
  <2>1. SpawnStep(c) \/ TaskStep(c) \/ UNCHANGED vars
    BY <1>3 DEF SpawnAny, SpawnKeyed, SpawnRuns, SpawnInserts, SpawnCounts, EndsInTime, RemovesKey,
                Ends, RecordsEnd, Breaks, SpawnStep, TaskStep
  <2>2. QED
    BY <2>1 DEF Next
<1>4. QED
  BY <1>1, <1>2, <1>3 DEF MetricsNext

(* A step that records nothing and moves no call from one account to        *)
(* another.                                                                 *)
LEMMA NothingCounted ==
    ASSUME MInv, UNCHANGED metrics_vars, UNCHANGED config,
           \A c \in Calls :
               /\ call'[c] # call[c] => /\ c \notin counting
                                        /\ call[c] \notin {"Returned", "Deduplicated"}
                                        /\ call'[c] \notin {"Returned", "Deduplicated"}
               /\ task'[c] # task[c] => /\ removing[c] = None
                                        /\ task[c] \notin {"Finished", "TimedOut"}
                                        /\ task'[c] \notin {"Finished", "TimedOut"}
    PROVE  MetricsType' /\ Pending' /\ Accounts'
<1>1. MetricsType'
  BY DEF MInv, MetricsType, metrics_vars
<1>2. Pending'
  BY DEF MInv, Pending, metrics_vars
<1>3. Completed' = Completed /\ Expired' = Expired /\ Spawned' = Spawned /\ Skipped' = Skipped
  BY DEF MInv, Completed, Expired, Spawned, Skipped, metrics_vars
<1>4. Accounts'
  BY <1>3 DEF MInv, Accounts, metrics_vars
<1>5. QED
  BY <1>1, <1>2, <1>4

(* A call that is skipped is counted in the same step. *)
LEMMA SpawnMetrics ==
    ASSUME MInv, NEW c \in Calls, SpawnAny(c) \/ SpawnKeyed(c) \/ SpawnRuns(c)
    PROVE  MetricsType' /\ Pending' /\ Accounts'
<1>0. /\ call \in [Calls -> {"Idle", "Checked", "Spawned", "Returned", "Deduplicated"}]
      /\ task \in [Calls -> {"NotSpawned", "Running"} \cup TaskEnds]
      /\ SpawnProgress /\ Pending /\ MetricsType
  BY DEF MInv, IInv, TypeOK
<1>1. CASE SpawnAny(c)
  BY <1>0, <1>1, NothingCounted DEF SpawnAny, Spawn, metrics_vars, Pending
<1>2. CASE SpawnRuns(c)
  BY <1>0, <1>2, NothingCounted DEF SpawnRuns, SpawnInner, metrics_vars, Pending, SpawnProgress
<1>3. CASE SpawnKeyed(c)
  <2>1. PICK k \in Keys : SpawnWithKey(c, k)
    BY <1>3 DEF SpawnKeyed
  <2>2. CASE call'[c] = "Checked"
    <3>1. UNCHANGED metrics_vars
      BY <1>3, <2>2 DEF SpawnKeyed, metrics_vars
    <3>2. QED
      BY <1>0, <2>1, <2>2, <3>1, NothingCounted DEF SpawnWithKey, Pending
  <2>3. CASE call'[c] = "Deduplicated"
    <3>1. /\ call' = [call EXCEPT ![c] = "Deduplicated"] /\ call[c] = "Idle"
          /\ UNCHANGED <<config, task, active, counting, recording, removing>>
          /\ counters' = [counters EXCEPT !["deduplicated"] = @ + 1]
      BY <1>0, <1>3, <2>1, <2>3 DEF SpawnKeyed, SpawnWithKey, Increment
    <3>2. Completed' = Completed /\ Expired' = Expired
      BY <3>1 DEF Completed, Expired
    <3>3. Spawned' = Spawned
      BY <1>0, <3>1 DEF Spawned
    <3>4. Skipped' = Skipped \cup {c} /\ c \notin Skipped /\ Skipped \in SUBSET Calls
      BY <1>0, <3>1 DEF Skipped
    <3>5. Cardinality(Skipped') = Cardinality(Skipped) + 1
      BY <3>4, OneMore
    <3>6. MetricsType'
      BY <1>0, <3>1 DEF MetricsType, Counters
    <3>7. Pending'
      BY <1>0, <3>1 DEF Pending
    <3>8. Accounts'
      BY <1>0, <3>1, <3>2, <3>3, <3>5 DEF MInv, Accounts, MetricsType, Counters
    <3>9. QED
      BY <3>6, <3>7, <3>8
  <2>4. QED
    BY <1>0, <2>1, <2>2, <2>3 DEF SpawnWithKey
<1>4. QED
  BY <1>1, <1>2, <1>3

(* A spawned task is counted one step after its handle is in the map. *)
LEMMA InsertMetrics ==
    ASSUME MInv, NEW c \in Calls, SpawnInserts(c) \/ SpawnCounts(c)
    PROVE  MetricsType' /\ Pending' /\ Accounts'
<1>0. /\ call \in [Calls -> {"Idle", "Checked", "Spawned", "Returned", "Deduplicated"}]
      /\ Pending /\ MetricsType
  BY DEF MInv, IInv, TypeOK
<1>1. CASE SpawnInserts(c)
  <2>1. /\ call' = [call EXCEPT ![c] = "Returned"] /\ call[c] = "Spawned"
        /\ counting' = counting \cup {c}
        /\ UNCHANGED <<config, task, counters, active, recording, removing>>
    BY <1>1 DEF SpawnInserts, Insert
  <2>2. Completed' = Completed /\ Expired' = Expired
    BY <2>1 DEF Completed, Expired
  <2>3. Spawned' = Spawned /\ Skipped' = Skipped
    BY <1>0, <2>1 DEF Spawned, Skipped
  <2>4. MetricsType' /\ Pending'
    BY <1>0, <2>1 DEF MetricsType, Pending
  <2>5. QED
    BY <2>1, <2>2, <2>3, <2>4 DEF MInv, Accounts
<1>2. CASE SpawnCounts(c)
  <2>1. /\ c \in counting /\ counting' = counting \ {c}
        /\ counters' = [counters EXCEPT !["spawned"] = @ + 1]
        /\ active' = active + 1
        /\ UNCHANGED <<config, call, task, recording, removing>>
    BY <1>2 DEF SpawnCounts, Increment, vars
  <2>2. Completed' = Completed /\ Expired' = Expired /\ Skipped' = Skipped
    BY <2>1 DEF Completed, Expired, Skipped
  <2>3. Spawned' = Spawned \cup {c} /\ c \notin Spawned /\ Spawned \in SUBSET Calls
    BY <1>0, <2>1 DEF Spawned, Pending
  <2>4. Cardinality(Spawned') = Cardinality(Spawned) + 1
    BY <2>3, OneMore
  <2>5. MetricsType' /\ Pending'
    BY <1>0, <2>1 DEF MetricsType, Pending, Counters
  <2>6. Cardinality(Spawned) \in Nat /\ Cardinality(Completed) \in Nat /\ Cardinality(Expired) \in Nat
    BY <1>0, <2>3, CallsCounted DEF Completed, Expired
  <2>7. Accounts'
    BY <1>0, <2>1, <2>2, <2>4, <2>6 DEF MInv, Accounts, MetricsType, Counters
  <2>8. QED
    BY <2>5, <2>7
<1>3. QED
  BY <1>1, <1>2

(* The end of a task is recorded before or after it leaves the map. *)
LEMMA EndMetrics ==
    ASSUME MInv, NEW c \in Calls,
           EndsInTime(c) \/ RemovesKey(c) \/ Ends(c) \/ RecordsEnd(c)
    PROVE  MetricsType' /\ Pending' /\ Accounts'
<1>0. /\ task \in [Calls -> {"NotSpawned", "Running"} \cup TaskEnds]
      /\ Pending /\ MetricsType /\ None \notin {"Finished", "TimedOut"}
      /\ \A S \in SUBSET Calls : Cardinality(S) \in Nat
  BY OffloadAssumption, CallsCounted DEF MInv, IInv, TypeOK, TaskEnds
<1>1. CASE EndsInTime(c)
  <2>1. PICK how \in {"Finished", "TimedOut"} :
            Record(how) /\ removing' = [removing EXCEPT ![c] = how]
    BY <1>1 DEF EndsInTime
  <2>2. /\ config.timeout = "Cancel" /\ task[c] = "Running" /\ removing[c] = None
        /\ UNCHANGED <<config, call, task, counting, recording>>
    BY <1>1 DEF EndsInTime, vars
  <2>3. MetricsType' /\ Pending'
    BY <1>0, <2>1, <2>2 DEF MetricsType, Pending, Record, Increment, Counters
  <2>4. Spawned' = Spawned /\ Skipped' = Skipped
    BY <2>2 DEF Spawned, Skipped
  <2>5. CASE how = "Finished"
    <3>1. /\ Completed' = Completed \cup {c} /\ c \notin Completed
          /\ Expired' = Expired
      BY <1>0, <2>1, <2>2, <2>5 DEF Completed, Expired, MetricsType
    <3>2. Cardinality(Completed') = Cardinality(Completed) + 1
      BY <3>1, OneMore DEF Completed
    <3>3. counters' = [counters EXCEPT !["completed"] = @ + 1] /\ active' = active - 1
      BY <2>1, <2>5 DEF Record, Increment
    <3>4. QED
      BY <1>0, <2>3, <2>4, <3>1, <3>2, <3>3 DEF MInv, Accounts, MetricsType, Counters
  <2>6. CASE how = "TimedOut"
    <3>1. /\ Expired' = Expired \cup {c} /\ c \notin Expired
          /\ Completed' = Completed
      BY <1>0, <2>1, <2>2, <2>6 DEF Completed, Expired, MetricsType
    <3>2. Cardinality(Expired') = Cardinality(Expired) + 1
      BY <3>1, OneMore DEF Expired
    <3>3. counters' = [counters EXCEPT !["timeout"] = @ + 1] /\ active' = active - 1
      BY <2>1, <2>6 DEF Record, Increment
    <3>4. QED
      BY <1>0, <2>3, <2>4, <3>1, <3>2, <3>3 DEF MInv, Accounts, MetricsType, Counters
  <2>7. QED
    BY <2>5, <2>6
<1>2. CASE RemovesKey(c)
  <2>1. /\ removing[c] \in {"Finished", "TimedOut"}
        /\ task[c] = "Running" /\ task' = [task EXCEPT ![c] = removing[c]]
        /\ removing' = [removing EXCEPT ![c] = None]
        /\ UNCHANGED <<config, call, counters, active, counting, recording>>
    BY <1>0, <1>2 DEF RemovesKey, Complete, TimeOut, End, MetricsType
  <2>2. recording[c] = None
    BY <1>0, <2>1 DEF Pending
  <2>3. Completed' = Completed /\ Expired' = Expired /\ Spawned' = Spawned /\ Skipped' = Skipped
    BY <1>0, <2>1, <2>2 DEF Completed, Expired, Spawned, Skipped, MetricsType
  <2>4. MetricsType' /\ Pending'
    BY <1>0, <2>1, <2>2 DEF MetricsType, Pending
  <2>5. QED
    BY <2>1, <2>3, <2>4 DEF MInv, Accounts
<1>3. CASE Ends(c)
  <2>1. /\ task[c] = "Running" /\ task' = [task EXCEPT ![c] = "Finished"]
        /\ config.timeout # "Cancel" /\ recording' = [recording EXCEPT ![c] = "Finished"]
        /\ UNCHANGED <<config, call, counters, active, counting, removing>>
    BY <1>3 DEF Ends, Complete, End
  <2>2. removing[c] = None
    BY <1>0, <2>1 DEF Pending
  <2>3. Completed' = Completed /\ Expired' = Expired /\ Spawned' = Spawned /\ Skipped' = Skipped
    BY <1>0, <2>1, <2>2 DEF Completed, Expired, Spawned, Skipped, MetricsType
  <2>4. MetricsType' /\ Pending'
    BY <1>0, <2>1, <2>2 DEF MetricsType, Pending
  <2>5. QED
    BY <2>1, <2>3, <2>4 DEF MInv, Accounts
<1>4. CASE RecordsEnd(c)
  <2>1. /\ recording[c] = "Finished" /\ task[c] = "Finished"
        /\ recording' = [recording EXCEPT ![c] = None]
        /\ counters' = [counters EXCEPT !["completed"] = @ + 1] /\ active' = active - 1
        /\ UNCHANGED <<config, call, task, counting, removing>>
    BY <1>0, <1>4 DEF RecordsEnd, Record, Increment, MetricsType, Pending, vars
  <2>2. removing[c] = None
    BY <1>0, <2>1 DEF Pending
  <2>3. /\ Completed' = Completed \cup {c} /\ c \notin Completed
        /\ Expired' = Expired /\ Spawned' = Spawned /\ Skipped' = Skipped
    BY <1>0, <2>1, <2>2 DEF Completed, Expired, Spawned, Skipped, MetricsType
  <2>4. Cardinality(Completed') = Cardinality(Completed) + 1
    BY <2>3, OneMore DEF Completed
  <2>5. MetricsType' /\ Pending'
    BY <1>0, <2>1, <2>2 DEF MetricsType, Pending, Counters
  <2>6. QED
    BY <1>0, <2>1, <2>3, <2>4, <2>5 DEF MInv, Accounts, MetricsType, Counters
<1>5. QED
  BY <1>1, <1>2, <1>3, <1>4

(* A task that breaks, and the management of the map, record nothing. *)
LEMMA QuietMetrics ==
    ASSUME MInv, (\E c \in Calls : Breaks(c)) \/ Management \/ UNCHANGED all_vars
    PROVE  MetricsType' /\ Pending' /\ Accounts'
<1>0. task \in [Calls -> {"NotSpawned", "Running"} \cup TaskEnds]
  BY DEF MInv, IInv, TypeOK
<1>1. ASSUME NEW c \in Calls, Breaks(c)
      PROVE  MetricsType' /\ Pending' /\ Accounts'
  <2>1. /\ UNCHANGED metrics_vars /\ UNCHANGED <<config, call>>
        /\ removing[c] = None /\ task[c] = "Running"
        /\ \/ task' = [task EXCEPT ![c] = "Panicked"]
           \/ task' = [task EXCEPT ![c] = "Aborted"]
    BY <1>1 DEF Breaks, Panic, AbortTakesEffect, End
  <2>2. QED
    BY <1>0, <2>1, NothingCounted
<1>2. CASE Management
  <2>1. UNCHANGED metrics_vars
    BY <1>2 DEF Management
  <2>2. UNCHANGED <<config, call, task>>
    BY <1>2 DEF Management, Cancel, CancelAll, CleanupFinished, WaitAll, WaitStep, WaitClean, WaitCheck
  <2>3. QED
    BY <2>1, <2>2, NothingCounted
<1>3. CASE UNCHANGED all_vars
  BY <1>3, NothingCounted DEF all_vars, vars
<1>4. QED
  BY <1>1, <1>2, <1>3

(* The invariant is inductive. *)
LEMMA NextMInv == MInv /\ [MetricsNext]_all_vars => MInv'
<1> SUFFICES ASSUME MInv, [MetricsNext]_all_vars
             PROVE  MInv'
  OBVIOUS
<1>1. IInv'
  BY MetricsMaps, NextIInv DEF MInv
<1>2. MetricsType' /\ Pending' /\ Accounts'
  <2>1. ASSUME NEW c \in Calls,
               \/ SpawnAny(c) \/ SpawnKeyed(c) \/ SpawnRuns(c) \/ SpawnInserts(c) \/ SpawnCounts(c)
               \/ EndsInTime(c) \/ RemovesKey(c) \/ Ends(c) \/ RecordsEnd(c)
        PROVE  MetricsType' /\ Pending' /\ Accounts'
    BY <2>1, SpawnMetrics, InsertMetrics, EndMetrics
  <2>2. QED
    BY <2>1, QuietMetrics DEF MetricsNext
<1>3. QED
  BY <1>1, <1>2 DEF MInv

(* It holds at the start. *)
LEMMA InitMInv == MetricsInit => MInv
<1> SUFFICES ASSUME MetricsInit
             PROVE  MInv
  OBVIOUS
<1>1. IInv /\ Init
  BY InitIInv DEF MetricsInit
<1>2. MetricsType /\ Pending
  BY OffloadAssumption, <1>1 DEF MetricsInit, Init, MetricsType, Pending, Counters, TaskEnds
<1>3. Completed = {} /\ Expired = {} /\ Spawned = {} /\ Skipped = {}
  BY OffloadAssumption, <1>1 DEF MetricsInit, Init, Completed, Expired, Spawned, Skipped, TaskEnds
<1>4. Accounts
  BY <1>3, FS_EmptySet DEF MetricsInit, Accounts, Counters
<1>5. QED
  BY <1>1, <1>2, <1>4 DEF MInv

-----------------------------------------------------------------------------
(* With the metrics the manager does what it does without.                  *)
THEOREM MetricsAreTransparent == MetricsSpec => Spec
<1>1. MetricsSpec => []MInv
  BY InitMInv, NextMInv, PTL DEF MetricsSpec
<1>2. MetricsInit => Init
  BY DEF MetricsInit
<1>3. QED
  BY <1>1, <1>2, MetricsMaps, PTL DEF MetricsSpec, Spec

(* Two sets of calls that share none. *)
LEMMA DisjointUnion ==
    ASSUME NEW S \in SUBSET Calls, NEW T \in SUBSET Calls, S \cap T = {}
    PROVE  Cardinality(S \cup T) = Cardinality(S) + Cardinality(T)
<1>1. Cardinality(S \cup T) = Cardinality(S) + Cardinality(T) - Cardinality(S \cap T)
  BY CallsCounted, FS_Union
<1>2. Cardinality(S \cap T) = 0
  BY FS_EmptySet
<1>3. QED
  BY <1>1, <1>2, CallsCounted

(* The tasks that broke are the ones no counter tells of. *)
LEMMA EndsAddUp ==
    /\ Ended({"Finished"}) \in Nat /\ Ended({"TimedOut"}) \in Nat
    /\ Ended(TaskEnds) = Ended({"Finished"}) + Ended({"TimedOut"}) + Ended({"Panicked", "Aborted"})
<1> DEFINE Finished == {c \in Calls : task[c] \in {"Finished"}}
           TimedOut == {c \in Calls : task[c] \in {"TimedOut"}}
           Broken   == {c \in Calls : task[c] \in {"Panicked", "Aborted"}}
<1>1. Cardinality(Finished \cup TimedOut) = Cardinality(Finished) + Cardinality(TimedOut)
  BY DisjointUnion
<1>2. Cardinality((Finished \cup TimedOut) \cup Broken)
        = Cardinality(Finished \cup TimedOut) + Cardinality(Broken)
  BY DisjointUnion
<1>3. {c \in Calls : task[c] \in TaskEnds} = (Finished \cup TimedOut) \cup Broken
  BY DEF TaskEnds
<1>4. Cardinality(Finished) \in Nat /\ Cardinality(TimedOut) \in Nat
  BY CallsCounted
<1>5. QED
  BY <1>1, <1>2, <1>3, <1>4 DEF Ended

(* At rest every call has been counted where it ended. *)
LEMMA MInvCounts == MInv => CountersAddUp
<1> SUFFICES ASSUME MInv, AtRest
             PROVE  /\ counters["completed"] = Ended({"Finished"})
                    /\ counters["timeout"] = Ended({"TimedOut"})
                    /\ counters["spawned"] = Ended(TaskEnds)
                    /\ counters["deduplicated"] = Cardinality({c \in Calls : call[c] = "Deduplicated"})
  BY DEF CountersAddUp
<1>1. SpawnProgress /\ TypeOK /\ None \notin {"Finished", "TimedOut"}
  BY OffloadAssumption DEF MInv, IInv, TaskEnds
<1>2. Completed = {c \in Calls : task[c] \in {"Finished"}}
  BY <1>1 DEF Completed, AtRest
<1>3. Expired = {c \in Calls : task[c] \in {"TimedOut"}}
  BY <1>1 DEF Expired, AtRest
<1>4. Spawned = {c \in Calls : task[c] \in TaskEnds}
  BY <1>1 DEF Spawned, AtRest, SpawnProgress, TypeOK, TaskEnds
<1>5. QED
  BY <1>2, <1>3, <1>4 DEF MInv, Accounts, Ended, Skipped

LEMMA MInvReturns == MInv => GaugeReturns
<1> SUFFICES ASSUME MInv, AtRest, Ended({"Panicked", "Aborted"}) = 0
             PROVE  active = 0
  BY DEF GaugeReturns
<1>1. Ended(TaskEnds) = Ended({"Finished"}) + Ended({"TimedOut"})
      /\ Ended({"Finished"}) \in Nat /\ Ended({"TimedOut"}) \in Nat
  BY EndsAddUp
<1>2. QED
  BY <1>1, MInvCounts DEF MInv, Accounts, CountersAddUp

(* No counter gets beyond the number of calls, and the gauge is not further *)
(* from zero than that.                                                     *)
LEMMA MInvTypes == MInv => MetricsTypeOK
<1> SUFFICES ASSUME MInv PROVE MetricsTypeOK
  OBVIOUS
<1> DEFINE most == Cardinality(Calls)
<1>0. most \in Nat /\ IsFiniteSet(Calls)
  BY CallsCounted
<1>1. \A S \in SUBSET Calls : Cardinality(S) \in Nat /\ Cardinality(S) <= most
  BY <1>0, CallsCounted, FS_Subset
<1>2. Completed \in SUBSET Calls /\ Expired \in SUBSET Calls /\ Spawned \in SUBSET Calls
      /\ Skipped \in SUBSET Calls
  BY DEF Completed, Expired, Spawned, Skipped
<1>3. Completed \cap Expired = {}
  BY OffloadAssumption DEF MInv, Pending, Completed, Expired, TaskEnds
<1>4. Cardinality(Completed \cup Expired) = Cardinality(Completed) + Cardinality(Expired)
  BY <1>2, <1>3, DisjointUnion
<1>5. Completed \cup Expired \in SUBSET Calls
  BY <1>2
<1> HIDE DEF most
<1>6. Cardinality(Completed) + Cardinality(Expired) <= most
  BY <1>1, <1>4, <1>5
<1>7. /\ counters["completed"] = Cardinality(Completed) /\ counters["timeout"] = Cardinality(Expired)
      /\ counters["spawned"] = Cardinality(Spawned) /\ counters["deduplicated"] = Cardinality(Skipped)
      /\ active = counters["spawned"] - counters["completed"] - counters["timeout"]
  BY DEF MInv, Accounts
<1>8. \A name \in Counters : counters[name] \in 0..most
  BY <1>0, <1>1, <1>2, <1>7 DEF Counters
<1>9. active \in -most..most
  <2>1. /\ Cardinality(Completed) \in Nat /\ Cardinality(Expired) \in Nat
        /\ Cardinality(Spawned) \in Nat /\ Cardinality(Spawned) <= most
    BY <1>1, <1>2
  <2>2. QED
    BY <1>0, <1>6, <1>7, <2>1
<1>10. counters \in [Counters -> 0..most]
  BY <1>8 DEF MInv, MetricsType
<1>11. QED
  BY <1>9, <1>10 DEF most, MInv, IInv, MetricsType, MetricsTypeOK

(* Whatever the interleaving of spawns, ends, timeouts and clean-ups, once  *)
(* nothing is going on the counters account for every call exactly once;    *)
(* and if no task broke, the gauge of active tasks is back at zero.         *)
THEOREM CountersAreRight == MetricsSpec => []CountersAddUp /\ []GaugeReturns
<1>1. MetricsSpec => []MInv
  BY InitMInv, NextMInv, PTL DEF MetricsSpec
<1>2. QED
  BY <1>1, MInvCounts, MInvReturns, PTL
=============================================================================
