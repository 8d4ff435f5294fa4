--------------------------- MODULE FeOxDbBackend ---------------------------
(***************************************************************************)
(* FeOxDbBackend (hitbox-feoxdb/src/backend.rs): a store in memory, with   *)
(* or without a file behind it.  An operation is a closure on a thread for *)
(* blocking work: it waits for one, and runs even when its caller has left.*)
(* FeOxDB itself, which is not part of the repository, is modelled as the  *)
(* backend's comments, its README and its tests describe it: keys with a   *)
(* time to live, writes that reach the file later and one by one, no       *)
(* eviction, and errors when there is no room.  An entry takes one unit of *)
(* room.                                                                   *)
(***************************************************************************)
EXTENDS CacheValue, FiniteSets

CONSTANTS
    Tasks,      \* operations; a number, which is also the data a task writes
    Keys,
    Lifetimes,  \* [ttl, stale_ttl] a value may be made with
    Paths,      \* TRUE: built with path()
    CAPACITY,   \* max_memory() without a path, max_file_size() with one
    MAX_TIME, MAX_RESTARTS      \* bounds on the clock and on restarts

Entries == [value : CacheValues, until : Times]

(* What an instance has to give the constants. *)
ConstantsOK ==
    /\ Tasks \subseteq Nat /\ IsFiniteSet(Tasks)
    /\ Lifetimes \subseteq [ttl : Times, stale_ttl : Times]
    /\ Paths \subseteq BOOLEAN /\ CAPACITY \in Nat
    /\ MAX_TIME \in Nat /\ MAX_RESTARTS \in Nat
    /\ None \notin Entries

VARIABLES
    path,       \* whether there is a file
    store,      \* key -> what is stored, or None
    file,       \* key -> what a restart finds, or None
    op,         \* task -> its operation
    now, restarts,
    lost        \* history: tasks that a restart may have undone

vars == <<path, store, file, op, now, restarts, lost>>

Operations ==
    [state  : {"Idle", "Queued", "Found", "Done", "Failed", "Gone"},
     kind   : {"read", "write", "remove"},
     key    : Keys \cup {None},
     left   : BOOLEAN,                   \* the caller has gone
     value  : CacheValues \cup {None},   \* to be written, or read
     ttl    : Times,
     after  : SUBSET Tasks,              \* history: tasks answered before it began,
     at     : Nat,                       \* and when a read was answered
     stored : {"no", "unflushed", "flushed"}]    \* history: of a write

TypeOK ==
    /\ path \in Paths
    /\ store \in [Keys -> Entries \cup {None}]
    /\ file \in [Keys -> Entries \cup {None}]
    /\ op \in [Tasks -> Operations]
    /\ now \in 0..MAX_TIME /\ restarts \in 0..MAX_RESTARTS
    /\ lost \subseteq Tasks

(* build() and in_memory() *)
Init ==
    /\ path \in Paths
    /\ store = [k \in Keys |-> None] /\ file = [k \in Keys |-> None]
    /\ op = [t \in Tasks |-> [state |-> "Idle", kind |-> "read", key |-> None, left |-> FALSE,
                              value |-> None, ttl |-> None, after |-> {}, at |-> 0,
                              stored |-> "no"]]
    /\ now = 0 /\ restarts = 0 /\ lost = {}

-----------------------------------------------------------------------------
Answered == {t \in Tasks : op[t].state = "Done" /\ ~op[t].left}

(* FeOxDB finds no entry whose time to live is over. *)
Alive(k) == store[k] # None /\ (store[k].until = None \/ now < store[k].until)

Ends(t, state) == op' = [op EXCEPT ![t].state = state]

(* The call, up to spawn_blocking(): a write computes its time to live.     *)
(* Tasks are numbered in the order in which they begin.                     *)
Start(t) ==
    /\ op[t].state = "Idle" /\ \A u \in Tasks : u < t => op[u].state # "Idle"
    /\ \E k \in Keys :
          \/ \E kind \in {"read", "remove"} :
                op' = [op EXCEPT ![t].state = "Queued", ![t].kind = kind, ![t].key = k,
                                 ![t].after = Answered]
          \/ \E lifetime \in Lifetimes :
                LET value == FreshValue(t, lifetime, now) IN
                op' = [op EXCEPT ![t].state = "Queued", ![t].kind = "write", ![t].key = k,
                                 ![t].after = Answered, ![t].value = value,
                                 ![t].ttl = Ttl(value, now)]
    /\ UNCHANGED <<path, store, file, now, restarts, lost>>

(* The caller drops the operation; a closure that is queued runs anyway.    *)
(* (That of a read changes nothing.)                                        *)
Leave(t) ==
    /\ op[t].state \in {"Queued", "Found"} /\ op[t].kind # "read"
    /\ op' = [op EXCEPT ![t].left = TRUE]
    /\ UNCHANGED <<path, store, file, now, restarts, lost>>

(* read(): an entry that has expired is no answer, stored or not. *)
Read(t) ==
    /\ op[t].state = "Queued" /\ op[t].kind = "read"
    /\ LET k == op[t].key
           found == Alive(k) /\ ~(store[k].value.expire # None /\ store[k].value.expire < now)
       IN op' = [op EXCEPT ![t].state = "Done", ![t].at = now,
                           ![t].value = IF found THEN store[k].value ELSE None]
    /\ UNCHANGED <<path, store, file, now, restarts, lost>>

Room(k) == Cardinality({j \in Keys \ {k} : store[j] # None}) < CAPACITY

Until(t) == IF op[t].ttl = None THEN None ELSE now + op[t].ttl * SECOND

WriteIfAbsent(t) ==           \* mutant: does not replace what is there
    /\ op[t].state = "Queued" /\ op[t].kind = "write"
    /\ Room(op[t].key)
    /\ op' = [op EXCEPT ![t].state = "Done", ![t].stored = "unflushed"]
    /\ store' = IF Alive(op[t].key) THEN store
                ELSE [store EXCEPT ![op[t].key] = [value |-> op[t].value, until |-> Until(t)]]
    /\ UNCHANGED <<path, file, now, restarts, lost>>

(* write(): insert_with_ttl(), or insert() of a value without a ttl(). *)
Write(t) ==
    /\ op[t].state = "Queued" /\ op[t].kind = "write"
    /\ Room(op[t].key)
    /\ op' = [op EXCEPT ![t].state = "Done", ![t].stored = "unflushed"]
    /\ store' = [store EXCEPT ![op[t].key] = [value |-> op[t].value, until |-> Until(t)]]
    /\ UNCHANGED <<path, file, now, restarts, lost>>

(* OutOfMemory or OutOfSpace; what the key had stays. *)
WriteFails(t) ==
    /\ op[t].state = "Queued" /\ op[t].kind = "write"
    /\ ~Room(op[t].key)
    /\ Ends(t, "Failed")
    /\ UNCHANGED <<path, store, file, now, restarts, lost>>

(* remove(): contains_key(), and then delete(), which fails if the key has  *)
(* gone in between.                                                         *)
Contains(t) ==
    /\ op[t].state = "Queued" /\ op[t].kind = "remove"
    /\ Ends(t, IF Alive(op[t].key) THEN "Found" ELSE "Done")
    /\ UNCHANGED <<path, store, file, now, restarts, lost>>

Delete(t) ==
    /\ op[t].state = "Found"
    /\ IF Alive(op[t].key)
       THEN Ends(t, "Done") /\ store' = [store EXCEPT ![op[t].key] = None]
       ELSE Ends(t, "Failed") /\ UNCHANGED store
    /\ UNCHANGED <<path, file, now, restarts, lost>>

-----------------------------------------------------------------------------
FlushLater ==                 \* mutant: flush() only asks for it
    /\ path
    /\ op' = [t \in Tasks |-> IF op[t].stored = "no" THEN op[t]
                              ELSE [op[t] EXCEPT !.stored = "flushed"]]
    /\ UNCHANGED <<path, store, file, now, restarts, lost>>

(* flush(): all that is pending goes to the file. *)
Flush ==
    /\ path
    /\ file' = store
    /\ op' = [t \in Tasks |-> IF op[t].stored = "no" THEN op[t]
                              ELSE [op[t] EXCEPT !.stored = "flushed"]]
    /\ UNCHANGED <<path, store, now, restarts, lost>>

(* FeOxDB writes to its file in the background, and drops what is over. *)
Persist(k) ==
    /\ path
    /\ file' = [file EXCEPT ![k] = store[k]]
    /\ UNCHANGED <<path, store, op, now, restarts, lost>>

Sweep(k) ==
    /\ store[k] # None /\ ~Alive(k)
    /\ store' = [store EXCEPT ![k] = None]
    /\ UNCHANGED <<path, file, op, now, restarts, lost>>

(* The process ends, with the operations under way, and starts again. *)
Restart ==
    /\ restarts < MAX_RESTARTS
    /\ restarts' = restarts + 1
    /\ store' = file
    /\ lost' = lost \cup {t \in Tasks : op[t].stored = "unflushed" \/ ~path}
    /\ op' = [t \in Tasks |-> IF op[t].state \in {"Queued", "Found"}
                              THEN [op[t] EXCEPT !.state = "Gone"] ELSE op[t]]
    /\ UNCHANGED <<path, file, now>>

Tick ==
    /\ now < MAX_TIME
    /\ now' = now + 1
    /\ UNCHANGED <<path, store, file, op, restarts, lost>>

Run(t) == Read(t) \/ Write(t) \/ WriteFails(t) \/ Contains(t) \/ Delete(t)

Next ==
    \/ \E t \in Tasks : Start(t) \/ Leave(t) \/ Run(t)
    \/ \E k \in Keys : Persist(k) \/ Sweep(k)
    \/ Flush \/ Restart \/ Tick

Spec == Init /\ [][Next]_vars

-----------------------------------------------------------------------------
Done(t, kind) == op[t].state = "Done" /\ op[t].kind = kind

(* A read does not go back behind what its caller could know: no operation  *)
(* that was answered before it began had replaced or removed the value it   *)
(* returns.  (A restart may take back what was not flushed.)                *)
Undoes(u, t) ==       \* u was answered, and began after t was
    op[u].kind \in {"write", "remove"} /\ op[u].key = op[t].key /\ t \in op[u].after

ReadsTheLatest ==
    \A r \in Tasks : Done(r, "read") /\ op[r].value # None /\ restarts = 0 =>
        /\ op[r].value.expire = None \/ op[r].value.expire >= op[r].at
        /\ ~\E u \in op[r].after : Undoes(u, op[r].value.data)

(* What was written is found until its time is over, or until somebody      *)
(* removes or replaces it: FeOxDB does not evict.  Flushed, it is found     *)
(* after a restart too; time is counted in whole seconds.                   *)
TimeIsUp(w, at) == op[w].value.expire # None /\ op[w].value.expire < at + SECOND

Supersedes(u, w, at) ==
    /\ u # w /\ op[u].key = op[w].key /\ u \notin op[w].after
    /\ \/ op[u].kind = "remove"
       \/ op[u].kind = "write" /\ TimeIsUp(u, at)

MissForAReason ==
    \A r \in Tasks : Done(r, "read") /\ op[r].value = None =>
        \A w \in op[r].after :
            Done(w, "write") /\ op[w].key = op[r].key =>
                \/ TimeIsUp(w, op[r].at)
                \/ w \in lost
                \/ \E u \in Tasks : Supersedes(u, w, op[r].at)
=============================================================================
