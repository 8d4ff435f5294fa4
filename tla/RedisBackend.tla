---------------------------- MODULE RedisBackend ----------------------------
(***************************************************************************)
(* The commands of RedisBackend (hitbox-redis/src/backend.rs) on one key.  *)
(* A read is HMGET and PTTL, a write HSET and, if the value has a ttl(),   *)
(* EXPIRE: a pipeline of two commands, which Redis runs one after the other*)
(* without leaving out other clients in between.  Each process has one     *)
(* connection, opened by whichever operation needs it first (an OnceCell); *)
(* pipelines of one connection do not mix, those of two processes may.     *)
(*                                                                         *)
(* Storage takes a pipeline to be one step; this module looks between its  *)
(* commands.  Clocks agree.  A task does one operation.  Replicas of a     *)
(* cluster are left out.                                                   *)
(*                                                                         *)
(* Redis, or the network, may be slow or not answer at all.  How long an   *)
(* operation waits then is up to the timeouts the program has set.         *)
(***************************************************************************)
EXTENDS CacheValue, FiniteSets

CONSTANTS
    Tasks,      \* operations; a number, which is also the data a task writes
    Home,       \* task -> the process it runs in
    Lifetimes,  \* [ttl, stale_ttl] a value may be made with
    Timeouts,   \* which timeouts a program may set
    MAX_TIME,   \* bound on the clock
    Faults      \* which disturbances may happen

Processes == {Home[t] : t \in Tasks}

(* What an instance has to give the constants. *)
ConstantsOK ==
    /\ Tasks \subseteq Nat \ {0} /\ IsFiniteSet(Tasks)
    /\ Lifetimes \subseteq [ttl : Times, stale_ttl : Times]
    /\ Timeouts \subseteq SUBSET {"connection", "response"}
    /\ Faults \subseteq {"unreachable", "cancel", "disconnect", "silence"}
    /\ MAX_TIME \in Nat

VARIABLES
    timeouts, \* the timeouts that are set
    silent,   \* whether Redis may leave a client without an answer for good
    now,
    hash,     \* the key in Redis: its fields and the time it is kept until
    cell,     \* process -> its OnceCell
    opened,   \* process -> connections opened so far
    op,       \* task -> its operation
    gaveup    \* the tasks that wait no longer for what they have sent

config == <<timeouts, silent>>
vars   == <<config, now, hash, cell, opened, op, gaveup>>

Hashes == [d : Nat, s : Times, until : Times]

Operation ==
    [state  : {"Idle", "Connect", "Opening", "First", "Second", "Reply",
               "Done", "Failed"},
     kind   : {"read", "write", "remove"},
     value  : CacheValues \cup {None},  \* to be written, or read
     ttl    : Times]                    \* argument of EXPIRE, or answer of PTTL

TypeOK ==
    /\ timeouts \in Timeouts /\ silent \in BOOLEAN /\ gaveup \subseteq Tasks
    /\ now \in 0..MAX_TIME
    /\ hash \in Hashes \cup {None}
    /\ cell \in [Processes -> {"Empty", "Opening", "Open"}]
    /\ opened \in [Processes -> Nat]
    /\ op \in [Tasks -> Operation]

Init ==
    /\ timeouts \in Timeouts
    /\ silent \in BOOLEAN /\ (silent => "silence" \in Faults)
    /\ now = 0
    /\ hash = None
    /\ cell = [p \in Processes |-> "Empty"]
    /\ opened = [p \in Processes |-> 0]
    /\ op = [t \in Tasks |-> [state |-> "Idle", kind |-> "read", value |-> None,
                              ttl |-> None]]
    /\ gaveup = {}

-----------------------------------------------------------------------------
(* Redis drops a key when its time has passed, not when it has come. *)
Alive == hash # None /\ (hash.until = None \/ now <= hash.until)

Field(f) == IF Alive THEN hash[f] ELSE None

(* The pipelines of one connection reach Redis one after the other. *)
Undivided(t) ==
    \A u \in Tasks \ {t} : Home[u] = Home[t] => op[u].state # "Second"

(* A caller reads, deletes, or stores a value it has just made. *)
Start(t) ==
    /\ op[t].state = "Idle"
    /\ \/ \E kind \in {"read", "remove"} :
            op' = [op EXCEPT ![t].state = "Connect", ![t].kind = kind]
       \/ \E lifetime \in Lifetimes :
            op' = [op EXCEPT ![t].state = "Connect", ![t].kind = "write",
                             ![t].value = FreshValue(t, lifetime, now)]
    /\ UNCHANGED <<config, now, hash, cell, opened, gaveup>>

(* get_connection(): the first to find the cell empty opens a connection,   *)
(* the others wait for it to succeed or to give up.                         *)
Opens(t) ==
    /\ op[t].state = "Connect"
    /\ cell[Home[t]] = "Empty"
    /\ cell' = [cell EXCEPT ![Home[t]] = "Opening"]
    /\ op' = [op EXCEPT ![t].state = "Opening"]
    /\ UNCHANGED <<config, now, hash, opened, gaveup>>

OpenSucceeds(t) ==
    /\ op[t].state = "Opening"
    /\ cell' = [cell EXCEPT ![Home[t]] = "Open"]
    /\ opened' = [opened EXCEPT ![Home[t]] = @ + 1]
    /\ op' = [op EXCEPT ![t].state = "Connect"]
    /\ UNCHANGED <<config, now, hash, gaveup>>

OpenFailsForGood(t) ==        \* mutant: the cell is not given back
    /\ "unreachable" \in Faults
    /\ op[t].state = "Opening"
    /\ op' = [op EXCEPT ![t].state = "Failed"]
    /\ UNCHANGED <<config, now, hash, cell, opened, gaveup>>

OpenFails(t) ==
    /\ "unreachable" \in Faults
    /\ op[t].state = "Opening"
    /\ cell' = [cell EXCEPT ![Home[t]] = "Empty"]
    /\ op' = [op EXCEPT ![t].state = "Failed"]
    /\ UNCHANGED <<config, now, hash, opened, gaveup>>

(* connection_timeout(): an attempt that takes too long fails, too. *)
OpenTimesOut(t) ==
    /\ "connection" \in timeouts
    /\ op[t].state = "Opening"
    /\ cell' = [cell EXCEPT ![Home[t]] = "Empty"]
    /\ op' = [op EXCEPT ![t].state = "Failed"]
    /\ UNCHANGED <<config, now, hash, opened, gaveup>>

(* The pipeline is built and sent; ttl() is what the value has left now. *)
Send(t) ==
    /\ op[t].state = "Connect"
    /\ cell[Home[t]] = "Open"
    /\ op' = [op EXCEPT ![t].state = "First",
                        ![t].ttl = IF op[t].kind = "write"
                                   THEN Ttl(op[t].value, now) ELSE None]
    /\ UNCHANGED <<config, now, hash, cell, opened, gaveup>>

(* response_timeout(): the caller gets an error.  What was sent is sent, and*)
(* Redis may run it all the same.                                           *)
ResponseTimesOut(t) ==
    /\ "response" \in timeouts
    /\ op[t].state \in {"First", "Second", "Reply"} /\ t \notin gaveup
    /\ gaveup' = gaveup \cup {t}
    /\ UNCHANGED <<config, now, hash, cell, opened, op>>

(* HMGET d s *)
ReadFields(t) ==
    /\ op[t].state = "First" /\ op[t].kind = "read"
    /\ Undivided(t)
    /\ op' = [op EXCEPT ![t].state = "Second",
                        ![t].value = IF ~Alive THEN None
                                     ELSE [data |-> hash.d, stale |-> hash.s,
                                           expire |-> None]]
    /\ UNCHANGED <<config, now, hash, cell, opened, gaveup>>

ReadTimeToLiveRaw(t) ==       \* mutant: takes -1 and -2 for times to live
    /\ op[t].state = "Second" /\ op[t].kind = "read"
    /\ op' = [op EXCEPT ![t].state = "Reply",
                        ![t].ttl = IF Field("until") = None THEN 0 - 1
                                   ELSE hash.until - now]
    /\ UNCHANGED <<config, now, hash, cell, opened, gaveup>>

(* PTTL: no time left to live if the key has none, or is gone, or is in the *)
(* last of its milliseconds.                                                *)
ReadTimeToLive(t) ==
    /\ op[t].state = "Second" /\ op[t].kind = "read"
    /\ op' = [op EXCEPT ![t].state = "Reply",
                        ![t].ttl = IF Field("until") = None THEN None
                                   ELSE hash.until - now]
    /\ UNCHANGED <<config, now, hash, cell, opened, gaveup>>

(* The answer arrives: the value expires a PTTL from now if that is > 0. *)
ReadReturns(t) ==
    /\ op[t].state = "Reply"
    /\ op' = [op EXCEPT ![t].state = "Done",
                        ![t].value =
                            IF @ = None \/ op[t].ttl \in {None, 0} THEN @
                            ELSE [@ EXCEPT !.expire = now + op[t].ttl]]
    /\ UNCHANGED <<config, now, hash, cell, opened, gaveup>>

WriteTimeToLiveFirst(t) ==    \* mutant: EXPIRE comes before HSET
    /\ op[t].state = "First" /\ op[t].kind = "write"
    /\ Undivided(t)
    /\ hash' = [d |-> op[t].value.data, s |-> op[t].value.stale,
                until |-> IF Alive /\ op[t].ttl # None
                          THEN now + SECOND * op[t].ttl ELSE Field("until")]
    /\ op' = [op EXCEPT ![t].state = "Done"]
    /\ UNCHANGED <<config, now, cell, opened, gaveup>>

(* HSET d [s]: fields that are not given, and the time to live, stay. *)
WriteFields(t) ==
    /\ op[t].state = "First" /\ op[t].kind = "write"
    /\ Undivided(t)
    /\ hash' = [d |-> op[t].value.data,
                s |-> IF op[t].value.stale = None THEN Field("s")
                                                  ELSE op[t].value.stale,
                until |-> Field("until")]
    /\ op' = [op EXCEPT ![t].state = IF op[t].ttl = None THEN "Done" ELSE "Second"]
    /\ UNCHANGED <<config, now, cell, opened, gaveup>>

(* EXPIRE: has no effect on a key that is gone. *)
WriteTimeToLive(t) ==
    /\ op[t].state = "Second" /\ op[t].kind = "write"
    /\ hash' = IF Alive THEN [hash EXCEPT !.until = now + SECOND * op[t].ttl]
                       ELSE None
    /\ op' = [op EXCEPT ![t].state = "Done"]
    /\ UNCHANGED <<config, now, cell, opened, gaveup>>

(* DEL *)
Remove(t) ==
    /\ op[t].state = "First" /\ op[t].kind = "remove"
    /\ Undivided(t)
    /\ hash' = None
    /\ op' = [op EXCEPT ![t].state = "Done"]
    /\ UNCHANGED <<config, now, cell, opened, gaveup>>

-----------------------------------------------------------------------------
(* The caller drops the operation before its commands are sent (later, Redis*)
(* runs them all the same).  A task that was connecting gives the cell back.*)
Drop(t) ==
    /\ "cancel" \in Faults
    /\ op[t].state \in {"Connect", "Opening"}
    /\ op' = [op EXCEPT ![t].state = "Failed"]
    /\ cell' = [cell EXCEPT ![Home[t]] = IF op[t].state = "Opening" THEN "Empty"
                                                                    ELSE @]
    /\ UNCHANGED <<config, now, hash, opened, gaveup>>

(* The connection of a process breaks: Redis has run part of what was sent, *)
(* the operations fail.  The connection manager opens the next by itself.   *)
Disconnect(p) ==
    /\ "disconnect" \in Faults
    /\ \E t \in Tasks : Home[t] = p /\ op[t].state \in {"First", "Second", "Reply"}
    /\ op' = [t \in Tasks |->
                IF Home[t] = p /\ op[t].state \in {"First", "Second", "Reply"}
                THEN [op[t] EXCEPT !.state = "Failed"] ELSE op[t]]
    /\ UNCHANGED <<config, now, hash, cell, opened, gaveup>>

Tick ==
    /\ now < MAX_TIME
    /\ now' = now + 1
    /\ UNCHANGED <<config, hash, cell, opened, op, gaveup>>

(* What the program does, and what takes an answer of Redis. *)
Client(t) == Opens(t) \/ Send(t) \/ OpenTimesOut(t) \/ ResponseTimesOut(t)

Server(t) ==
    \/ OpenSucceeds(t)
    \/ OpenFails(t)
    \/ ReadFields(t)
    \/ ReadTimeToLive(t)
    \/ ReadReturns(t)
    \/ WriteFields(t)
    \/ WriteTimeToLive(t)
    \/ Remove(t)

AnswersInTime(t) == ~silent /\ Server(t)

Next ==
    \/ \E t \in Tasks : Start(t) \/ Client(t) \/ Server(t) \/ Drop(t)
    \/ \E p \in Processes : Disconnect(p)
    \/ Tick

(* Tasks are polled, and timers that are set go off.  Redis is only taken to*)
(* answer, connection attempts included, where it is not silent.            *)
Fairness == \A t \in Tasks : WF_vars(Client(t)) /\ WF_vars(AnswersInTime(t))

Spec == Init /\ [][Next]_vars /\ Fairness
-----------------------------------------------------------------------------
Sent(t)     == op[t].state \notin {"Idle", "Connect", "Opening"}
Writes      == {t \in Tasks : op[t].kind = "write" /\ Sent(t)}
AllHaveTtl  == \A t \in Writes : op[t].ttl # None
NoneUnderWay == \A t \in Writes : op[t].state # "Second"

(* Automatic TTL: when every value came with a time to live, and every write*)
(* that was begun has gone through, the key has one too, whatever the order *)
(* in which the commands of several processes reached Redis.                *)
EntriesExpire ==
    AllHaveTtl /\ NoneUnderWay /\ (\A t \in Writes : op[t].state # "Failed")
        => hash = None \/ hash.until # None

(* The connection of a process is opened once, however many operations ask  *)
(* for it at the same time.                                                 *)
OneConnection == \A p \in Processes : opened[p] <= 1

(* An operation that has been started has a connection or an error in the  *)
(* end, although the attempts of others to open one fail or are given up,   *)
(* and what was sent ends: if Redis answers, or if it does not and the      *)
(* timeout of that stage is set.  Without it an operation waits for good,   *)
(* and so do those that wait for it to open the connection.                 *)
Ended(t)       == op[t].state \in {"Done", "Failed"} \/ t \in gaveup
Waits(timeout) == silent /\ timeout \notin timeouts
Due(t)         == IF Sent(t) THEN ~Waits("response")
                             ELSE op[t].state = "Connect" /\ ~Waits("connection")
OperationsEnd  == \A t \in Tasks : Due(t) ~> Ended(t) \/ (Sent(t) /\ Waits("response"))
=============================================================================
