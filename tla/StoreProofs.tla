---------------------------- MODULE StoreProofs ----------------------------
(***************************************************************************)
(* What a program can count on from the backend that keeps its values,     *)
(* proved for any number of operations, keys and processes.  Each backend  *)
(* has an invariant of its own: RInv for Redis, FInv for FeOxDB, MInv for  *)
(* Moka; a program has the one of the backend it was built with (SInv).    *)
(*                                                                         *)
(* Redis.  A key can be without a time to live only by the doing of a      *)
(* write that has none, is between HSET and EXPIRE, or failed there.       *)
(*                                                                         *)
(* FeOxDB.  A write that was answered is in the store, or what is there    *)
(* began before the answer and took its place, or the time of one of them  *)
(* is over; the same of the file for what was flushed (Kept).  What can be *)
(* found is nothing that an answered operation has replaced (Latest).      *)
(* Every step is first shown to be one of a few Moves of the operations    *)
(* and the contents, and then the invariant to survive each of those.      *)
(*                                                                         *)
(* Moka.  The counted keys are counted once, and no entry is kept by Moka  *)
(* for less than its own time.  What is counted and not written again in   *)
(* the meantime fits (Fitting), and what can be found is counted or will   *)
(* be (Accounted): with nothing pending, all that is held fits.  Sums are  *)
(* reasoned about by induction over a set of sets (SetInduction).          *)
(***************************************************************************)
EXTENDS Stores, FiniteSets, Sequences, TLAPS, SequenceTheorems, FiniteSetTheorems

-----------------------------------------------------------------------------
(* The arithmetic of ttl(): the seconds that are left, rounded down. *)
LEMMA Division ==
    ASSUME NEW a \in Nat, NEW s \in Nat \ {0}
    PROVE  /\ a \div s \in Nat
           /\ s * (a \div s) <= a
           /\ a < s * (a \div s) + s
  OBVIOUS

LEMMA TtlFact ==
    ASSUME NEW value \in CacheValues, NEW t \in Nat
    PROVE  /\ Ttl(value, t) \in Times
           /\ Ttl(value, t) # None =>
                  /\ value.expire \in Nat
                  /\ Ttl(value, t) \in Nat
                  /\ value.expire < t + Ttl(value, t) * SECOND + SECOND
<1>1. value.expire \in Nat \cup {None} /\ SECOND \in Nat \ {0} /\ None \notin Nat
  BY CacheValueAssumption DEF CacheValues, Times
<1>2. CASE Ttl(value, t) = None
  BY <1>2 DEF Times
<1>3. CASE Ttl(value, t) # None
  <2> DEFINE left == value.expire - t
  <2>1. value.expire \in Nat /\ left \in Nat /\ Ttl(value, t) = left \div SECOND
    BY <1>1, <1>3 DEF Ttl
  <2> HIDE DEF left
  <2>2. left \div SECOND \in Nat /\ left < SECOND * (left \div SECOND) + SECOND
    BY <1>1, <2>1, Division
  <2> DEFINE kept == SECOND * (left \div SECOND)
  <2>3. kept \in Nat /\ left < kept + SECOND /\ kept = Ttl(value, t) * SECOND
    BY <1>1, <2>1, <2>2
  <2> HIDE DEF kept
  <2>4. value.expire < t + kept + SECOND
    BY <1>1, <2>1, <2>3 DEF left
  <2>5. QED
    BY <1>1, <2>1, <2>2, <2>3, <2>4 DEF Times
<1>4. QED
  BY <1>2, <1>3

(* The three modules mean the same by a value and its times. *)
LEMMA SameValues ==
    /\ Redis!Times = Times /\ Redis!CacheValues = CacheValues
    /\ FeOx!Times = Times /\ FeOx!CacheValues = CacheValues
    /\ \A value, t : Redis!Ttl(value, t) = Ttl(value, t) /\ FeOx!Ttl(value, t) = Ttl(value, t)
    /\ \A data, config, t :
          /\ Redis!FreshValue(data, config, t) = FreshValue(data, config, t)
          /\ FeOx!FreshValue(data, config, t) = FreshValue(data, config, t)
<1>1. /\ Redis!Times = Times /\ Redis!CacheValues = CacheValues
      /\ FeOx!Times = Times /\ FeOx!CacheValues = CacheValues
  BY DEF Redis!Times, Times, Redis!CacheValues, CacheValues, FeOx!Times, FeOx!CacheValues
<1>2. \A value, t : Redis!Ttl(value, t) = Ttl(value, t) /\ FeOx!Ttl(value, t) = Ttl(value, t)
  BY DEF Redis!Ttl, Ttl, FeOx!Ttl
<1>3. \A data, config, t :
          /\ Redis!FreshValue(data, config, t) = FreshValue(data, config, t)
          /\ FeOx!FreshValue(data, config, t) = FreshValue(data, config, t)
  BY DEF Redis!FreshValue, Redis!After, FeOx!FreshValue, FeOx!After, FreshValue, After
<1>4. QED
  BY <1>1, <1>2, <1>3

LEMMA FreshIsValue ==
    ASSUME NEW data \in Nat, NEW config \in [ttl : Times, stale_ttl : Times], NEW t \in Nat
    PROVE  FreshValue(data, config, t) \in CacheValues /\ FreshValue(data, config, t).data = data
<1>1. After(config.ttl, t) \in Times /\ After(config.stale_ttl, t) \in Times
  BY DEF After, Times
<1>2. QED
  BY <1>1 DEF FreshValue, CacheValues

-----------------------------------------------------------------------------
(* Redis.                                                                   *)

(* A key without a time to live has a write to blame: one of a value that   *)
(* has no ttl(), one between its commands, or one that failed.              *)
Blamed ==
    hash # None /\ hash.until = None =>
        \E t \in Redis!Writes : op[t].ttl = None \/ op[t].state \in {"Second", "Failed"}

(* A cell is opened by one task at a time, and for good. *)
CellsOpenOnce ==
    /\ \A p \in Redis!Processes : opened[p] = IF cell[p] = "Open" THEN 1 ELSE 0
    /\ \A t \in Tasks :
          op[t].state = "Opening" =>
              /\ cell[Home[t]] = "Opening"
              /\ \A u \in Tasks :
                    op[u].state = "Opening" /\ Home[u] = Home[t] => u = t

(* A write has its value, and a time to live if it comes to EXPIRE. *)
WritesHaveValues ==
    \A t \in Tasks : op[t].kind = "write" =>
        op[t].value # None /\ (op[t].state = "Second" => op[t].ttl # None)

(* Only a read waits for a reply. *)
RepliesAreReads == \A t \in Tasks : op[t].state = "Reply" => op[t].kind = "read"

RInv == Redis!TypeOK /\ WritesHaveValues /\ RepliesAreReads /\ Blamed /\ CellsOpenOnce

LEMMA RedisFacts ==
    /\ None \notin Nat /\ None \notin CacheValues /\ SECOND \in Nat \ {0}
    /\ Tasks \subseteq Nat \ {0}
    /\ Lifetimes \subseteq [ttl : Times, stale_ttl : Times]
    /\ MAX_TIME \in Nat
    /\ Redis!Times = Times /\ Redis!CacheValues = CacheValues
    /\ \A t \in Tasks : Home[t] \in Redis!Processes
  BY CacheValueAssumption, StoresAssumption, SameValues DEF Redis!ConstantsOK, Redis!Processes

(* What a step makes of the operation it is about. *)
LEMMA RedisValueSet ==
    ASSUME op \in [Tasks -> Redis!Operation], NEW t \in Tasks,
           NEW s \in {"Second", "Done"}, NEW v \in CacheValues \cup {None},
           op' = [op EXCEPT ![t].state = s, ![t].value = v]
    PROVE  op' \in [Tasks -> Redis!Operation]
<1>1. v \in Redis!CacheValues \cup {None}
  BY SameValues
<1>2. QED
  BY <1>1 DEF Redis!Operation

LEMMA RedisTtlSet ==
    ASSUME op \in [Tasks -> Redis!Operation], NEW t \in Tasks,
           NEW s \in {"First", "Reply"}, NEW time \in Times,
           op' = [op EXCEPT ![t].state = s, ![t].ttl = time]
    PROVE  op' \in [Tasks -> Redis!Operation]
<1>1. time \in Redis!Times
  BY SameValues
<1>2. QED
  BY <1>1 DEF Redis!Operation

LEMMA InitRInv == Redis!Init => RInv
<1> SUFFICES ASSUME Redis!Init PROVE RInv
  OBVIOUS
<1>1. timeouts \in Timeouts /\ silent \in BOOLEAN /\ gaveup = {}
  BY DEF Redis!Init
<1>2. Redis!TypeOK
  BY <1>1, RedisFacts DEF Redis!Init, Redis!TypeOK, Redis!Operation, Times
<1>3. QED
  BY <1>2 DEF Redis!Init, RInv, WritesHaveValues, RepliesAreReads, Blamed, CellsOpenOnce

(* The configuration stays, and only callers give up. *)
LEMMA RedisConfigStays ==
    ASSUME RInv, Redis!Next
    PROVE  timeouts' \in Timeouts /\ silent' \in BOOLEAN /\ gaveup' \subseteq Tasks
<1>1. timeouts \in Timeouts /\ silent \in BOOLEAN /\ gaveup \subseteq Tasks
  BY DEF RInv, Redis!TypeOK
<1>2. timeouts' = timeouts /\ silent' = silent 
      /\ (gaveup' = gaveup \/ \E t \in Tasks : gaveup' = gaveup \cup {t})
  BY DEF Redis!Next, Redis!Client, Redis!Server, Redis!config, Redis!Start, Redis!Drop, Redis!Tick,
         Redis!Disconnect, Redis!Opens, Redis!Send, Redis!OpenTimesOut, Redis!ResponseTimesOut,
         Redis!OpenSucceeds, Redis!OpenFails, Redis!ReadFields, Redis!ReadTimeToLive,
         Redis!ReadReturns, Redis!WriteFields, Redis!WriteTimeToLive, Redis!Remove
<1>3. QED
  BY <1>1, <1>2

LEMMA RedisTypes ==
    ASSUME RInv, Redis!Next
    PROVE  Redis!TypeOK' /\ WritesHaveValues'
<1> USE RedisFacts
<1>0. /\ now \in Nat /\ now \in 0..MAX_TIME /\ hash \in Redis!Hashes \cup {None}
      /\ op \in [Tasks -> Redis!Operation]
      /\ cell \in [Redis!Processes -> {"Empty", "Opening", "Open"}]
      /\ opened \in [Redis!Processes -> Nat]
  BY DEF RInv, Redis!TypeOK
<1>a. timeouts' \in Timeouts /\ silent' \in BOOLEAN /\ gaveup' \subseteq Tasks
  BY RedisConfigStays
<1>1. ASSUME NEW t \in Tasks, Redis!Start(t) PROVE Redis!TypeOK' /\ WritesHaveValues'
  <2>1. PICK kind_, value_ :
           /\ op' = [op EXCEPT ![t].state = "Connect", ![t].kind = kind_, ![t].value = value_]
           /\ kind_ \in {"read", "write", "remove"}
           /\ value_ \in CacheValues \cup {None}
           /\ kind_ = "write" => value_ # None
    <3>1. CASE \E k \in {"read", "remove"} :
                  op' = [op EXCEPT ![t].state = "Connect", ![t].kind = k]
      <4>1. PICK k \in {"read", "remove"} :
                  op' = [op EXCEPT ![t].state = "Connect", ![t].kind = k]
        BY <3>1
      <4>2. op' = [op EXCEPT ![t].state = "Connect", ![t].kind = k, ![t].value = op[t].value]
        BY <4>1, <1>0 DEF Redis!Operation
      <4>3. op[t].value \in CacheValues \cup {None}
        BY <1>0 DEF Redis!Operation
      <4>4. QED
        BY <4>2, <4>3
    <3>2. CASE \E lifetime \in Lifetimes :
                  op' = [op EXCEPT ![t].state = "Connect", ![t].kind = "write",
                                   ![t].value = Redis!FreshValue(t, lifetime, now)]
      <4>1. PICK lifetime \in Lifetimes :
                  op' = [op EXCEPT ![t].state = "Connect", ![t].kind = "write",
                                   ![t].value = FreshValue(t, lifetime, now)]
        BY <3>2, SameValues
      <4>2. FreshValue(t, lifetime, now) \in CacheValues
        BY <1>0, FreshIsValue
      <4> DEFINE v == FreshValue(t, lifetime, now)
      <4>3. /\ op' = [op EXCEPT ![t].state = "Connect", ![t].kind = "write", ![t].value = v]
            /\ v \in CacheValues \cup {None} /\ v # None
        BY <4>1, <4>2
      <4> HIDE DEF v
      <4>4. QED
        BY <4>3
    <3>3. QED
      BY <1>1, <3>1, <3>2 DEF Redis!Start
  <2> DEFINE new == [[[op[t] EXCEPT !.state = "Connect"] EXCEPT !.kind = kind_]
                             EXCEPT !.value = value_]
  <2>2. /\ op' = [op EXCEPT ![t] = new]
        /\ new \in Redis!Operation /\ new.kind = kind_ /\ new.value = value_ /\ new.state = "Connect"
    BY <2>1, <1>0 DEF Redis!Operation
  <2> HIDE DEF new
  <2>3. op' \in [Tasks -> Redis!Operation]
    BY <2>2, <1>0
  <2>4. WritesHaveValues'
    BY <2>1, <2>2, <1>0 DEF RInv, WritesHaveValues
  <2>5. UNCHANGED <<now, hash, cell, opened>>
    BY <1>1 DEF Redis!Start
  <2>6. QED
    BY <2>3, <2>4, <2>5, <1>0, <1>a DEF Redis!TypeOK
<1>2. ASSUME NEW t \in Tasks,
             \/ Redis!Opens(t) \/ Redis!OpenSucceeds(t) \/ Redis!OpenFails(t)
             \/ Redis!OpenTimesOut(t) \/ Redis!Drop(t)
      PROVE Redis!TypeOK' /\ WritesHaveValues'
  <2>1. PICK s \in {"Connect", "Opening", "Failed"} : op' = [op EXCEPT ![t].state = s]
    BY <1>2 DEF Redis!Opens, Redis!OpenSucceeds, Redis!OpenFails, Redis!OpenTimesOut, Redis!Drop
  <2>2. op' \in [Tasks -> Redis!Operation] /\ WritesHaveValues'
    <3>1. op' \in [Tasks -> Redis!Operation]
      BY <2>1, <1>0 DEF Redis!Operation
    <3>2. WritesHaveValues'
      BY <2>1, <1>0 DEF RInv, WritesHaveValues, Redis!Operation
    <3>3. QED
      BY <3>1, <3>2
  <2>3. /\ cell' \in [Redis!Processes -> {"Empty", "Opening", "Open"}]
        /\ opened' \in [Redis!Processes -> Nat]
    BY <1>0, <1>2 DEF Redis!Opens, Redis!OpenSucceeds, Redis!OpenFails, Redis!OpenTimesOut, Redis!Drop
  <2>4. now' = now /\ hash' = hash
    BY <1>2 DEF Redis!Opens, Redis!OpenSucceeds, Redis!OpenFails, Redis!OpenTimesOut, Redis!Drop
  <2>5. QED
    BY <2>2, <2>3, <2>4, <1>0, <1>a DEF Redis!TypeOK
<1>3. ASSUME NEW t \in Tasks, Redis!Send(t) PROVE Redis!TypeOK' /\ WritesHaveValues'
  <2>1. PICK ttl_ \in Times : op' = [op EXCEPT ![t].state = "First", ![t].ttl = ttl_]
    <3>1. (IF op[t].kind = "write" THEN Redis!Ttl(op[t].value, now) ELSE None) \in Times
      <4>1. op[t].kind = "write" => op[t].value \in CacheValues
        BY <1>0 DEF RInv, WritesHaveValues, Redis!Operation
      <4>2. QED
        BY <4>1, <1>0, TtlFact, SameValues DEF Times
    <3>2. QED
      BY <1>3, <3>1 DEF Redis!Send
  <2>2. op' \in [Tasks -> Redis!Operation] /\ WritesHaveValues'
    <3>1. op' \in [Tasks -> Redis!Operation]
      BY <2>1, <1>0, RedisTtlSet
    <3>2. WritesHaveValues'
      BY <2>1, <1>0 DEF RInv, WritesHaveValues, Redis!Operation
    <3>3. QED
      BY <3>1, <3>2
  <2>3. UNCHANGED <<now, hash, cell, opened>>
    BY <1>3 DEF Redis!Send
  <2>4. QED
    BY <2>2, <2>3, <1>0, <1>a DEF Redis!TypeOK
<1>4. ASSUME NEW t \in Tasks, Redis!ReadFields(t) PROVE Redis!TypeOK' /\ WritesHaveValues'
  <2>1. PICK value_ \in CacheValues \cup {None} :
            op' = [op EXCEPT ![t].state = "Second", ![t].value = value_]
    <3>1. (IF ~Redis!Alive THEN None
           ELSE [data |-> hash.d, stale |-> hash.s, expire |-> None]) \in CacheValues \cup {None}
      BY <1>0 DEF Redis!Alive, Redis!Hashes, CacheValues, Times
    <3>2. QED
      BY <1>4, <3>1 DEF Redis!ReadFields
  <2>2. op' \in [Tasks -> Redis!Operation]
    BY <2>1, <1>0, RedisValueSet
  <2>3. WritesHaveValues'
    BY <2>1, <1>0, <1>4 DEF RInv, WritesHaveValues, Redis!Operation, Redis!ReadFields
  <2>4. UNCHANGED <<now, hash, cell, opened>>
    BY <1>4 DEF Redis!ReadFields
  <2>5. QED
    BY <2>2, <2>3, <2>4, <1>0, <1>a DEF Redis!TypeOK
<1>5. ASSUME NEW t \in Tasks, Redis!ReadTimeToLive(t) PROVE Redis!TypeOK' /\ WritesHaveValues'
  <2>1. PICK ttl_ \in Times : op' = [op EXCEPT ![t].state = "Reply", ![t].ttl = ttl_]
    <3>1. (IF Redis!Field("until") = None THEN None ELSE hash.until - now) \in Times
      BY <1>0 DEF Redis!Field, Redis!Alive, Redis!Hashes, Times
    <3>2. QED
      BY <1>5, <3>1 DEF Redis!ReadTimeToLive
  <2>2. op' \in [Tasks -> Redis!Operation] /\ WritesHaveValues'
    <3>1. op' \in [Tasks -> Redis!Operation]
      BY <2>1, <1>0, RedisTtlSet
    <3>2. WritesHaveValues'
      BY <2>1, <1>0 DEF RInv, WritesHaveValues, Redis!Operation
    <3>3. QED
      BY <3>1, <3>2
  <2>3. UNCHANGED <<now, hash, cell, opened>>
    BY <1>5 DEF Redis!ReadTimeToLive
  <2>4. QED
    BY <2>2, <2>3, <1>0, <1>a DEF Redis!TypeOK
<1>6. ASSUME NEW t \in Tasks, Redis!ReadReturns(t) PROVE Redis!TypeOK' /\ WritesHaveValues'
  <2>1. op[t].value \in CacheValues \cup {None} /\ op[t].ttl \in Nat \cup {None}
    BY <1>0 DEF Redis!Operation, Times
  <2> DEFINE v == IF op[t].value = None \/ op[t].ttl \in {None, 0} THEN op[t].value
                  ELSE [op[t].value EXCEPT !.expire = now + op[t].ttl]
  <2>2. v \in CacheValues \cup {None} /\ (op[t].value # None => v # None)
    BY <2>1, <1>0 DEF CacheValues, Times
  <2>3. op' = [op EXCEPT ![t].state = "Done", ![t].value = v]
    BY <1>6, <1>0 DEF Redis!ReadReturns, Redis!Operation
  <2> HIDE DEF v
  <2>4. op' \in [Tasks -> Redis!Operation] /\ WritesHaveValues'
    <3>1. op' \in [Tasks -> Redis!Operation]
      BY <2>2, <2>3, <1>0, RedisValueSet
    <3>2. WritesHaveValues'
      BY <2>2, <2>3, <1>0 DEF RInv, WritesHaveValues, Redis!Operation
    <3>3. QED
      BY <3>1, <3>2
  <2>5. UNCHANGED <<now, hash, cell, opened>>
    BY <1>6 DEF Redis!ReadReturns
  <2>6. QED
    BY <2>4, <2>5, <1>0, <1>a DEF Redis!TypeOK
<1>7. ASSUME NEW t \in Tasks, Redis!WriteFields(t) PROVE Redis!TypeOK' /\ WritesHaveValues'
  <2>1. op[t].value \in CacheValues
    BY <1>0, <1>7 DEF RInv, WritesHaveValues, Redis!Operation, Redis!WriteFields
  <2>2. Redis!Field("s") \in Times /\ Redis!Field("until") \in Times
    BY <1>0 DEF Redis!Field, Redis!Alive, Redis!Hashes, Times
  <2>3. hash' \in Redis!Hashes
    BY <1>7, <2>1, <2>2 DEF Redis!WriteFields, Redis!Hashes, CacheValues
  <2>4. PICK s \in {"Done", "Second"} :
            op' = [op EXCEPT ![t].state = s] /\ (s = "Second" => op[t].ttl # None)
    BY <1>7 DEF Redis!WriteFields
  <2>5. op' \in [Tasks -> Redis!Operation] /\ WritesHaveValues'
    BY <2>4, <1>0 DEF RInv, WritesHaveValues, Redis!Operation
  <2>6. UNCHANGED <<now, cell, opened>>
    BY <1>7 DEF Redis!WriteFields
  <2>7. QED
    BY <2>3, <2>5, <2>6, <1>0, <1>a DEF Redis!TypeOK
<1>8. ASSUME NEW t \in Tasks, Redis!WriteTimeToLive(t) \/ Redis!Remove(t)
      PROVE  Redis!TypeOK' /\ WritesHaveValues'
  <2>1. op' = [op EXCEPT ![t].state = "Done"]
    BY <1>8 DEF Redis!WriteTimeToLive, Redis!Remove
  <2>2. op' \in [Tasks -> Redis!Operation] /\ WritesHaveValues'
    <3>1. op' \in [Tasks -> Redis!Operation]
      BY <2>1, <1>0 DEF Redis!Operation
    <3>2. WritesHaveValues'
      BY <2>1, <1>0 DEF RInv, WritesHaveValues, Redis!Operation
    <3>3. QED
      BY <3>1, <3>2
  <2>3. hash' \in Redis!Hashes \cup {None}
    <3>1. op[t].ttl \in Times
      BY <1>0 DEF Redis!Operation
    <3>2. CASE Redis!Remove(t)
      BY <3>2 DEF Redis!Remove
    <3>3. CASE Redis!WriteTimeToLive(t)
      <4>1. op[t].ttl \in Nat
        BY <3>1, <3>3 DEF RInv, WritesHaveValues, Redis!WriteTimeToLive, Times
      <4>2. SECOND * op[t].ttl \in Nat
        BY <4>1
      <4>3. now + SECOND * op[t].ttl \in Times
        BY <4>2, <1>0 DEF Times
      <4>4. QED
        BY <3>3, <4>3, <1>0 DEF Redis!WriteTimeToLive, Redis!Hashes, Redis!Alive
    <3>4. QED
      BY <1>8, <3>2, <3>3
  <2>4. UNCHANGED <<now, cell, opened>>
    BY <1>8 DEF Redis!WriteTimeToLive, Redis!Remove
  <2>5. QED
    BY <2>2, <2>3, <2>4, <1>0, <1>a DEF Redis!TypeOK
<1>9. ASSUME NEW p \in Redis!Processes, Redis!Disconnect(p) PROVE Redis!TypeOK' /\ WritesHaveValues'
  <2>1. op' \in [Tasks -> Redis!Operation]
    BY <1>9, <1>0 DEF Redis!Disconnect, Redis!Operation
  <2>2. WritesHaveValues'
    BY <1>9, <1>0 DEF RInv, WritesHaveValues, Redis!Disconnect, Redis!Operation
  <2>3. QED
    BY <1>9, <2>1, <2>2, <1>0, <1>a DEF Redis!TypeOK, Redis!Disconnect
<1>10. CASE Redis!Tick
  BY <1>10, <1>0, <1>a DEF RInv, Redis!TypeOK, Redis!Tick, WritesHaveValues
<1>11. ASSUME NEW t \in Tasks, Redis!ResponseTimesOut(t) PROVE Redis!TypeOK' /\ WritesHaveValues'
  BY <1>11, <1>0, <1>a DEF RInv, Redis!TypeOK, Redis!ResponseTimesOut, WritesHaveValues
<1>12. QED
  BY <1>1, <1>2, <1>3, <1>4, <1>5, <1>6, <1>7, <1>8, <1>9, <1>10, <1>11
     DEF Redis!Next, Redis!Client, Redis!Server

LEMMA RepliesStay ==
    ASSUME RInv, Redis!Next
    PROVE  RepliesAreReads'
<1>0. op \in [Tasks -> Redis!Operation] /\ RepliesAreReads
  BY DEF RInv, Redis!TypeOK
<1>1. ASSUME NEW t \in Tasks, Redis!Start(t) \/ Redis!Client(t) \/ Redis!Server(t) \/ Redis!Drop(t)
      PROVE  /\ \A u \in Tasks \ {t} : op'[u] = op[u]
             /\ op'[t].state = "Reply" => op'[t].kind = "read"
  <2>1. CASE Redis!Start(t)
    BY <2>1, <1>0 DEF Redis!Start, Redis!Operation
  <2>2. CASE \/ Redis!Opens(t) \/ Redis!OpenSucceeds(t) \/ Redis!OpenFails(t)
             \/ Redis!OpenTimesOut(t) \/ Redis!Drop(t)
    BY <2>2, <1>0 DEF Redis!Opens, Redis!OpenSucceeds, Redis!OpenFails, Redis!OpenTimesOut, Redis!Drop, Redis!Operation
  <2>3. CASE Redis!Send(t)
    BY <2>3, <1>0 DEF Redis!Send, Redis!Operation
  <2>4. CASE Redis!ReadFields(t)
    BY <2>4, <1>0 DEF Redis!ReadFields, Redis!Operation
  <2>5. CASE Redis!ReadTimeToLive(t)
    BY <2>5, <1>0 DEF Redis!ReadTimeToLive, Redis!Operation
  <2>6. CASE Redis!ReadReturns(t)
    BY <2>6, <1>0 DEF Redis!ReadReturns, Redis!Operation
  <2>7. CASE Redis!WriteFields(t) \/ Redis!WriteTimeToLive(t) \/ Redis!Remove(t)
    BY <2>7, <1>0 DEF Redis!WriteFields, Redis!WriteTimeToLive, Redis!Remove, Redis!Operation
  <2>8. CASE Redis!ResponseTimesOut(t)
    BY <2>8, <1>0 DEF Redis!ResponseTimesOut, RepliesAreReads
  <2>9. QED
    BY <1>1, <2>1, <2>2, <2>3, <2>4, <2>5, <2>6, <2>7, <2>8 DEF Redis!Client, Redis!Server
<1>2. ASSUME NEW p \in Redis!Processes, Redis!Disconnect(p) PROVE RepliesAreReads'
  BY <1>2, <1>0 DEF Redis!Disconnect, Redis!Operation, RepliesAreReads
<1>3. CASE Redis!Tick
  BY <1>3, <1>0 DEF Redis!Tick, RepliesAreReads
<1>4. ASSUME NEW t \in Tasks, Redis!Start(t) \/ Redis!Client(t) \/ Redis!Server(t) \/ Redis!Drop(t)
      PROVE  RepliesAreReads'
  BY <1>0, <1>1, <1>4 DEF RepliesAreReads
<1>5. QED
  BY <1>2, <1>3, <1>4 DEF Redis!Next

(* The steps that send something to Redis change one operation. *)
LEMMA BlamedStays ==
    ASSUME RInv, Redis!Next
    PROVE  Blamed'
<1> USE RedisFacts
<1>0. /\ now \in Nat /\ hash \in Redis!Hashes \cup {None}
      /\ op \in [Tasks -> Redis!Operation] /\ Blamed /\ WritesHaveValues
  BY DEF RInv, Redis!TypeOK
<1> DEFINE blame(t) == /\ op[t].kind = "write" /\ Redis!Sent(t)
                       /\ op[t].ttl = None \/ op[t].state \in {"Second", "Failed"}
<1>a. Blamed <=> (hash # None /\ hash.until = None => \E t \in Tasks : blame(t))
  BY DEF Blamed, Redis!Writes
<1>b. Blamed' <=> (hash' # None /\ hash'.until = None => \E t \in Tasks : blame(t)')
  BY DEF Blamed, Redis!Writes
(* It is enough that the key is as it was and that blame stays where it is. *)
<1>c. ASSUME hash' = hash, \A t \in Tasks : blame(t) => blame(t)' PROVE Blamed'
  <2> HIDE DEF blame
  <2> QED
    BY <1>0, <1>a, <1>b, <1>c
<1>1. ASSUME NEW t \in Tasks, Redis!Start(t) PROVE Blamed'
  <2>1. op[t].state = "Idle" /\ hash' = hash /\ \A u \in Tasks \ {t} : op'[u] = op[u]
    BY <1>1, <1>0 DEF Redis!Start
  <2>2. \A u \in Tasks : blame(u) => blame(u)'
    BY <2>1 DEF Redis!Sent
  <2>3. QED
    BY <2>1, <2>2, <1>c
<1>2. ASSUME NEW t \in Tasks,
             \/ Redis!Opens(t) \/ Redis!OpenSucceeds(t) \/ Redis!OpenFails(t)
             \/ Redis!OpenTimesOut(t) \/ Redis!Drop(t)
      PROVE  Blamed'
  <2>1. ~Redis!Sent(t) /\ hash' = hash /\ \A u \in Tasks \ {t} : op'[u] = op[u]
    BY <1>2, <1>0
       DEF Redis!Opens, Redis!OpenSucceeds, Redis!OpenFails, Redis!OpenTimesOut, Redis!Drop, Redis!Sent
  <2>2. \A u \in Tasks : blame(u) => blame(u)'
    BY <2>1 DEF Redis!Sent
  <2>3. QED
    BY <2>1, <2>2, <1>c
<1>3. ASSUME NEW t \in Tasks, Redis!Send(t) PROVE Blamed'
  <2>1. ~Redis!Sent(t) /\ hash' = hash /\ \A u \in Tasks \ {t} : op'[u] = op[u]
    BY <1>3, <1>0 DEF Redis!Send, Redis!Sent
  <2>2. \A u \in Tasks : blame(u) => blame(u)'
    BY <2>1 DEF Redis!Sent
  <2>3. QED
    BY <2>1, <2>2, <1>c
<1>4. ASSUME NEW t \in Tasks,
             Redis!ReadFields(t) \/ Redis!ReadTimeToLive(t) \/ Redis!ReadReturns(t),
             op[t].kind = "read"
      PROVE  Blamed'
  <2>1. hash' = hash /\ \A u \in Tasks \ {t} : op'[u] = op[u]
    BY <1>4, <1>0 DEF Redis!ReadFields, Redis!ReadTimeToLive, Redis!ReadReturns
  <2>2. \A u \in Tasks : blame(u) => blame(u)'
    BY <2>1, <1>4 DEF Redis!Sent
  <2>3. QED
    BY <2>1, <2>2, <1>c
<1>5. ASSUME NEW t \in Tasks, Redis!WriteFields(t) PROVE Blamed'
  <2>1. /\ op'[t].kind = "write" /\ op'[t].ttl = op[t].ttl
        /\ op'[t].state = IF op[t].ttl = None THEN "Done" ELSE "Second"
    BY <1>5, <1>0 DEF Redis!WriteFields, Redis!Operation
  <2>2. blame(t)'
    BY <2>1 DEF Redis!Sent
  <2>3. QED
    BY <2>2, <1>b
<1>6. ASSUME NEW t \in Tasks, Redis!WriteTimeToLive(t) PROVE Blamed'
  <2>1. op[t].ttl \in Nat
    BY <1>6, <1>0 DEF WritesHaveValues, Redis!WriteTimeToLive, Redis!Operation, Times
  <2>2. SECOND * op[t].ttl \in Nat
    BY <2>1
  <2>3. now + SECOND * op[t].ttl \in Nat
    BY <2>2, <1>0
  <2>4. hash' # None => hash'.until = now + SECOND * op[t].ttl
    BY <1>6, <1>0 DEF Redis!WriteTimeToLive, Redis!Alive, Redis!Hashes
  <2>5. QED
    BY <2>3, <2>4, <1>b
<1>7. ASSUME NEW t \in Tasks, Redis!Remove(t) PROVE Blamed'
  BY <1>7 DEF Redis!Remove, Blamed
<1>8. ASSUME NEW p \in Redis!Processes, Redis!Disconnect(p) PROVE Blamed'
  <2>1. \A u \in Tasks : blame(u) => blame(u)'
    <3>1. ASSUME NEW u \in Tasks, blame(u) PROVE blame(u)'
      <4>1. /\ op'[u].kind = op[u].kind /\ op'[u].ttl = op[u].ttl
            /\ op'[u].state \in {op[u].state, "Failed"}
        BY <1>8, <1>0 DEF Redis!Disconnect, Redis!Operation
      <4>2. QED
        BY <3>1, <4>1 DEF Redis!Sent
    <3>2. QED
      BY <3>1
  <2>2. hash' = hash
    BY <1>8 DEF Redis!Disconnect
  <2>3. QED
    BY <2>1, <2>2, <1>c
<1>9. CASE Redis!Tick \/ \E t \in Tasks : Redis!ResponseTimesOut(t)
  <2>1. hash' = hash /\ op' = op
    BY <1>9 DEF Redis!Tick, Redis!ResponseTimesOut
  <2>2. QED
    BY <2>1, <1>c DEF Redis!Sent
<1>10. ASSUME NEW t \in Tasks, Redis!ReadReturns(t) PROVE op[t].kind = "read"
  BY <1>10 DEF RInv, RepliesAreReads, Redis!ReadReturns
<1>11. QED
  BY <1>1, <1>2, <1>3, <1>4, <1>5, <1>6, <1>7, <1>8, <1>9, <1>10
     DEF Redis!Next, Redis!Client, Redis!Server, Redis!ReadFields, Redis!ReadTimeToLive

LEMMA CellsStay ==
    ASSUME RInv, Redis!Next
    PROVE  CellsOpenOnce'
<1> USE RedisFacts
<1>0. /\ op \in [Tasks -> Redis!Operation] /\ CellsOpenOnce
      /\ cell \in [Redis!Processes -> {"Empty", "Opening", "Open"}]
      /\ opened \in [Redis!Processes -> Nat]
  BY DEF RInv, Redis!TypeOK
<1> DEFINE opening(t) == op[t].state = "Opening"
(* No operation begins to open a connection, and no cell changes. *)
<1>a. ASSUME UNCHANGED <<cell, opened>>, \A t \in Tasks : opening(t)' => opening(t)
      PROVE  CellsOpenOnce'
  BY <1>0, <1>a DEF CellsOpenOnce
<1>1. ASSUME NEW t \in Tasks, Redis!Opens(t) PROVE CellsOpenOnce'
  <2>1. /\ op[t].state = "Connect" /\ cell[Home[t]] = "Empty" /\ opened' = opened
        /\ cell' = [cell EXCEPT ![Home[t]] = "Opening"]
        /\ \A u \in Tasks : opening(u)' => u = t \/ opening(u)
    BY <1>1, <1>0 DEF Redis!Opens
  <2>2. \A u \in Tasks : opening(u) => Home[u] # Home[t]
    BY <2>1, <1>0 DEF CellsOpenOnce
  <2> HIDE DEF opening
  <2>3. \A p \in Redis!Processes : opened'[p] = IF cell'[p] = "Open" THEN 1 ELSE 0
    BY <2>1, <1>0 DEF CellsOpenOnce
  <2>4. \A u \in Tasks :
            opening(u)' => /\ cell'[Home[u]] = "Opening"
                           /\ \A v \in Tasks : opening(v)' /\ Home[v] = Home[u] => v = u
    BY <2>1, <2>2, <1>0 DEF CellsOpenOnce, opening
  <2>5. QED
    BY <2>3, <2>4 DEF CellsOpenOnce, opening
<1>2. ASSUME NEW t \in Tasks, Redis!OpenSucceeds(t) PROVE CellsOpenOnce'
  <2>1. /\ opening(t)
        /\ cell' = [cell EXCEPT ![Home[t]] = "Open"]
        /\ opened' = [opened EXCEPT ![Home[t]] = opened[Home[t]] + 1]
        /\ \A u \in Tasks : opening(u)' => u # t /\ opening(u)
    BY <1>2, <1>0 DEF Redis!OpenSucceeds, Redis!Operation
  <2>2. \A u \in Tasks : u # t /\ opening(u) => Home[u] # Home[t]
    BY <2>1, <1>0 DEF CellsOpenOnce
  <2>3. opened[Home[t]] = 0
    BY <2>1, <1>0 DEF CellsOpenOnce
  <2>4. \A p \in Redis!Processes : opened'[p] = IF cell'[p] = "Open" THEN 1 ELSE 0
    BY <2>1, <2>3, <1>0 DEF CellsOpenOnce
  <2>5. QED
    BY <2>1, <2>2, <2>4, <1>0 DEF CellsOpenOnce
<1>3. ASSUME NEW t \in Tasks,
             \/ Redis!OpenFails(t) \/ Redis!OpenTimesOut(t)
             \/ (Redis!Drop(t) /\ opening(t))
      PROVE  CellsOpenOnce'
  <2>1. /\ opening(t) /\ opened' = opened
        /\ cell' = [cell EXCEPT ![Home[t]] = "Empty"]
        /\ \A u \in Tasks : opening(u)' => u # t /\ opening(u)
    BY <1>3, <1>0 DEF Redis!OpenFails, Redis!OpenTimesOut, Redis!Drop, Redis!Operation
  <2>2. \A u \in Tasks : u # t /\ opening(u) => Home[u] # Home[t]
    BY <2>1, <1>0 DEF CellsOpenOnce
  <2>3. \A p \in Redis!Processes : opened'[p] = IF cell'[p] = "Open" THEN 1 ELSE 0
    BY <2>1, <1>0 DEF CellsOpenOnce
  <2>4. QED
    BY <2>1, <2>2, <2>3, <1>0 DEF CellsOpenOnce
<1>4. ASSUME NEW t \in Tasks, Redis!Drop(t), ~opening(t) PROVE CellsOpenOnce'
  <2>1. UNCHANGED <<cell, opened>> /\ \A u \in Tasks : opening(u)' => opening(u)
    BY <1>4, <1>0 DEF Redis!Drop, Redis!Operation
  <2>2. QED
    BY <2>1, <1>a
<1>5. ASSUME NEW t \in Tasks,
             \/ Redis!Start(t) \/ Redis!Send(t) \/ Redis!ReadFields(t)
             \/ Redis!ReadTimeToLive(t) \/ Redis!ReadReturns(t) \/ Redis!WriteFields(t)
             \/ Redis!WriteTimeToLive(t) \/ Redis!Remove(t)
      PROVE  CellsOpenOnce'
  <2>1. UNCHANGED <<cell, opened>>
    BY <1>5 DEF Redis!Start, Redis!Send, Redis!ReadFields, Redis!ReadTimeToLive,
                Redis!ReadReturns, Redis!WriteFields, Redis!WriteTimeToLive, Redis!Remove
  <2>2. op'[t].state # "Opening" /\ \A u \in Tasks \ {t} : op'[u] = op[u]
    <3>1. CASE Redis!Start(t)
      BY <3>1, <1>0 DEF Redis!Start, Redis!Operation
    <3>2. CASE Redis!Send(t)
      BY <3>2, <1>0 DEF Redis!Send, Redis!Operation
    <3>3. CASE Redis!ReadFields(t)
      BY <3>3, <1>0 DEF Redis!ReadFields, Redis!Operation
    <3>4. CASE Redis!ReadTimeToLive(t) \/ Redis!WriteTimeToLive(t) \/ Redis!Remove(t)
      BY <3>4, <1>0 DEF Redis!ReadTimeToLive, Redis!WriteTimeToLive, Redis!Remove, Redis!Operation
    <3>5. CASE Redis!ReadReturns(t)
      BY <3>5, <1>0 DEF Redis!ReadReturns, Redis!Operation
    <3>6. CASE Redis!WriteFields(t)
      BY <3>6, <1>0 DEF Redis!WriteFields, Redis!Operation
    <3>7. QED
      BY <1>5, <3>1, <3>2, <3>3, <3>4, <3>5, <3>6
  <2>3. QED
    BY <2>1, <2>2, <1>a
<1>6. ASSUME NEW p \in Redis!Processes, Redis!Disconnect(p) PROVE CellsOpenOnce'
  <2>1. UNCHANGED <<cell, opened>> /\ \A u \in Tasks : opening(u)' => opening(u)
    BY <1>6, <1>0 DEF Redis!Disconnect, Redis!Operation
  <2>2. QED
    BY <2>1, <1>a
<1>7. CASE Redis!Tick \/ \E t \in Tasks : Redis!ResponseTimesOut(t)
  BY <1>7, <1>a DEF Redis!Tick, Redis!ResponseTimesOut
<1>8. QED
  BY <1>1, <1>2, <1>3, <1>4, <1>5, <1>6, <1>7 DEF Redis!Next, Redis!Client, Redis!Server

LEMMA NextRInv ==
    ASSUME RInv, [Redis!Next]_(Redis!vars)
    PROVE  RInv'
<1>1. CASE Redis!Next
  BY <1>1, RedisTypes, RepliesStay, BlamedStays, CellsStay DEF RInv
<1>2. CASE UNCHANGED Redis!vars
  BY <1>2 DEF RInv, Redis!vars, Redis!config, Redis!TypeOK, WritesHaveValues, RepliesAreReads, Blamed, CellsOpenOnce,
              Redis!Writes, Redis!Sent
<1>3. QED
  BY <1>1, <1>2

LEMMA RInvImplies ==
    ASSUME RInv
    PROVE  Redis!EntriesExpire /\ Redis!OneConnection
<1>1. Redis!EntriesExpire
  BY DEF RInv, Blamed, Redis!EntriesExpire, Redis!AllHaveTtl, Redis!NoneUnderWay
<1>2. Redis!OneConnection
  BY DEF RInv, CellsOpenOnce, Redis!TypeOK, Redis!OneConnection
<1>3. QED
  BY <1>1, <1>2

-----------------------------------------------------------------------------
(* FeOxDB.                                                                  *)

(* What a store or a file has of a key was written for it, and is not       *)
(* dropped a second or more before its time.                                *)
Lasts(value, until) ==
    until # None => value.expire # None /\ value.expire < until + SECOND

Made(content) ==
    \A k \in Keys : content[k] # None =>
        LET t == content[k].value.data IN
        /\ t \in Tasks /\ op[t].state = "Done" /\ op[t].kind = "write" /\ op[t].key = k
        /\ op[t].value = content[k].value
        /\ Lasts(content[k].value, content[k].until)

(* What is known of each operation. *)
Known(t) ==
    /\ op[t].state = "Idle" => op[t].kind = "read"
    /\ op[t].state # "Idle" => op[t].key \in Keys
    /\ op[t].state = "Found" => op[t].kind = "remove"
    /\ \A u \in op[t].after : op[u].state = "Done"
    /\ op[t].kind = "write" =>
        /\ op[t].value \in CacheValues /\ op[t].value.data = t
        /\ op[t].ttl # None => Lasts(op[t].value, now + op[t].ttl * SECOND)
        /\ op[t].state = "Done" => op[t].stored # "no"

AllKnown == \A t \in Tasks : Known(t)

(* Why a key has what it has: a write that was answered is there, or        *)
(* something that began before it was answered took its place, or its time  *)
(* or that of what took its place is over.                                  *)
Holds(w, content) ==
    LET found == content[op[w].key] IN
    found # None /\ (found.value.data = w \/ found.value.data \notin op[w].after)

Over(w) ==
    \/ FeOx!TimeIsUp(w, now)
    \/ \E u \in Tasks : FeOx!Supersedes(u, w, now)

Wrote(w) == w \in Tasks /\ op[w].state = "Done" /\ op[w].kind = "write"

Kept ==
    \A w \in Tasks : Wrote(w) /\ w \notin lost =>
        /\ Holds(w, store) \/ Over(w)
        /\ op[w].stored = "flushed" => Holds(w, file) \/ Over(w)

(* What is found is the latest that anybody could know of. *)
Latest ==
    restarts = 0 =>
        \A k \in Keys : FeOx!Alive(k) =>
            \A u \in Tasks : op[u].state = "Done" /\ op[u].key = k /\ op[u].kind # "read" =>
                store[k].value.data \notin op[u].after

FInv ==
    /\ FeOx!TypeOK
    /\ AllKnown
    /\ Made(store) /\ Made(file)
    /\ Kept /\ Latest
    /\ FeOx!ReadsTheLatest /\ FeOx!MissForAReason

LEMMA FeOxFacts ==
    /\ None \notin Nat /\ None \notin CacheValues /\ SECOND \in Nat \ {0}
    /\ Tasks \subseteq Nat
    /\ Lifetimes \subseteq [ttl : Times, stale_ttl : Times]
    /\ MAX_TIME \in Nat /\ MAX_RESTARTS \in Nat
    /\ None \notin FeOx!Entries
    /\ FeOx!Times = Times /\ FeOx!CacheValues = CacheValues
  BY CacheValueAssumption, StoresAssumption, SameValues DEF FeOx!ConstantsOK

LEMMA InitFInv == FeOx!Init => FInv
<1> SUFFICES ASSUME FeOx!Init PROVE FInv
  OBVIOUS
<1> USE FeOxFacts
<1>1. FeOx!TypeOK
  <2>1. op \in [Tasks -> FeOx!Operations]
    BY DEF FeOx!Init, FeOx!Operations, Times
  <2>2. /\ store \in [Keys -> FeOx!Entries \cup {None}]
        /\ file \in [Keys -> FeOx!Entries \cup {None}]
        /\ path \in Paths /\ lost \subseteq Tasks
    BY DEF FeOx!Init
  <2>3. now \in 0..MAX_TIME /\ restarts \in 0..MAX_RESTARTS
    BY DEF FeOx!Init
  <2>4. QED
    BY <2>1, <2>2, <2>3 DEF FeOx!TypeOK
<1>2. /\ \A t \in Tasks : op[t].state = "Idle" /\ op[t].kind = "read" /\ op[t].after = {}
      /\ \A k \in Keys : store[k] = None /\ file[k] = None
  BY DEF FeOx!Init
<1>3. AllKnown /\ Made(store) /\ Made(file) /\ Kept /\ Latest
  BY <1>2 DEF AllKnown, Known, Made, Kept, Latest, Wrote, FeOx!Alive
<1>4. FeOx!ReadsTheLatest /\ FeOx!MissForAReason
  BY <1>2 DEF FeOx!ReadsTheLatest, FeOx!MissForAReason, FeOx!Done
<1>5. QED
  BY <1>1, <1>3, <1>4 DEF FInv

LEMMA FeOxTypes ==
    ASSUME FInv
    PROVE  /\ now \in Nat /\ now \in 0..MAX_TIME /\ restarts \in 0..MAX_RESTARTS
           /\ store \in [Keys -> FeOx!Entries \cup {None}]
           /\ file \in [Keys -> FeOx!Entries \cup {None}]
           /\ op \in [Tasks -> FeOx!Operations]
           /\ path \in Paths /\ lost \subseteq Tasks
  BY FeOxFacts DEF FInv, FeOx!TypeOK

-----------------------------------------------------------------------------
(* What a step does to an operation: one that has begun keeps what it is    *)
(* for, and one that is done its answer.                                    *)
KeepsPurpose(t) ==
    /\ op'[t].kind = op[t].kind /\ op'[t].key = op[t].key /\ op'[t].after = op[t].after
    /\ op'[t].ttl = op[t].ttl
    /\ op[t].kind = "write" => op'[t].value = op[t].value

Begins(t) ==
    /\ op'[t].state = "Queued" /\ op'[t].key \in Keys
    /\ \A u \in op'[t].after : op[u].state = "Done"
    /\ now' = now
    /\ op'[t].kind = "write" =>
           /\ op'[t].value \in CacheValues /\ op'[t].value.data = t
           /\ op'[t].ttl # None => Lasts(op'[t].value, now + op'[t].ttl * SECOND)

KeepsAnswer(t) ==
    /\ op'[t].state = "Done" /\ op'[t].value = op[t].value /\ op'[t].at = op[t].at

Onward ==
    /\ op' \in [Tasks -> FeOx!Operations]
    /\ \A t \in Tasks :
          /\ IF op[t].state = "Idle" /\ op'[t].state # "Idle" THEN Begins(t) ELSE KeepsPurpose(t)
          /\ op'[t].state = "Idle" => op[t].state = "Idle"
          /\ op[t].state = "Done" => KeepsAnswer(t)
          /\ op'[t].state = "Found" => op'[t].kind = "remove"
          /\ op[t].stored # "no" => op'[t].stored # "no"
    /\ now' \in Nat /\ now <= now' /\ lost \subseteq lost'
    /\ restarts' = 0 => restarts = 0

(* And to what is stored. *)
Replaced(k) ==
    \E t \in Tasks :
        /\ op[t].state = "Queued" /\ op[t].kind = "write" /\ op[t].key = k
        /\ op'[t].state = "Done"
        /\ store'[k] = [value |-> op[t].value, until |-> FeOx!Until(t)]

Dropped(k) ==
    /\ store'[k] = None
    /\ ~FeOx!Alive(k) \/ \E t \in Tasks : op[t].state = "Found" /\ op[t].key = k

Restarted(k) ==
    /\ store'[k] = file[k] /\ restarts' # 0
    /\ \A t \in Tasks : op[t].stored = "unflushed" => t \in lost'

Persisted ==
    /\ \A k \in Keys : file'[k] = file[k] \/ file'[k] = store[k]
    /\ \A t \in Tasks :
          op'[t].stored = "flushed" =>
              op[t].stored = "flushed" \/ (file' = store /\ op'[t].state = op[t].state)

(* And when an operation ends. *)
Completes(t) ==
    /\ op[t].kind = "read" =>
          /\ op[t].state = "Queued" /\ now' = now /\ op'[t].at = now
          /\ LET k == op[t].key IN
             op'[t].value =
                 IF FeOx!Alive(k) /\ ~(store[k].value.expire # None /\ store[k].value.expire < now)
                 THEN store[k].value ELSE None
    /\ op[t].kind = "remove" => ~FeOx!Alive(op[t].key)'
    /\ op[t].kind = "write" =>
          /\ op'[t].stored = "unflushed"
          /\ store'[op[t].key] # None /\ store'[op[t].key].value.data = t

Moves ==
    /\ Onward
    /\ \A k \in Keys :
          store'[k] = store[k] \/ Replaced(k) \/ Dropped(k) \/ Restarted(k)
    /\ Persisted
    /\ \A t \in Tasks : op[t].state # "Done" /\ op'[t].state = "Done" => Completes(t)

(* A step that changes operation t in its state, and maybe its answer, its  *)
(* time and what is known of its write.                                     *)
LEMMA StateSet ==
    ASSUME op \in [Tasks -> FeOx!Operations], NEW t \in Tasks,
           NEW s \in {"Queued", "Found", "Done", "Failed", "Gone"},
           op' = [op EXCEPT ![t].state = s]
    PROVE  /\ op' \in [Tasks -> FeOx!Operations]
           /\ op'[t].state = s /\ KeepsPurpose(t)
           /\ op'[t].value = op[t].value /\ op'[t].at = op[t].at /\ op'[t].stored = op[t].stored
           /\ \A u \in Tasks \ {t} : op'[u] = op[u]
<1> DEFINE new == [op[t] EXCEPT !.state = s]
<1>1. op' = [op EXCEPT ![t] = new]
  OBVIOUS
<1>2. new \in FeOx!Operations
  BY DEF FeOx!Operations
<1>3. /\ new.state = s /\ new.value = op[t].value /\ new.at = op[t].at
      /\ new.stored = op[t].stored /\ new.kind = op[t].kind /\ new.key = op[t].key
      /\ new.after = op[t].after /\ new.ttl = op[t].ttl
  BY DEF FeOx!Operations
<1> HIDE DEF new
<1>4. QED
  BY <1>1, <1>2, <1>3 DEF KeepsPurpose

LEMMA StoredSet ==
    ASSUME op \in [Tasks -> FeOx!Operations], NEW t \in Tasks,
           op' = [op EXCEPT ![t].state = "Done", ![t].stored = "unflushed"]
    PROVE  /\ op' \in [Tasks -> FeOx!Operations]
           /\ op'[t].state = "Done" /\ KeepsPurpose(t)
           /\ op'[t].value = op[t].value /\ op'[t].at = op[t].at /\ op'[t].stored = "unflushed"
           /\ \A u \in Tasks \ {t} : op'[u] = op[u]
<1> DEFINE done == [op[t] EXCEPT !.state = "Done"]
           new  == [done EXCEPT !.stored = "unflushed"]
<1>1. op' = [op EXCEPT ![t] = new]
  OBVIOUS
<1>2. new \in FeOx!Operations
  <2>1. done \in FeOx!Operations
    BY DEF FeOx!Operations
  <2> HIDE DEF done
  <2>2. QED
    BY <2>1 DEF FeOx!Operations
<1>3. /\ new.state = "Done" /\ new.value = op[t].value /\ new.at = op[t].at
      /\ new.stored = "unflushed" /\ new.kind = op[t].kind /\ new.key = op[t].key
      /\ new.after = op[t].after /\ new.ttl = op[t].ttl
  BY DEF FeOx!Operations
<1> HIDE DEF new
<1>4. QED
  BY <1>1, <1>2, <1>3 DEF KeepsPurpose

LEMMA LeftSet ==
    ASSUME op \in [Tasks -> FeOx!Operations], NEW t \in Tasks, NEW gone \in BOOLEAN,
           op' = [op EXCEPT ![t].left = gone]
    PROVE  /\ op' \in [Tasks -> FeOx!Operations]
           /\ op'[t].state = op[t].state /\ KeepsPurpose(t)
           /\ op'[t].value = op[t].value /\ op'[t].at = op[t].at /\ op'[t].stored = op[t].stored
           /\ \A u \in Tasks \ {t} : op'[u] = op[u]
<1> DEFINE new == [op[t] EXCEPT !.left = gone]
<1>1. op' = [op EXCEPT ![t] = new]
  OBVIOUS
<1>2. new \in FeOx!Operations
  <2>1. op[t] \in FeOx!Operations
    OBVIOUS
  <2>2. QED
    BY <2>1 DEF FeOx!Operations
<1>3. /\ new.state = op[t].state /\ new.value = op[t].value /\ new.at = op[t].at
      /\ new.stored = op[t].stored /\ new.kind = op[t].kind /\ new.key = op[t].key
      /\ new.after = op[t].after /\ new.ttl = op[t].ttl
  BY DEF FeOx!Operations
<1> HIDE DEF new
<1>4. QED
  BY <1>1, <1>2, <1>3 DEF KeepsPurpose

LEMMA AnswerSet ==
    ASSUME op \in [Tasks -> FeOx!Operations], NEW t \in Tasks, op[t].kind = "read",
           NEW n \in Nat, NEW v \in CacheValues \cup {None},
           op' = [op EXCEPT ![t].state = "Done", ![t].at = n, ![t].value = v]
    PROVE  /\ op' \in [Tasks -> FeOx!Operations]
           /\ op'[t].state = "Done" /\ KeepsPurpose(t)
           /\ op'[t].value = v /\ op'[t].at = n /\ op'[t].stored = op[t].stored
           /\ \A u \in Tasks \ {t} : op'[u] = op[u]
<1> DEFINE new == [[[op[t] EXCEPT !.state = "Done"] EXCEPT !.at = n] EXCEPT !.value = v]
<1>1. v \in FeOx!CacheValues \cup {None}
  BY FeOxFacts
<1>2. op' = [op EXCEPT ![t] = new]
  OBVIOUS
<1>3. /\ new \in FeOx!Operations
      /\ new.state = "Done" /\ new.value = v /\ new.at = n /\ new.stored = op[t].stored
      /\ new.kind = op[t].kind /\ new.key = op[t].key /\ new.after = op[t].after
      /\ new.ttl = op[t].ttl
  BY <1>1 DEF FeOx!Operations
<1> HIDE DEF new
<1>4. QED
  BY <1>2, <1>3, ZenonT(30) DEF KeepsPurpose

LEMMA OpSet ==
    ASSUME op \in [Tasks -> FeOx!Operations], NEW t \in Tasks, NEW new \in FeOx!Operations,
           op' = [op EXCEPT ![t] = new]
    PROVE  /\ op' \in [Tasks -> FeOx!Operations]
           /\ op'[t] = new
           /\ \A u \in Tasks \ {t} : op'[u] = op[u]
  OBVIOUS

LEMMA StartMoves ==
    ASSUME FInv, NEW t \in Tasks, FeOx!Start(t)
    PROVE  Moves
<1> USE FeOxFacts
<1>0. /\ op \in [Tasks -> FeOx!Operations] /\ now \in Nat
      /\ FeOx!Answered \in SUBSET Tasks
  BY FeOxTypes DEF FeOx!Answered
<1>1. op[t].state = "Idle" /\ UNCHANGED <<path, store, file, now, restarts, lost>>
  BY DEF FeOx!Start
<1>2. PICK k \in Keys :
        \/ \E what \in {"read", "remove"} :
              op' = [op EXCEPT ![t].state = "Queued", ![t].kind = what, ![t].key = k,
                               ![t].after = FeOx!Answered]
        \/ \E lifetime \in Lifetimes :
              LET value == FreshValue(t, lifetime, now) IN
              op' = [op EXCEPT ![t].state = "Queued", ![t].kind = "write", ![t].key = k,
                               ![t].after = FeOx!Answered, ![t].value = value,
                               ![t].ttl = Ttl(value, now)]
  BY SameValues DEF FeOx!Start
<1> DEFINE Called ==
      /\ op' \in [Tasks -> FeOx!Operations]
      /\ op'[t].state = "Queued" /\ op'[t].key \in Keys /\ op'[t].after = FeOx!Answered
      /\ op'[t].stored = op[t].stored
      /\ \A u \in Tasks \ {t} : op'[u] = op[u]
      /\ op'[t].kind = "write" =>
            /\ op'[t].value \in CacheValues /\ op'[t].value.data = t
            /\ op'[t].ttl # None => Lasts(op'[t].value, now + op'[t].ttl * SECOND)
<1>3. Called
  <2>1. ASSUME NEW what \in {"read", "remove"},
               op' = [op EXCEPT ![t].state = "Queued", ![t].kind = what, ![t].key = k,
                                ![t].after = FeOx!Answered]
        PROVE  Called
    <3> DEFINE a == [op[t] EXCEPT !.state = "Queued"]
               b == [a EXCEPT !.kind = what]
               c == [b EXCEPT !.key = k]
               d == [c EXCEPT !.after = FeOx!Answered]
    <3>1. op' = [op EXCEPT ![t] = d]
      BY <2>1
    <3>2. a \in FeOx!Operations /\ a.state = "Queued" /\ a.stored = op[t].stored
      BY <1>0, SMTT(30) DEF FeOx!Operations
    <3> HIDE DEF a
    <3>3. /\ b \in FeOx!Operations /\ b.kind = what
          /\ b.state = "Queued" /\ b.stored = op[t].stored
      BY <3>2 DEF FeOx!Operations
    <3> HIDE DEF b
    <3>4. /\ c \in FeOx!Operations /\ c.key = k /\ c.kind = what
          /\ c.state = "Queued" /\ c.stored = op[t].stored
      BY <3>3 DEF FeOx!Operations
    <3> HIDE DEF c
    <3>5. /\ d \in FeOx!Operations /\ d.after = FeOx!Answered /\ d.key = k /\ d.kind = what
          /\ d.state = "Queued" /\ d.stored = op[t].stored
      BY <3>4, <1>0 DEF FeOx!Operations
    <3> HIDE DEF d
    <3>6. /\ op' \in [Tasks -> FeOx!Operations]
          /\ op'[t] = d
          /\ \A u \in Tasks \ {t} : op'[u] = op[u]
      BY <3>1, <3>5, <1>0, OpSet
    <3>7. what # "write" /\ k \in Keys
      OBVIOUS
    <3>8. QED
      BY <3>5, <3>6, <3>7, Zenon
  <2>2. ASSUME NEW lifetime \in Lifetimes,
               LET value == FreshValue(t, lifetime, now) IN
               op' = [op EXCEPT ![t].state = "Queued", ![t].kind = "write", ![t].key = k,
                                ![t].after = FeOx!Answered, ![t].value = value,
                                ![t].ttl = Ttl(value, now)]
        PROVE  Called
    <3> DEFINE value == FreshValue(t, lifetime, now)
    <3>1. value \in CacheValues /\ value.data = t
      BY <1>0, FreshIsValue
    <3>2. op' = [op EXCEPT ![t].state = "Queued", ![t].kind = "write", ![t].key = k,
                           ![t].after = FeOx!Answered, ![t].value = value,
                           ![t].ttl = Ttl(value, now)]
      BY <2>2
    <3> HIDE DEF value
    <3>3. /\ Ttl(value, now) \in Times
          /\ Ttl(value, now) # None => Lasts(value, now + Ttl(value, now) * SECOND)
      BY <3>1, <1>0, TtlFact DEF Lasts
    <3> DEFINE time == Ttl(value, now)
    <3> HIDE DEF time
    <3>4. time \in Times /\ (time # None => Lasts(value, now + time * SECOND))
      BY <3>3 DEF time
    <3>5. op' = [op EXCEPT ![t].state = "Queued", ![t].kind = "write", ![t].key = k,
                           ![t].after = FeOx!Answered, ![t].value = value, ![t].ttl = time]
      BY <3>2 DEF time
    <3> DEFINE a == [op[t] EXCEPT !.state = "Queued"]
               b == [a EXCEPT !.kind = "write"]
               c == [b EXCEPT !.key = k]
               d == [c EXCEPT !.after = FeOx!Answered]
               e == [d EXCEPT !.value = value]
               new == [e EXCEPT !.ttl = time]
    <3>6. op' = [op EXCEPT ![t] = new]
      BY <3>5
    <3>7. a \in FeOx!Operations /\ a.state = "Queued" /\ a.stored = op[t].stored
      BY <1>0 DEF FeOx!Operations
    <3> HIDE DEF a
    <3>8. /\ b \in FeOx!Operations /\ b.kind = "write"
          /\ b.state = "Queued" /\ b.stored = op[t].stored
      BY <3>7 DEF FeOx!Operations
    <3> HIDE DEF b
    <3>9. /\ c \in FeOx!Operations /\ c.key = k /\ c.kind = "write"
          /\ c.state = "Queued" /\ c.stored = op[t].stored
      BY <3>8 DEF FeOx!Operations
    <3> HIDE DEF c
    <3>10. /\ d \in FeOx!Operations /\ d.after = FeOx!Answered /\ d.key = k /\ d.kind = "write"
           /\ d.state = "Queued" /\ d.stored = op[t].stored
      BY <3>9, <1>0 DEF FeOx!Operations
    <3> HIDE DEF d
    <3>11. /\ e \in FeOx!Operations /\ e.value = value
           /\ e.after = FeOx!Answered /\ e.key = k /\ e.kind = "write"
           /\ e.state = "Queued" /\ e.stored = op[t].stored
      BY <3>1, <3>10 DEF FeOx!Operations
    <3> HIDE DEF e
    <3>12. /\ new \in FeOx!Operations /\ new.ttl = time /\ new.value = value
           /\ new.after = FeOx!Answered /\ new.key = k /\ new.kind = "write"
           /\ new.state = "Queued" /\ new.stored = op[t].stored
      BY <3>4, <3>11 DEF FeOx!Operations
    <3> HIDE DEF new
    <3>13. /\ op' \in [Tasks -> FeOx!Operations]
           /\ op'[t] = new
           /\ \A u \in Tasks \ {t} : op'[u] = op[u]
      BY <3>6, <3>12, <1>0, OpSet
    <3>14. QED
      BY <3>1, <3>4, <3>12, <3>13, Zenon
  <2>3. QED
    BY <1>2, <2>1, <2>2
<1>4. Begins(t)
  BY <1>1, <1>3 DEF Begins, FeOx!Answered
<1>5. ASSUME NEW u \in Tasks \ {t}
      PROVE  /\ KeepsPurpose(u)
             /\ op[u].state = "Done" => KeepsAnswer(u)
             /\ op'[u].state = "Found" => op'[u].kind = "remove"
             /\ op'[u] = op[u]
  BY <1>3 DEF KeepsPurpose, KeepsAnswer, FInv, AllKnown, Known
<1>6. Onward
  BY <1>0, <1>1, <1>3, <1>4, <1>5 DEF Onward
<1>7. Persisted /\ \A u \in Tasks : op[u].state # "Done" => op'[u].state # "Done"
  BY <1>1, <1>3 DEF Persisted
<1>8. QED
  BY <1>1, <1>6, <1>7 DEF Moves

(* What a write stores. *)
LEMMA EntryMade ==
    ASSUME FInv, NEW t \in Tasks, op[t].state # "Idle", op[t].kind = "write"
    PROVE  [value |-> op[t].value, until |-> FeOx!Until(t)] \in FeOx!Entries
<1> USE FeOxFacts
<1>1. op[t].value \in CacheValues /\ op[t].ttl \in Times /\ now \in Nat
  BY FeOxTypes DEF FInv, AllKnown, Known, FeOx!Operations
<1>2. op[t].ttl # None => op[t].ttl * SECOND \in Nat
  BY <1>1 DEF Times
<1>3. op[t].ttl # None => now + op[t].ttl * SECOND \in Nat
  BY <1>2, <1>1
<1>4. FeOx!Until(t) \in Times
  BY <1>3 DEF FeOx!Until, Times
<1>5. QED
  BY <1>1, <1>4 DEF FeOx!Entries

(* The other steps of one task: what they leave alone, and what the task's  *)
(* own record becomes.                                                      *)
LEMMA TaskMoves ==
    ASSUME FInv, NEW t \in Tasks, FeOx!Leave(t) \/ FeOx!Run(t),
           op' \in [Tasks -> FeOx!Operations],
           \A u \in Tasks \ {t} : op'[u] = op[u],
           KeepsPurpose(t), op[t].state \in {"Queued", "Found"}, op'[t].state # "Idle",
           op'[t].state = "Found" => op[t].kind = "remove",
           op'[t].stored = op[t].stored \/ op'[t].stored = "unflushed",
           op'[t].state = "Done" => Completes(t),
           \A k \in Keys : store'[k] = store[k] \/ Replaced(k) \/ Dropped(k)
    PROVE  Moves
<1> USE FeOxFacts
<1>0. op \in [Tasks -> FeOx!Operations] /\ now \in Nat
  BY FeOxTypes
<1>1. UNCHANGED <<path, file, now, restarts, lost>>
  BY DEF FeOx!Leave, FeOx!Run, FeOx!Read, FeOx!Write, FeOx!WriteFails, FeOx!Contains, FeOx!Delete
<1>2. ASSUME NEW u \in Tasks \ {t}
      PROVE  /\ KeepsPurpose(u)
             /\ op[u].state = "Done" => KeepsAnswer(u)
             /\ op'[u].state = "Found" => op'[u].kind = "remove"
             /\ op'[u] = op[u]
  BY DEF KeepsPurpose, KeepsAnswer, FInv, AllKnown, Known
<1>3. /\ op'[t].state = "Found" => op'[t].kind = "remove"
      /\ op[t].stored # "no" => op'[t].stored # "no"
  BY DEF KeepsPurpose
<1>4. Onward
  BY <1>0, <1>1, <1>2, <1>3 DEF Onward
<1>5. Persisted
  BY <1>1, <1>2 DEF Persisted
<1>6. QED
  BY <1>2, <1>4, <1>5 DEF Moves

LEMMA LeaveMoves == ASSUME FInv, NEW t \in Tasks, FeOx!Leave(t) PROVE Moves
<1>0. op \in [Tasks -> FeOx!Operations]
  BY FeOxTypes
<1>1. /\ op[t].state \in {"Queued", "Found"}
      /\ op' = [op EXCEPT ![t].left = TRUE] /\ store' = store
  BY DEF FeOx!Leave
<1>2. /\ op' \in [Tasks -> FeOx!Operations]
      /\ op'[t].state = op[t].state /\ KeepsPurpose(t) /\ op'[t].stored = op[t].stored
      /\ \A u \in Tasks \ {t} : op'[u] = op[u]
  BY <1>0, <1>1, LeftSet
<1>3. op'[t].state = "Found" => op[t].kind = "remove"
  BY <1>2 DEF FInv, AllKnown, Known
<1>4. QED
  BY <1>1, <1>2, <1>3, TaskMoves

LEMMA ReadMoves == ASSUME FInv, NEW t \in Tasks, FeOx!Read(t) PROVE Moves
<1> USE FeOxFacts
<1>0. /\ op \in [Tasks -> FeOx!Operations] /\ now \in Nat
      /\ store \in [Keys -> FeOx!Entries \cup {None}]
  BY FeOxTypes
<1> DEFINE k == op[t].key
           found == FeOx!Alive(k) /\ ~(store[k].value.expire # None /\ store[k].value.expire < now)
           v == IF found THEN store[k].value ELSE None
<1>1. /\ op[t].state = "Queued" /\ op[t].kind = "read" /\ store' = store /\ now' = now
      /\ op' = [op EXCEPT ![t].state = "Done", ![t].at = now, ![t].value = v]
  BY DEF FeOx!Read
<1>2. v \in CacheValues \cup {None}
  <2>1. k \in Keys
    BY <1>1 DEF FInv, AllKnown, Known
  <2>2. QED
    BY <2>1, <1>0 DEF FeOx!Alive, FeOx!Entries
<1>3. op'[t].at = now => (op'[t].value = v => (op[t].kind = "read" => Completes(t)))
  BY <1>1 DEF Completes
<1> HIDE DEF v
<1>4. /\ op' \in [Tasks -> FeOx!Operations]
      /\ op'[t].state = "Done" /\ KeepsPurpose(t)
      /\ op'[t].value = v /\ op'[t].at = now /\ op'[t].stored = op[t].stored
      /\ \A u \in Tasks \ {t} : op'[u] = op[u]
  BY <1>0, <1>1, <1>2, AnswerSet
<1>5. QED
  BY <1>1, <1>3, <1>4, TaskMoves DEF FeOx!Run

LEMMA WriteMoves == ASSUME FInv, NEW t \in Tasks, FeOx!Write(t) PROVE Moves
<1> USE FeOxFacts
<1>0. /\ op \in [Tasks -> FeOx!Operations]
      /\ store \in [Keys -> FeOx!Entries \cup {None}]
  BY FeOxTypes
<1> DEFINE entry == [value |-> op[t].value, until |-> FeOx!Until(t)]
<1>1. /\ op[t].state = "Queued" /\ op[t].kind = "write"
      /\ op' = [op EXCEPT ![t].state = "Done", ![t].stored = "unflushed"]
      /\ store' = [store EXCEPT ![op[t].key] = entry]
  BY DEF FeOx!Write
<1>2. /\ op' \in [Tasks -> FeOx!Operations]
      /\ op'[t].state = "Done" /\ KeepsPurpose(t) /\ op'[t].stored = "unflushed"
      /\ \A u \in Tasks \ {t} : op'[u] = op[u]
  BY <1>0, <1>1, StoredSet
<1>3. op[t].key \in Keys /\ op[t].value.data = t
  BY <1>1 DEF FInv, AllKnown, Known
<1>4. entry.value = op[t].value /\ entry # None
  BY <1>1, EntryMade
<1>5. Replaced(op[t].key)
  BY <1>0, <1>1, <1>2, <1>3 DEF Replaced
<1> HIDE DEF entry
<1>6. /\ store'[op[t].key] = entry
      /\ \A k \in Keys : k # op[t].key => store'[k] = store[k]
  BY <1>0, <1>1, <1>3
<1>7. Completes(t)
  BY <1>1, <1>2, <1>3, <1>4, <1>6 DEF Completes
<1>8. QED
  BY <1>1, <1>2, <1>5, <1>6, <1>7, TaskMoves DEF FeOx!Run

LEMMA EndMoves ==
    ASSUME FInv, NEW t \in Tasks, FeOx!WriteFails(t) \/ FeOx!Contains(t) \/ FeOx!Delete(t)
    PROVE  Moves
<1> USE FeOxFacts
<1>0. /\ op \in [Tasks -> FeOx!Operations]
      /\ store \in [Keys -> FeOx!Entries \cup {None}]
  BY FeOxTypes
<1>1. PICK s \in {"Done", "Failed", "Found"} :
        /\ op' = [op EXCEPT ![t].state = s]
        /\ s = "Done" => FeOx!Contains(t) \/ FeOx!Delete(t)
        /\ s = "Found" => op[t].kind = "remove"
  BY DEF FeOx!WriteFails, FeOx!Contains, FeOx!Delete, FeOx!Ends
<1>2. op[t].state \in {"Queued", "Found"}
  BY DEF FeOx!WriteFails, FeOx!Contains, FeOx!Delete
<1>3. /\ op' \in [Tasks -> FeOx!Operations]
      /\ op'[t].state = s /\ KeepsPurpose(t) /\ op'[t].stored = op[t].stored
      /\ \A u \in Tasks \ {t} : op'[u] = op[u]
  BY <1>0, <1>1, StateSet
<1>4. /\ op[t].key \in Keys
      /\ op[t].state = "Found" => op[t].kind = "remove"
  BY <1>2 DEF FInv, AllKnown, Known
<1>5. \A k \in Keys : store'[k] = store[k] \/ Replaced(k) \/ Dropped(k)
  <2>1. store' = store \/ (store' = [store EXCEPT ![op[t].key] = None] /\ op[t].state = "Found")
    BY DEF FeOx!WriteFails, FeOx!Contains, FeOx!Delete
  <2>2. QED
    BY <2>1, <1>0, <1>4 DEF Dropped
<1>6. s = "Done" => Completes(t)
  <2>1. CASE FeOx!Contains(t) /\ s = "Done"
    <3>1. op[t].kind = "remove" /\ store' = store /\ now' = now
      BY <2>1 DEF FeOx!Contains
    <3>2. ~FeOx!Alive(op[t].key)
      <4>1. op' = [op EXCEPT ![t].state = IF FeOx!Alive(op[t].key) THEN "Found" ELSE "Done"]
        BY <2>1 DEF FeOx!Contains, FeOx!Ends
      <4>2. op'[t].state = IF FeOx!Alive(op[t].key) THEN "Found" ELSE "Done"
        BY <4>1, <1>0
      <4>3. QED
        BY <4>2, <2>1, <1>3
    <3>3. op'[t].key = op[t].key
      BY <1>3 DEF KeepsPurpose
    <3>4. ~FeOx!Alive(op[t].key)'
      BY <3>1, <3>2, <3>3 DEF FeOx!Alive
    <3>5. QED
      BY <3>1, <3>4 DEF Completes
  <2>2. CASE FeOx!Delete(t) /\ s = "Done"
    <3>1. op[t].kind = "remove" /\ op'[t].key = op[t].key
      BY <2>2, <1>3, <1>4 DEF FeOx!Delete, KeepsPurpose
    <3>2. store' = [store EXCEPT ![op[t].key] = None]
      <4>1. CASE FeOx!Alive(op[t].key)
        BY <4>1, <2>2 DEF FeOx!Delete
      <4>2. CASE ~FeOx!Alive(op[t].key)
        <5>1. op' = [op EXCEPT ![t].state = "Failed"]
          BY <4>2, <2>2 DEF FeOx!Delete, FeOx!Ends
        <5>2. op'[t].state = "Failed"
          BY <5>1, <1>0
        <5>3. QED
          BY <5>2, <2>2, <1>3
      <4>3. QED
        BY <4>1, <4>2
    <3>3. store'[op[t].key] = None
      BY <3>2, <1>0, <1>4
    <3>4. ~FeOx!Alive(op[t].key)'
      BY <3>1, <3>3 DEF FeOx!Alive
    <3>5. QED
      BY <3>1, <3>4 DEF Completes
  <2>3. QED
    BY <1>1, <2>1, <2>2
<1>7. QED
  BY <1>1, <1>2, <1>3, <1>5, <1>6, TaskMoves DEF FeOx!Run

(* The steps that are about no task. *)
LEMMA SameOpMoves ==
    ASSUME FInv, op' = op, now' \in Nat, now <= now', lost' = lost, restarts' = restarts,
           \A k \in Keys : store'[k] = store[k] \/ Dropped(k),
           \A k \in Keys : file'[k] = file[k] \/ file'[k] = store[k]
    PROVE  Moves
<1>0. op \in [Tasks -> FeOx!Operations]
  BY FeOxTypes
<1>1. ASSUME NEW u \in Tasks
      PROVE  /\ KeepsPurpose(u)
             /\ op[u].state = "Done" => KeepsAnswer(u)
             /\ op'[u].state = "Found" => op'[u].kind = "remove"
             /\ op'[u] = op[u]
  BY DEF KeepsPurpose, KeepsAnswer, FInv, AllKnown, Known
<1>2. Onward
  BY <1>0, <1>1 DEF Onward
<1>3. Persisted
  BY <1>1 DEF Persisted
<1>4. QED
  BY <1>1, <1>2, <1>3 DEF Moves

LEMMA ContentMoves ==
    ASSUME FInv, FeOx!Tick \/ \E k \in Keys : FeOx!Persist(k) \/ FeOx!Sweep(k)
    PROVE  Moves
<1>0. /\ now \in Nat
      /\ store \in [Keys -> FeOx!Entries \cup {None}] /\ file \in [Keys -> FeOx!Entries \cup {None}]
  BY FeOxTypes
<1>1. CASE FeOx!Tick
  <2>1. op' = op /\ now' = now + 1 /\ lost' = lost /\ restarts' = restarts /\ store' = store /\ file' = file
    BY <1>1 DEF FeOx!Tick
  <2>2. now' \in Nat /\ now <= now'
    BY <2>1, <1>0
  <2>3. QED
    BY <2>1, <2>2, SameOpMoves
<1>2. ASSUME NEW k \in Keys, FeOx!Persist(k) PROVE Moves
  <2>1. /\ op' = op /\ now' = now /\ lost' = lost /\ restarts' = restarts /\ store' = store
        /\ file' = [file EXCEPT ![k] = store[k]]
    BY <1>2 DEF FeOx!Persist
  <2>2. now' \in Nat /\ now <= now'
    BY <2>1, <1>0
  <2>3. \A j \in Keys : file'[j] = file[j] \/ file'[j] = store[j]
    BY <2>1, <1>0
  <2>4. QED
    BY <2>1, <2>2, <2>3, SameOpMoves
<1>3. ASSUME NEW k \in Keys, FeOx!Sweep(k) PROVE Moves
  <2>1. /\ op' = op /\ now' = now /\ lost' = lost /\ restarts' = restarts /\ file' = file
        /\ store' = [store EXCEPT ![k] = None] /\ ~FeOx!Alive(k)
    BY <1>3 DEF FeOx!Sweep
  <2>2. now' \in Nat /\ now <= now'
    BY <2>1, <1>0
  <2>3. \A j \in Keys : store'[j] = store[j] \/ Dropped(j)
    BY <2>1, <1>0 DEF Dropped
  <2>4. QED
    BY <2>1, <2>2, <2>3, SameOpMoves
<1>4. QED
  BY <1>1, <1>2, <1>3

LEMMA FlushMoves == ASSUME FInv, FeOx!Flush PROVE Moves
<1>0. /\ op \in [Tasks -> FeOx!Operations] /\ now \in Nat
      /\ store \in [Keys -> FeOx!Entries \cup {None}]
  BY FeOxTypes
<1>1. /\ file' = store
      /\ op' = [t \in Tasks |-> IF op[t].stored = "no" THEN op[t]
                                ELSE [op[t] EXCEPT !.stored = "flushed"]]
      /\ UNCHANGED <<store, now, restarts, lost>>
  BY DEF FeOx!Flush
<1>2. ASSUME NEW u \in Tasks
      PROVE  LET new == [op[u] EXCEPT !.stored = "flushed"] IN
             /\ new \in FeOx!Operations
             /\ new.kind = op[u].kind /\ new.key = op[u].key /\ new.after = op[u].after
             /\ new.ttl = op[u].ttl /\ new.value = op[u].value /\ new.at = op[u].at
             /\ new.state = op[u].state /\ new.stored = "flushed"
  BY <1>0 DEF FeOx!Operations
<1>3. op' \in [Tasks -> FeOx!Operations]
  BY <1>0, <1>1, <1>2
<1>4. ASSUME NEW u \in Tasks
      PROVE  /\ KeepsPurpose(u) /\ op'[u].value = op[u].value /\ op'[u].at = op[u].at
             /\ op'[u].state = op[u].state
             /\ op[u].stored # "no" => op'[u].stored # "no"
  <2>1. CASE op[u].stored = "no"
    BY <2>1, <1>1 DEF KeepsPurpose
  <2>2. CASE op[u].stored # "no"
    <3> DEFINE new == [op[u] EXCEPT !.stored = "flushed"]
    <3>1. op'[u] = new
      BY <2>2, <1>1
    <3>2. /\ new.kind = op[u].kind /\ new.key = op[u].key /\ new.after = op[u].after
          /\ new.ttl = op[u].ttl /\ new.value = op[u].value /\ new.at = op[u].at
          /\ new.state = op[u].state /\ new.stored = "flushed"
      BY <1>2
    <3> HIDE DEF new
    <3>3. QED
      BY <3>1, <3>2 DEF KeepsPurpose
  <2>3. QED
    BY <2>1, <2>2
<1>5. ASSUME NEW u \in Tasks
      PROVE  /\ op[u].state = "Done" => KeepsAnswer(u)
             /\ op'[u].state = "Found" => op'[u].kind = "remove"
  BY <1>4 DEF KeepsPurpose, KeepsAnswer, FInv, AllKnown, Known
<1>6. Onward
  BY <1>0, <1>1, <1>3, <1>4, <1>5 DEF Onward
<1>7. Persisted
  BY <1>0, <1>1, <1>4 DEF Persisted
<1>8. QED
  BY <1>1, <1>4, <1>6, <1>7 DEF Moves

LEMMA RestartMoves == ASSUME FInv, FeOx!Restart PROVE Moves
<1>0. /\ op \in [Tasks -> FeOx!Operations] /\ now \in Nat /\ restarts \in 0..MAX_RESTARTS
  BY FeOxTypes
<1>1. /\ store' = file /\ restarts' = restarts + 1
      /\ lost' = lost \cup {t \in Tasks : op[t].stored = "unflushed" \/ ~path}
      /\ op' = [t \in Tasks |-> IF op[t].state \in {"Queued", "Found"}
                                THEN [op[t] EXCEPT !.state = "Gone"] ELSE op[t]]
      /\ UNCHANGED <<file, now>>
  BY DEF FeOx!Restart
<1>2. restarts' # 0
  BY <1>0, <1>1, FeOxFacts
<1>3. ASSUME NEW u \in Tasks
      PROVE  LET new == [op[u] EXCEPT !.state = "Gone"] IN
             /\ new \in FeOx!Operations
             /\ new.kind = op[u].kind /\ new.key = op[u].key /\ new.after = op[u].after
             /\ new.ttl = op[u].ttl /\ new.value = op[u].value
             /\ new.state = "Gone" /\ new.stored = op[u].stored
  BY <1>0 DEF FeOx!Operations
<1>4. op' \in [Tasks -> FeOx!Operations]
  BY <1>0, <1>1, <1>3
<1>5. ASSUME NEW u \in Tasks
      PROVE  /\ KeepsPurpose(u) /\ op'[u].stored = op[u].stored
             /\ op'[u] = op[u] \/ (op'[u].state = "Gone" /\ op[u].state \in {"Queued", "Found"})
  <2>1. CASE op[u].state \notin {"Queued", "Found"}
    BY <2>1, <1>1 DEF KeepsPurpose
  <2>2. CASE op[u].state \in {"Queued", "Found"}
    <3> DEFINE new == [op[u] EXCEPT !.state = "Gone"]
    <3>1. op'[u] = new
      BY <2>2, <1>1
    <3>2. /\ new.kind = op[u].kind /\ new.key = op[u].key /\ new.after = op[u].after
          /\ new.ttl = op[u].ttl /\ new.value = op[u].value
          /\ new.state = "Gone" /\ new.stored = op[u].stored
      BY <1>3
    <3> HIDE DEF new
    <3>3. QED
      BY <3>1, <3>2, <2>2 DEF KeepsPurpose
  <2>3. QED
    BY <2>1, <2>2
<1>6. ASSUME NEW u \in Tasks
      PROVE  /\ op[u].state = "Done" => KeepsAnswer(u)
             /\ op'[u].state = "Found" => op'[u].kind = "remove"
             /\ op'[u].state = "Idle" => op[u].state = "Idle"
  BY <1>5 DEF KeepsPurpose, KeepsAnswer, FInv, AllKnown, Known
<1>7. Onward
  BY <1>0, <1>1, <1>2, <1>4, <1>5, <1>6 DEF Onward
<1>8. Persisted
  BY <1>1, <1>5 DEF Persisted
<1>9. \A k \in Keys : Restarted(k)
  BY <1>1, <1>2 DEF Restarted
<1>10. QED
  BY <1>5, <1>7, <1>8, <1>9 DEF Moves

LEMMA FeOxMoves == ASSUME FInv, FeOx!Next PROVE Moves
  BY StartMoves, LeaveMoves, ReadMoves, WriteMoves, EndMoves, ContentMoves, FlushMoves, RestartMoves
     DEF FeOx!Next, FeOx!Run

LEMMA FeOxTypesStay == ASSUME FInv, FeOx!Next PROVE FeOx!TypeOK'
<1> USE FeOxFacts
<1>0. /\ now \in Nat /\ now \in 0..MAX_TIME /\ restarts \in 0..MAX_RESTARTS
      /\ store \in [Keys -> FeOx!Entries \cup {None}]
      /\ file \in [Keys -> FeOx!Entries \cup {None}]
      /\ op \in [Tasks -> FeOx!Operations]
      /\ path \in Paths /\ lost \subseteq Tasks
  BY FeOxTypes
<1>1. op' \in [Tasks -> FeOx!Operations]
  BY FeOxMoves DEF Moves, Onward
<1> DEFINE Rest == /\ now' \in 0..MAX_TIME /\ restarts' \in 0..MAX_RESTARTS
                   /\ store' \in [Keys -> FeOx!Entries \cup {None}]
                   /\ file' \in [Keys -> FeOx!Entries \cup {None}]
                   /\ path' = path /\ lost' \subseteq Tasks
<1>2. ASSUME NEW t \in Tasks,
             FeOx!Start(t) \/ FeOx!Leave(t) \/ FeOx!Read(t) \/ FeOx!WriteFails(t) \/ FeOx!Contains(t)
      PROVE  Rest
  BY <1>0, <1>2 DEF FeOx!Start, FeOx!Leave, FeOx!Read, FeOx!WriteFails, FeOx!Contains
<1>3. ASSUME NEW t \in Tasks, FeOx!Write(t) PROVE Rest
  <2>1. op[t].key \in Keys
    BY <1>3 DEF FeOx!Write, FInv, AllKnown, Known
  <2> DEFINE entry == [value |-> op[t].value, until |-> FeOx!Until(t)]
  <2>2. entry \in FeOx!Entries
    BY <1>3, EntryMade DEF FeOx!Write
  <2>3. store' = [store EXCEPT ![op[t].key] = entry]
    BY <1>3 DEF FeOx!Write
  <2> HIDE DEF entry
  <2>4. store' \in [Keys -> FeOx!Entries \cup {None}]
    BY <2>1, <2>2, <2>3, <1>0
  <2>5. UNCHANGED <<path, file, now, restarts, lost>>
    BY <1>3 DEF FeOx!Write
  <2>6. QED
    BY <2>4, <2>5, <1>0
<1>4. ASSUME NEW t \in Tasks, FeOx!Delete(t) PROVE Rest
  BY <1>0, <1>4 DEF FeOx!Delete
<1>5. ASSUME NEW k \in Keys, FeOx!Persist(k) \/ FeOx!Sweep(k) PROVE Rest
  BY <1>0, <1>5 DEF FeOx!Persist, FeOx!Sweep
<1>6. ASSUME FeOx!Flush \/ FeOx!Restart \/ FeOx!Tick PROVE Rest
  BY <1>0, <1>6 DEF FeOx!Flush, FeOx!Restart, FeOx!Tick
<1>7. Rest
  BY <1>2, <1>3, <1>4, <1>5, <1>6 DEF FeOx!Next, FeOx!Run
<1>8. QED
  BY <1>0, <1>1, <1>7 DEF FeOx!TypeOK

-----------------------------------------------------------------------------
(* The step of each part of the invariant. *)
LEMMA KnownStays == ASSUME FInv, Moves PROVE AllKnown'
<1> USE FeOxFacts
<1>0. AllKnown /\ Onward /\ now \in Nat /\ now' \in Nat /\ now <= now'
      /\ op \in [Tasks -> FeOx!Operations]
  BY FeOxTypes DEF FInv, Moves, Onward
<1> SUFFICES ASSUME NEW t \in Tasks PROVE Known(t)'
  BY DEF AllKnown
<1>1. ASSUME NEW u \in Tasks, op[u].state = "Done" PROVE op'[u].state = "Done"
  BY <1>1, <1>0 DEF Onward, KeepsAnswer
<1>2. op'[t].state = "Done" /\ op'[t].kind = "write" => op'[t].stored # "no"
  <2>1. CASE op[t].state = "Done"
    BY <2>1, <1>0 DEF AllKnown, Known, Onward, KeepsPurpose
  <2>2. CASE op[t].state # "Done" /\ op'[t].state = "Done"
    BY <2>2, <1>0 DEF Moves, Completes, Onward, KeepsPurpose, Begins
  <2>3. QED
    BY <2>1, <2>2
<1>3. CASE op[t].state = "Idle" /\ Begins(t)
  <2>1. op'[t].after \subseteq Tasks
    BY <1>0 DEF Onward, FeOx!Operations
  <2>2. \A u \in op'[t].after : op'[u].state = "Done"
    BY <1>1, <1>3, <2>1 DEF Begins
  <2>3. op'[t].state = "Queued" /\ op'[t].key \in Keys
    BY <1>3 DEF Begins
  <2>4. op'[t].kind = "write" =>
            /\ op'[t].value \in CacheValues /\ op'[t].value.data = t
            /\ op'[t].ttl # None => Lasts(op'[t].value, now' + op'[t].ttl * SECOND)
    BY <1>3 DEF Begins
  <2>5. QED
    BY <1>2, <2>2, <2>3, <2>4 DEF Known
<1>4. CASE KeepsPurpose(t)
  <2>1. op[t].after \subseteq Tasks /\ op[t].ttl \in Times
    BY <1>0 DEF FeOx!Operations
  <2>2. \A u \in op'[t].after : op'[u].state = "Done"
    <3>1. op'[t].after = op[t].after /\ \A u \in op[t].after : op[u].state = "Done"
      BY <1>4, <1>0 DEF KeepsPurpose, AllKnown, Known
    <3>2. QED
      BY <1>1, <2>1, <3>1
  <2>3. /\ op'[t].state = "Idle" => op'[t].kind = "read"
        /\ op'[t].state = "Found" => op'[t].kind = "remove"
    <3>1. op[t].state = "Idle" => op'[t].kind = "read"
      BY <1>4, <1>0 DEF KeepsPurpose, AllKnown, Known
    <3>2. QED
      BY <3>1, <1>0 DEF Onward
  <2>4. op'[t].state # "Idle" => op'[t].key \in Keys
    <3>1. CASE op[t].state # "Idle"
      BY <3>1, <1>4, <1>0 DEF KeepsPurpose, AllKnown, Known
    <3>2. CASE op[t].state = "Idle"
      BY <3>2, <1>0 DEF Onward, Begins
    <3>3. QED
      BY <3>1, <3>2
  <2>5. op'[t].kind = "write" =>
            /\ op'[t].value \in CacheValues /\ op'[t].value.data = t
            /\ op'[t].ttl # None => Lasts(op'[t].value, now' + op'[t].ttl * SECOND)
    <3> SUFFICES ASSUME op'[t].kind = "write"
                 PROVE  /\ op'[t].value \in CacheValues /\ op'[t].value.data = t
                        /\ op'[t].ttl # None => Lasts(op'[t].value, now' + op'[t].ttl * SECOND)
      OBVIOUS
    <3>1. /\ op'[t].value = op[t].value /\ op'[t].ttl = op[t].ttl
          /\ op[t].value \in CacheValues /\ op[t].value.data = t
          /\ op[t].ttl # None => Lasts(op[t].value, now + op[t].ttl * SECOND)
      BY <1>4, <1>0 DEF KeepsPurpose, AllKnown, Known
    <3>2. ASSUME op[t].ttl # None
          PROVE  Lasts(op[t].value, now' + op[t].ttl * SECOND)
      <4> DEFINE kept == op[t].ttl * SECOND
      <4>1. kept \in Nat
        BY <2>1, <3>2 DEF Times
      <4>2. Lasts(op[t].value, now + kept)
        BY <3>1, <3>2
      <4> HIDE DEF kept
      <4>3. op[t].value.expire \in Nat \cup {None} /\ now + kept \in Nat
        BY <3>1, <4>1, <1>0 DEF CacheValues, Times
      <4>4. Lasts(op[t].value, now' + kept)
        BY <4>1, <4>2, <4>3, <1>0 DEF Lasts
      <4>5. QED
        BY <4>4 DEF kept
    <3>3. QED
      BY <3>1, <3>2
  <2>6. QED
    BY <1>2, <2>2, <2>3, <2>4, <2>5 DEF Known
<1>5. QED
  BY <1>3, <1>4, <1>0 DEF Onward

(* What is told of an operation that is done stays told. *)
LEMMA DoneStays ==
    ASSUME FInv, Moves, NEW w \in Tasks, op[w].state = "Done"
    PROVE  /\ op'[w].state = "Done" /\ op'[w].kind = op[w].kind /\ op'[w].key = op[w].key
           /\ op'[w].after = op[w].after /\ op'[w].value = op[w].value /\ op'[w].at = op[w].at
  BY DEF Moves, Onward, KeepsPurpose, KeepsAnswer

LEMMA OverStays ==
    ASSUME FInv, Moves, NEW w \in Tasks, op[w].state = "Done", NEW n \in Nat, NEW m \in Nat,
           n <= m, op[w].kind = "write",
           FeOx!TimeIsUp(w, n) \/ \E u \in Tasks : FeOx!Supersedes(u, w, n)
    PROVE  (FeOx!TimeIsUp(w, m) \/ \E u \in Tasks : FeOx!Supersedes(u, w, m))'
<1> USE FeOxFacts
<1>1. ASSUME NEW u \in Tasks, op[u].kind = "write", op'[u].value = op[u].value, FeOx!TimeIsUp(u, n)
      PROVE  op'[u].value.expire # None /\ op'[u].value.expire < m + SECOND
  <2>1. op[u].value.expire \in Nat \cup {None}
    BY <1>1 DEF FInv, AllKnown, Known, CacheValues, Times
  <2>2. QED
    BY <1>1, <2>1 DEF FeOx!TimeIsUp
<1>2. CASE FeOx!TimeIsUp(w, n)
  BY <1>1, <1>2, DoneStays DEF FeOx!TimeIsUp
<1>3. ASSUME NEW u \in Tasks, FeOx!Supersedes(u, w, n)
      PROVE  FeOx!Supersedes(u, w, m)'
  <2>1. op[u].state # "Idle" /\ op[u].kind \in {"remove", "write"}
    BY <1>3 DEF FeOx!Supersedes, FInv, AllKnown, Known
  <2>2. KeepsPurpose(u)
    BY <2>1 DEF Moves, Onward
  <2>3. op[u].kind = "write" => (FeOx!TimeIsUp(u, n) => FeOx!TimeIsUp(u, m)')
    BY <1>1, <2>2 DEF FeOx!TimeIsUp, KeepsPurpose
  <2>4. QED
    BY <1>3, <2>2, <2>3, DoneStays DEF FeOx!Supersedes, KeepsPurpose
<1>4. QED
  BY <1>2, <1>3

LEMMA MadeStays == ASSUME FInv, Moves PROVE Made(store)' /\ Made(file)'
<1> USE FeOxFacts
<1>0. /\ AllKnown /\ op \in [Tasks -> FeOx!Operations] /\ Made(store) /\ Made(file)
  BY FeOxTypes DEF FInv
<1> DEFINE Good(entry, k) ==
      LET t == entry.value.data IN
      /\ t \in Tasks /\ op'[t].state = "Done" /\ op'[t].kind = "write" /\ op'[t].key = k
      /\ op'[t].value = entry.value
      /\ Lasts(entry.value, entry.until)
<1>1. ASSUME NEW k \in Keys, store[k] # None PROVE Good(store[k], k)
  <2> DEFINE t == store[k].value.data
  <2>1. /\ t \in Tasks /\ op[t].state = "Done" /\ op[t].kind = "write" /\ op[t].key = k
        /\ op[t].value = store[k].value /\ Lasts(store[k].value, store[k].until)
    BY <1>0, <1>1 DEF Made
  <2> HIDE DEF t
  <2>2. /\ op'[t].state = "Done" /\ op'[t].kind = "write" /\ op'[t].key = k
        /\ op'[t].value = store[k].value
    BY <2>1, DoneStays
  <2>3. QED
    BY <2>1, <2>2 DEF t
<1>2. ASSUME NEW k \in Keys, file[k] # None PROVE Good(file[k], k)
  <2> DEFINE t == file[k].value.data
  <2>1. /\ t \in Tasks /\ op[t].state = "Done" /\ op[t].kind = "write" /\ op[t].key = k
        /\ op[t].value = file[k].value /\ Lasts(file[k].value, file[k].until)
    BY <1>0, <1>2 DEF Made
  <2> HIDE DEF t
  <2>2. /\ op'[t].state = "Done" /\ op'[t].kind = "write" /\ op'[t].key = k
        /\ op'[t].value = file[k].value
    BY <2>1, DoneStays
  <2>3. QED
    BY <2>1, <2>2 DEF t
<1>3. ASSUME NEW k \in Keys, Replaced(k) PROVE Good(store'[k], k)
  <2>1. PICK t \in Tasks :
          /\ op[t].state = "Queued" /\ op[t].kind = "write" /\ op[t].key = k
          /\ op'[t].state = "Done"
          /\ store'[k] = [value |-> op[t].value, until |-> FeOx!Until(t)]
    BY <1>3 DEF Replaced
  <2>2. store'[k].value = op[t].value /\ store'[k].until = FeOx!Until(t)
    BY <2>1
  <2>3. op[t].value.data = t /\ Lasts(op[t].value, FeOx!Until(t))
    <3>1. op[t].value.data = t /\ (op[t].ttl # None => Lasts(op[t].value, now + op[t].ttl * SECOND))
      BY <2>1, <1>0 DEF AllKnown, Known
    <3>2. CASE op[t].ttl = None
      BY <3>1, <3>2 DEF FeOx!Until, Lasts
    <3>3. CASE op[t].ttl # None
      BY <3>1, <3>3 DEF FeOx!Until
    <3>4. QED
      BY <3>2, <3>3, <3>1
  <2>4. KeepsPurpose(t)
    BY <2>1 DEF Moves, Onward
  <2>5. QED
    BY <2>1, <2>2, <2>3, <2>4 DEF KeepsPurpose
<1> HIDE DEF Good
<1>4. ASSUME NEW k \in Keys, store'[k] # None PROVE Good(store'[k], k)
  BY <1>1, <1>2, <1>3, <1>4 DEF Moves, Dropped, Restarted
<1>5. ASSUME NEW k \in Keys, file'[k] # None PROVE Good(file'[k], k)
  BY <1>1, <1>2, <1>5 DEF Moves, Persisted
<1>6. QED
  BY <1>4, <1>5 DEF Good, Made

(* An entry that a read does not find has no time left to count on. *)
LEMMA GoneIsOver ==
    ASSUME FInv, NEW w \in Tasks, op[w].state = "Done", op[w].kind = "write", Holds(w, store),
           LET k == op[w].key IN
           ~(FeOx!Alive(k) /\ ~(store[k].value.expire # None /\ store[k].value.expire < now))
    PROVE  Over(w)
<1> USE FeOxFacts
<1>0. /\ AllKnown /\ Made(store) /\ now \in Nat /\ op \in [Tasks -> FeOx!Operations]
      /\ store \in [Keys -> FeOx!Entries \cup {None}]
  BY FeOxTypes DEF FInv
<1> DEFINE k == op[w].key
           d == store[k].value.data
<1>1. k \in Keys /\ store[k] # None /\ (d = w \/ d \notin op[w].after)
  BY <1>0 DEF AllKnown, Known, Holds
<1>2. /\ d \in Tasks /\ op[d].kind = "write" /\ op[d].key = k /\ op[d].value = store[k].value
      /\ Lasts(store[k].value, store[k].until)
  BY <1>0, <1>1 DEF Made
<1>3. store[k].until \in Nat \cup {None} /\ store[k].value.expire \in Nat \cup {None}
  BY <1>0, <1>1 DEF FeOx!Entries, CacheValues, Times
<1>4. store[k].value.expire # None /\ store[k].value.expire < now + SECOND
  <2>1. CASE ~FeOx!Alive(k)
    BY <2>1, <1>0, <1>1, <1>2, <1>3 DEF FeOx!Alive, Lasts
  <2>2. CASE store[k].value.expire # None /\ store[k].value.expire < now
    BY <2>2, <1>0, <1>3
  <2>3. QED
    BY <2>1, <2>2
<1>5. FeOx!TimeIsUp(d, now)
  BY <1>2, <1>4 DEF FeOx!TimeIsUp
<1>6. CASE d = w
  BY <1>5, <1>6 DEF Over
<1>7. CASE d # w
  BY <1>1, <1>2, <1>5, <1>7 DEF Over, FeOx!Supersedes
<1>8. QED
  BY <1>6, <1>7

LEMMA HoldsStays ==
    ASSUME FInv, Moves, NEW w \in Tasks, op[w].state = "Done", op[w].kind = "write", w \notin lost',
           Holds(w, store) \/ Over(w), op[w].stored = "flushed" => Holds(w, file) \/ Over(w)
    PROVE  (Holds(w, store) \/ Over(w))'
<1> USE FeOxFacts
<1>0. /\ AllKnown /\ now \in Nat /\ now' \in Nat /\ now <= now' /\ op \in [Tasks -> FeOx!Operations]
  BY FeOxTypes DEF FInv, Moves, Onward
<1>1. Over(w) => Over(w)'
  BY <1>0, OverStays DEF Over
<1> DEFINE k == op[w].key
<1>2. k \in Keys /\ op'[w].key = k /\ op'[w].after = op[w].after /\ op[w].stored # "no"
      /\ \A u \in op[w].after : op[u].state = "Done"
  BY <1>0, DoneStays DEF AllKnown, Known
<1> SUFFICES ASSUME ~Over(w) PROVE Holds(w, store)' \/ Over(w)'
  BY <1>1
<1>3. CASE store'[k] = store[k]
  BY <1>2, <1>3 DEF Holds
<1>4. CASE Replaced(k)
  <2>1. PICK t \in Tasks :
          /\ op[t].state = "Queued" /\ op[t].kind = "write"
          /\ store'[k] = [value |-> op[t].value, until |-> FeOx!Until(t)]
    BY <1>4 DEF Replaced
  <2>2. store'[k].value = op[t].value /\ op[t].value.data = t
    BY <2>1, <1>0 DEF AllKnown, Known
  <2>3. store'[k] # None
    BY <2>1, EntryMade
  <2>4. t \notin op[w].after
    BY <2>1, <1>2
  <2>5. QED
    BY <1>2, <2>2, <2>3, <2>4 DEF Holds
<1>5. CASE Dropped(k)
  <2>1. CASE ~FeOx!Alive(k)
    BY <2>1, GoneIsOver
  <2>2. ASSUME NEW t \in Tasks, op[t].state = "Found", op[t].key = k PROVE FALSE
    <3>1. op[t].kind = "remove" /\ t # w /\ t \notin op[w].after
      BY <2>2, <1>0, <1>2 DEF AllKnown, Known
    <3>2. QED
      BY <2>2, <3>1 DEF Over, FeOx!Supersedes
  <2>3. QED
    BY <1>5, <2>1, <2>2 DEF Dropped
<1>6. CASE Restarted(k)
  <2>1. op[w].stored # "unflushed"
    BY <1>6 DEF Restarted
  <2>2. op[w].stored = "flushed"
    BY <2>1, <1>0, <1>2 DEF FeOx!Operations
  <2>3. Holds(w, file)
    BY <2>2
  <2>4. QED
    BY <2>3, <1>2, <1>6 DEF Holds, Restarted
<1>7. QED
  BY <1>2, <1>3, <1>4, <1>5, <1>6 DEF Moves

LEMMA KeptStays == ASSUME FInv, Moves PROVE Kept'
<1> USE FeOxFacts
<1>0. /\ AllKnown /\ Kept /\ now \in Nat /\ now' \in Nat /\ now <= now' /\ lost \subseteq lost'
      /\ op \in [Tasks -> FeOx!Operations] /\ op' \in [Tasks -> FeOx!Operations]
  BY FeOxTypes DEF FInv, Moves, Onward
<1> SUFFICES ASSUME NEW w \in Tasks, op'[w].state = "Done", op'[w].kind = "write", w \notin lost'
             PROVE  /\ (Holds(w, store) \/ Over(w))'
                    /\ op'[w].stored = "flushed" => (Holds(w, file) \/ Over(w))'
  BY DEF Kept, Wrote
<1>1. CASE op[w].state = "Done"
  <2>1. op[w].kind = "write" /\ w \notin lost
    BY <1>0, <1>1, DoneStays
  <2>2. /\ Holds(w, store) \/ Over(w)
        /\ op[w].stored = "flushed" => Holds(w, file) \/ Over(w)
    BY <1>0, <1>1, <2>1 DEF Kept, Wrote
  <2>3. (Holds(w, store) \/ Over(w))'
    BY <1>1, <2>1, <2>2, HoldsStays
  <2>4. Over(w) => Over(w)'
    BY <1>0, <1>1, <2>1, OverStays DEF Over
  <2>5. ASSUME op'[w].stored = "flushed", ~Over(w) PROVE Holds(w, file)'
    <3>1. op[w].key \in Keys /\ op'[w].key = op[w].key /\ op'[w].after = op[w].after
      BY <1>0, <1>1, DoneStays DEF AllKnown, Known
    <3>2. Holds(w, store)
      BY <2>2, <2>5
    <3>3. op[w].stored = "flushed" \/ file' = store
      BY <2>5 DEF Moves, Persisted
    <3>4. CASE file'[op[w].key] = store[op[w].key]
      BY <3>1, <3>2, <3>4 DEF Holds
    <3>5. CASE op[w].stored = "flushed" /\ file'[op[w].key] = file[op[w].key]
      BY <3>1, <2>2, <2>5, <3>5 DEF Holds
    <3>6. QED
      BY <3>1, <3>3, <3>4, <3>5 DEF Moves, Persisted
  <2>6. QED
    BY <2>3, <2>4, <2>5
<1>2. CASE op[w].state # "Done"
  <2>1. Completes(w)
    BY <1>2 DEF Moves
  <2>2. KeepsPurpose(w)
    BY DEF Moves, Onward, Begins
  <2>3. /\ op[w].kind = "write" /\ op'[w].stored = "unflushed" /\ op'[w].key = op[w].key
        /\ store'[op[w].key] # None /\ store'[op[w].key].value.data = w
    BY <2>1, <2>2 DEF KeepsPurpose, Completes
  <2>4. QED
    BY <2>3 DEF Holds
<1>3. QED
  BY <1>1, <1>2

LEMMA LatestStays == ASSUME FInv, Moves PROVE Latest'
<1> USE FeOxFacts
<1>0. /\ AllKnown /\ Latest /\ now \in Nat /\ now' \in Nat /\ now <= now'
      /\ op \in [Tasks -> FeOx!Operations] /\ op' \in [Tasks -> FeOx!Operations]
      /\ store \in [Keys -> FeOx!Entries \cup {None}]
  BY FeOxTypes DEF FInv, Moves, Onward
<1> SUFFICES ASSUME restarts' = 0, NEW k \in Keys, FeOx!Alive(k)',
                    NEW u \in Tasks, op'[u].state = "Done", op'[u].key = k, op'[u].kind # "read"
             PROVE  store'[k].value.data \notin op'[u].after
  BY DEF Latest
<1>1. restarts = 0
  BY DEF Moves, Onward
<1>2. \A x \in op[u].after : op[x].state = "Done"
  BY <1>0 DEF AllKnown, Known
<1>3. op[u].state # "Idle" /\ op'[u].after = op[u].after /\ op'[u].key = op[u].key /\ op'[u].kind = op[u].kind
  BY DEF Moves, Onward, Begins, KeepsPurpose
<1>4. CASE op[u].state = "Done"
  <2>1. CASE store'[k] = store[k]
    <3>1. store[k] # None /\ (store[k].until = None \/ now' < store[k].until)
      BY <2>1 DEF FeOx!Alive
    <3>2. store[k].until \in Nat \cup {None}
      BY <3>1, <1>0 DEF FeOx!Entries, Times
    <3>3. FeOx!Alive(k)
      BY <3>1, <3>2, <1>0 DEF FeOx!Alive
    <3>4. QED
      BY <3>3, <2>1, <1>0, <1>1, <1>3, <1>4 DEF Latest
  <2>2. CASE Replaced(k)
    <3>1. PICK t \in Tasks :
            /\ op[t].state = "Queued" /\ op[t].kind = "write"
            /\ store'[k] = [value |-> op[t].value, until |-> FeOx!Until(t)]
      BY <2>2 DEF Replaced
    <3>2. store'[k].value = op[t].value /\ op[t].value.data = t
      BY <3>1, <1>0 DEF AllKnown, Known
    <3>3. QED
      BY <3>1, <3>2, <1>2, <1>3
  <2>3. ~Dropped(k)
    BY DEF Dropped, FeOx!Alive
  <2>4. ~Restarted(k)
    BY DEF Restarted
  <2>5. QED
    BY <2>1, <2>2, <2>3, <2>4 DEF Moves
<1>5. CASE op[u].state # "Done"
  <2>1. Completes(u)
    BY <1>5 DEF Moves
  <2>2. op[u].kind \in {"write", "remove"}
    BY <1>0, <1>3 DEF FeOx!Operations
  <2>3. op[u].kind # "remove"
    BY <2>1, <1>3 DEF Completes, FeOx!Alive
  <2>4. store'[k].value.data = u
    BY <2>1, <2>2, <2>3, <1>3 DEF Completes
  <2>5. QED
    BY <2>4, <1>2, <1>3, <1>5
<1>6. QED
  BY <1>4, <1>5

LEMMA ReadsTheLatestStays == ASSUME FInv, Moves PROVE FeOx!ReadsTheLatest'
<1> USE FeOxFacts
<1>0. /\ AllKnown /\ Latest /\ Made(store) /\ FeOx!ReadsTheLatest
      /\ op \in [Tasks -> FeOx!Operations] /\ op' \in [Tasks -> FeOx!Operations]
      /\ store \in [Keys -> FeOx!Entries \cup {None}] /\ now \in Nat
  BY FeOxTypes DEF FInv, Moves, Onward
<1> SUFFICES ASSUME NEW r \in Tasks, op'[r].state = "Done", op'[r].kind = "read",
                    op'[r].value # None, restarts' = 0
             PROVE  /\ op'[r].value.expire = None \/ op'[r].value.expire >= op'[r].at
                    /\ \A u \in op'[r].after : \A d :
                           d = op'[r].value.data => ~FeOx!Undoes(u, d)'
  BY DEF FeOx!ReadsTheLatest, FeOx!Done, FeOx!Undoes
<1>1. restarts = 0
  BY DEF Moves, Onward
<1>2. /\ op[r].state # "Idle" /\ op'[r].kind = op[r].kind /\ op'[r].key = op[r].key
      /\ op'[r].after = op[r].after
  BY DEF Moves, Onward, Begins, KeepsPurpose
<1>3. op[r].after \subseteq Tasks /\ \A u \in op[r].after : op[u].state = "Done"
  BY <1>0 DEF AllKnown, Known, FeOx!Operations
<1>4. ASSUME NEW u \in op[r].after, NEW d, FeOx!Undoes(u, d)'
      PROVE  FeOx!Undoes(u, d) /\ op[u].state = "Done" /\ u \in Tasks
  <2>1. u \in Tasks /\ op[u].state = "Done"
    BY <1>3
  <2>2. op'[u].kind = op[u].kind /\ op'[u].key = op[u].key /\ op'[u].after = op[u].after
    BY <2>1, DoneStays
  <2>3. d \in op[u].after
    BY <1>4, <2>2 DEF FeOx!Undoes
  <2>4. d \in Tasks /\ op[d].state = "Done"
    BY <2>1, <2>3, <1>0 DEF AllKnown, Known, FeOx!Operations
  <2>5. op'[d].key = op[d].key
    BY <2>4, DoneStays
  <2>6. QED
    BY <1>4, <2>1, <2>2, <2>3, <2>5 DEF FeOx!Undoes
<1>5. CASE op[r].state = "Done"
  <2>1. op'[r].value = op[r].value /\ op'[r].at = op[r].at
    BY <1>5, DoneStays
  <2>2. /\ op[r].value.expire = None \/ op[r].value.expire >= op[r].at
        /\ ~\E u \in op[r].after : FeOx!Undoes(u, op[r].value.data)
    BY <1>0, <1>1, <1>2, <1>5, <2>1 DEF FeOx!ReadsTheLatest, FeOx!Done
  <2>3. QED
    BY <1>2, <1>4, <2>1, <2>2
<1>6. CASE op[r].state # "Done"
  <2> DEFINE k == op[r].key
  <2>1. /\ op'[r].at = now
        /\ op'[r].value = store[k].value /\ FeOx!Alive(k)
        /\ ~(store[k].value.expire # None /\ store[k].value.expire < now)
    <3>1. Completes(r)
      BY <1>6 DEF Moves
    <3>2. QED
      BY <3>1, <1>2 DEF Completes
  <2>2. k \in Keys /\ store[k] # None
    BY <2>1, <1>0, <1>2 DEF AllKnown, Known, FeOx!Alive
  <2>3. store[k].value.expire \in Nat \cup {None}
    BY <2>2, <1>0 DEF FeOx!Entries, CacheValues, Times
  <2>4. op[store[k].value.data].key = k
    BY <2>2, <1>0 DEF Made
  <2>5. ASSUME NEW u \in op[r].after, NEW d, d = store[k].value.data, FeOx!Undoes(u, d)' PROVE FALSE
    <3>1. FeOx!Undoes(u, d) /\ op[u].state = "Done" /\ u \in Tasks
      BY <1>4, <2>5
    <3>2. op[u].key = k /\ op[u].kind # "read" /\ store[k].value.data \in op[u].after
      BY <3>1, <2>4, <2>5 DEF FeOx!Undoes
    <3>3. QED
      BY <3>1, <3>2, <2>1, <2>2, <1>0, <1>1 DEF Latest
  <2>6. QED
    BY <1>2, <2>1, <2>3, <2>5, <1>0
<1>7. QED
  BY <1>5, <1>6

LEMMA MissForAReasonStays == ASSUME FInv, Moves PROVE FeOx!MissForAReason'
<1> USE FeOxFacts
<1>0. /\ AllKnown /\ Kept /\ FeOx!MissForAReason /\ lost \subseteq lost'
      /\ op \in [Tasks -> FeOx!Operations] /\ op' \in [Tasks -> FeOx!Operations]
      /\ now \in Nat
  BY FeOxTypes DEF FInv, Moves, Onward
<1> SUFFICES ASSUME NEW r \in Tasks, op'[r].state = "Done", op'[r].kind = "read", op'[r].value = None,
                    NEW w \in op'[r].after, op'[w].state = "Done", op'[w].kind = "write",
                    op'[w].key = op'[r].key, w \notin lost'
             PROVE  \/ FeOx!TimeIsUp(w, op[r].at)'
                    \/ \E u \in Tasks : FeOx!Supersedes(u, w, op[r].at)'
  BY DEF FeOx!MissForAReason, FeOx!Done, FeOx!TimeIsUp, FeOx!Supersedes
<1>1. /\ op[r].state # "Idle" /\ op'[r].kind = op[r].kind /\ op'[r].key = op[r].key
      /\ op'[r].after = op[r].after
  BY DEF Moves, Onward, Begins, KeepsPurpose
<1>2. w \in Tasks /\ op[w].state = "Done"
  BY <1>0, <1>1 DEF AllKnown, Known, FeOx!Operations
<1>3. op[w].kind = "write" /\ op[w].key = op[r].key /\ w \notin lost /\ w \in op[r].after
  BY <1>0, <1>1, <1>2, DoneStays
<1>4. \E n \in Nat : /\ op'[r].at = n
                     /\ FeOx!TimeIsUp(w, n) \/ \E u \in Tasks : FeOx!Supersedes(u, w, n)
  <2>1. CASE op[r].state = "Done"
    <3>1. op'[r].value = op[r].value /\ op'[r].at = op[r].at
      BY <2>1, DoneStays
    <3>2. op[r].at \in Nat
      BY <1>0 DEF FeOx!Operations
    <3>3. FeOx!TimeIsUp(w, op[r].at) \/ \E u \in Tasks : FeOx!Supersedes(u, w, op[r].at)
      BY <1>0, <1>1, <1>2, <1>3, <2>1, <3>1 DEF FeOx!MissForAReason, FeOx!Done
    <3>4. QED
      BY <3>1, <3>2, <3>3
  <2>2. CASE op[r].state # "Done"
    <3> DEFINE k == op[r].key
    <3>1. Completes(r)
      BY <2>2 DEF Moves
    <3>2. op'[r].at = now
      BY <3>1, <1>1 DEF Completes
    <3>3. \/ ~(FeOx!Alive(k) /\ ~(store[k].value.expire # None /\ store[k].value.expire < now))
          \/ store[k].value = None
      BY <3>1, <1>1 DEF Completes
    <3>4. Over(w)
      <4>1. Holds(w, store) \/ Over(w)
        BY <1>0, <1>2, <1>3 DEF Kept, Wrote
      <4>2. ASSUME Holds(w, store)
            PROVE ~(FeOx!Alive(k) /\ ~(store[k].value.expire # None /\ store[k].value.expire < now))
        <5>1. k \in Keys /\ store[k] # None
          BY <4>2, <1>0, <1>1, <1>3 DEF Holds, AllKnown, Known
        <5>2. store[k].value # None
          BY <5>1, FeOxTypes DEF FeOx!Entries
        <5>3. QED
          BY <3>3, <5>2
      <4>3. QED
        BY <4>1, <4>2, <1>2, <1>3, GoneIsOver
    <3>5. QED
      BY <3>2, <3>4, <1>0 DEF Over
  <2>3. QED
    BY <2>1, <2>2
<1>5. PICK n \in Nat : /\ op'[r].at = n
                       /\ FeOx!TimeIsUp(w, n) \/ \E u \in Tasks : FeOx!Supersedes(u, w, n)
  BY <1>4
<1>6. (FeOx!TimeIsUp(w, n) \/ \E u \in Tasks : FeOx!Supersedes(u, w, n))'
  <2>1. n \in Nat /\ n <= n
    BY <1>5
  <2>2. op[w].kind = "write"
    BY <1>3
  <2>3. FeOx!TimeIsUp(w, n) \/ \E u \in Tasks : FeOx!Supersedes(u, w, n)
    BY <1>5
  <2>4. QED
    BY <1>2, <2>1, <2>2, <2>3, OverStays
<1>7. QED
  BY <1>5, <1>6 DEF FeOx!TimeIsUp, FeOx!Supersedes

LEMMA NextFInv == ASSUME FInv, FeOx!Next PROVE FInv'
<1>1. Moves
  BY FeOxMoves
<1>2. FeOx!TypeOK' /\ AllKnown' /\ (Made(store)' /\ Made(file)')
  BY <1>1, FeOxTypesStay, KnownStays, MadeStays
<1>3. Kept' /\ Latest' /\ FeOx!ReadsTheLatest' /\ FeOx!MissForAReason'
  BY <1>1, KeptStays, LatestStays, ReadsTheLatestStays, MissForAReasonStays
<1>4. QED
  BY <1>2, <1>3 DEF FInv

-----------------------------------------------------------------------------
(* Sums over finite sets, with no operator as a parameter: what is added up *)
(* is a function, and the induction is over a set of sets.                  *)

(* What holds of the empty set, and of a finite set if it holds of all its  *)
(* proper subsets, holds of every finite set.                               *)
LEMMA SetInduction ==
    ASSUME NEW S, IsFiniteSet(S), NEW F, {} \in F,
           \A T \in SUBSET S : T # {} /\ (\A U \in SUBSET T : U # T => U \in F) => T \in F
    PROVE  S \in F
<1> DEFINE Bad == (SUBSET S) \ F
<1> SUFFICES ASSUME S \notin F PROVE FALSE
  OBVIOUS
<1>1. IsWellFoundedOn(StrictSubsetOrdering(S), SUBSET S)
  BY FS_StrictSubsetOrderingWellFounded, FS_FiniteSubsetsOfFinite
<1>2. Bad \subseteq SUBSET S /\ Bad # {}
  OBVIOUS
<1> HIDE DEF Bad
<1>3. PICK T \in Bad : \A U \in Bad : ~(<<U, T>> \in StrictSubsetOrdering(S))
  BY <1>1, <1>2, WFMin
<1>4. \A U \in Bad : ~(U \subseteq T /\ U # T)
  BY <1>2, <1>3 DEF StrictSubsetOrdering
<1>5. QED
  BY <1>4 DEF Bad

(* Sums over the subsets of S, as MapThenSumSet makes them. *)
Some(S) == CHOOSE x \in S : TRUE
Sums(sum, w, S) ==
    sum = [T \in SUBSET S |-> IF T = {} THEN 0 ELSE w[Some(T)] + sum[T \ {Some(T)}]]

SumOf(w, S) == (CHOOSE sum : Sums(sum, w, S))[S]

LEMMA SomeIn == ASSUME NEW S, S # {} PROVE Some(S) \in S
  BY DEF Some

LEMMA SumStep ==
    ASSUME NEW sum, NEW w, NEW S, Sums(sum, w, S), NEW T \in SUBSET S
    PROVE  sum[T] = IF T = {} THEN 0 ELSE w[Some(T)] + sum[T \ {Some(T)}]
  BY DEF Sums

LEMMA SumsAgree ==
    ASSUME NEW T, IsFiniteSet(T), NEW R, NEW S, T \subseteq R, T \subseteq S, NEW w,
           NEW a, Sums(a, w, R), NEW b, Sums(b, w, S)
    PROVE  a[T] = b[T]
<1> DEFINE F == {U \in SUBSET T : a[U] = b[U]}
<1>1. {} \in F
  BY SumStep
<1>2. ASSUME NEW U \in SUBSET T, U # {}, \A V \in SUBSET U : V # U => V \in F PROVE U \in F
  <2> DEFINE rest == U \ {Some(U)}
  <2>1. rest \in SUBSET U /\ rest # U
    BY <1>2, SomeIn
  <2>2. a[rest] = b[rest]
    BY <1>2, <2>1
  <2>3. a[U] = w[Some(U)] + a[rest] /\ b[U] = w[Some(U)] + b[rest]
    BY <1>2, SumStep
  <2>4. QED
    BY <2>2, <2>3
<1> HIDE DEF F
<1>3. T \in F
  BY <1>1, <1>2, SetInduction
<1>4. QED
  BY <1>3 DEF F

LEMMA SumsExist ==
    ASSUME NEW S, IsFiniteSet(S), NEW w
    PROVE  \E sum : Sums(sum, w, S)
<1> DEFINE F == {T \in SUBSET S : \E sum : Sums(sum, w, T)}
           of(T) == CHOOSE sum : Sums(sum, w, T)
<1>1. {} \in F
  <2> DEFINE s == [T \in SUBSET {} |-> 0]
  <2>1. Sums(s, w, {})
    BY DEF Sums
  <2>2. QED
    BY <2>1
<1>2. ASSUME NEW T \in SUBSET S, T # {}, \A U \in SUBSET T : U # T => U \in F PROVE T \in F
  <2> DEFINE last == T \ {Some(T)}
             sum == [U \in SUBSET T |-> IF U = T THEN w[Some(T)] + of(last)[last] ELSE of(U)[U]]
  <2>1. last \in SUBSET T /\ last # T
    BY <1>2, SomeIn
  <2>2. ASSUME NEW U \in SUBSET T, U # T PROVE Sums(of(U), w, U)
    BY <1>2, <2>2
  <2>3. ASSUME NEW U \in SUBSET T
        PROVE  sum[U] = IF U = {} THEN 0 ELSE w[Some(U)] + sum[U \ {Some(U)}]
    <3> DEFINE rest == U \ {Some(U)}
    <3>1. CASE U = T
      <4>1. sum[T] = w[Some(T)] + of(last)[last] /\ sum[last] = of(last)[last]
        BY <2>1
      <4>2. QED
        BY <1>2, <3>1, <4>1
    <3>2. CASE U # T /\ U = {}
      <4>1. sum[U] = of(U)[U] /\ Sums(of(U), w, U)
        BY <2>2, <3>2
      <4> HIDE DEF of, sum
      <4>2. of(U)[U] = 0
        BY <3>2, <4>1, SumStep
      <4>3. QED
        BY <3>2, <4>1, <4>2
    <3>3. CASE U # T /\ U # {}
      <4>1. rest \in SUBSET U /\ rest \in SUBSET T /\ rest # T
        BY <3>3, SomeIn
      <4>2. sum[U] = of(U)[U] /\ sum[rest] = of(rest)[rest]
        BY <3>3, <4>1
      <4>3. Sums(of(U), w, U) /\ Sums(of(rest), w, rest)
        BY <3>3, <4>1, <2>2
      <4> HIDE DEF of, sum
      <4>4. of(U)[U] = w[Some(U)] + of(U)[rest]
        BY <3>3, <4>3, SumStep
      <4>5. IsFiniteSet(rest)
        BY <4>1, FS_Subset
      <4> HIDE DEF rest
      <4>6. of(U)[rest] = of(rest)[rest]
        BY <4>1, <4>3, <4>5, SumsAgree
      <4>7. QED
        BY <3>3, <4>2, <4>4, <4>6 DEF rest
    <3>4. QED
      BY <3>1, <3>2, <3>3
  <2>4. sum = [U \in SUBSET T |-> sum[U]]
    OBVIOUS
  <2> HIDE DEF sum
  <2>5. Sums(sum, w, T)
    BY <2>3, <2>4 DEF Sums
  <2>6. QED
    BY <2>5
<1> HIDE DEF F
<1>3. S \in F
  BY <1>1, <1>2, SetInduction
<1>4. QED
  BY <1>3 DEF F

LEMMA SumIsSumOf ==
    ASSUME NEW S, IsFiniteSet(S), NEW w, NEW sum, Sums(sum, w, S), NEW T \in SUBSET S
    PROVE  sum[T] = SumOf(w, T)
<1>1. IsFiniteSet(T)
  BY FS_Subset
<1>2. Sums(CHOOSE s : Sums(s, w, T), w, T)
  BY <1>1, SumsExist
<1>3. sum[T] = (CHOOSE s : Sums(s, w, T))[T]
  BY <1>1, <1>2, SumsAgree
<1>4. QED
  BY <1>3 DEF SumOf

LEMMA SumOfStep ==
    ASSUME NEW S, IsFiniteSet(S), NEW w
    PROVE  SumOf(w, S) = IF S = {} THEN 0 ELSE w[Some(S)] + SumOf(w, S \ {Some(S)})
<1>1. PICK sum : Sums(sum, w, S)
  BY SumsExist
<1>2. \A T \in SUBSET S : sum[T] = SumOf(w, T)
  BY <1>1, SumIsSumOf
<1>3. sum[S] = IF S = {} THEN 0 ELSE w[Some(S)] + sum[S \ {Some(S)}]
  BY <1>1, SumStep
<1>4. QED
  BY <1>2, <1>3

LEMMA SumType ==
    ASSUME NEW S, IsFiniteSet(S), NEW w, \A x \in S : w[x] \in Nat
    PROVE  SumOf(w, S) \in Nat
<1> DEFINE F == {T \in SUBSET S : SumOf(w, T) \in Nat}
<1>1. {} \in F
  BY SumOfStep, FS_EmptySet
<1>2. ASSUME NEW T \in SUBSET S, T # {}, \A U \in SUBSET T : U # T => U \in F PROVE T \in F
  <2> DEFINE rest == T \ {Some(T)}
  <2>1. Some(T) \in T /\ rest \in SUBSET T /\ rest # T
    BY <1>2, SomeIn
  <2>2. IsFiniteSet(T)
    BY FS_Subset
  <2>3. SumOf(w, T) = w[Some(T)] + SumOf(w, rest)
    BY <1>2, <2>2, SumOfStep
  <2>4. w[Some(T)] \in Nat /\ SumOf(w, rest) \in Nat
    BY <1>2, <2>1
  <2>5. QED
    BY <2>3, <2>4
<1> HIDE DEF F
<1>3. S \in F
  BY <1>1, <1>2, SetInduction
<1>4. QED
  BY <1>3 DEF F

(* Any member may be the one to add last. *)
LEMMA SumWithout ==
    ASSUME NEW S, IsFiniteSet(S), NEW w, \A x \in S : w[x] \in Nat, NEW y \in S
    PROVE  SumOf(w, S) = w[y] + SumOf(w, S \ {y})
<1> DEFINE F == {T \in SUBSET S : \A x \in T : SumOf(w, T) = w[x] + SumOf(w, T \ {x})}
<1>1. {} \in F
  OBVIOUS
<1>2. ASSUME NEW T \in SUBSET S, T # {}, \A U \in SUBSET T : U # T => U \in F PROVE T \in F
  <2> SUFFICES ASSUME NEW x \in T PROVE SumOf(w, T) = w[x] + SumOf(w, T \ {x})
    OBVIOUS
  <2> DEFINE c == Some(T)
             both == (T \ {c}) \ {x}
  <2>1. c \in T /\ IsFiniteSet(T) /\ IsFiniteSet(T \ {x}) /\ IsFiniteSet(both)
    BY <1>2, SomeIn, FS_Subset
  <2>2. SumOf(w, T) = w[c] + SumOf(w, T \ {c})
    BY <1>2, <2>1, SumOfStep
  <2> HIDE DEF c
  <2>3. CASE c = x
    BY <2>2, <2>3
  <2>4. CASE c # x
    <3>1. /\ T \ {c} \in SUBSET T /\ T \ {c} # T /\ x \in T \ {c}
          /\ T \ {x} \in SUBSET T /\ T \ {x} # T /\ c \in T \ {x}
          /\ (T \ {x}) \ {c} = both
      BY <2>1, <2>4
    <3>2. SumOf(w, T \ {c}) = w[x] + SumOf(w, both)
      BY <1>2, <3>1
    <3>3. SumOf(w, T \ {x}) = w[c] + SumOf(w, both)
      BY <1>2, <3>1
    <3>4. w[c] \in Nat /\ w[x] \in Nat
      BY <2>1
    <3>5. \A z \in both : w[z] \in Nat
      OBVIOUS
    <3> HIDE DEF both
    <3>6. SumOf(w, both) \in Nat
      BY <2>1, <3>5, SumType
    <3>7. QED
      BY <2>2, <3>2, <3>3, <3>4, <3>6
  <2>5. QED
    BY <2>3, <2>4
<1> HIDE DEF F
<1>3. S \in F
  BY <1>1, <1>2, SetInduction
<1>4. QED
  BY <1>3 DEF F

(* Fewer members, each with no more, add up to no more. *)
LEMMA SumGrows ==
    ASSUME NEW S, IsFiniteSet(S), NEW w, NEW v,
           \A x \in S : v[x] \in Nat, NEW R \in SUBSET S,
           \A x \in R : w[x] \in Nat /\ w[x] <= v[x]
    PROVE  SumOf(w, R) <= SumOf(v, S)
<1> DEFINE F == {T \in SUBSET S : \A U \in SUBSET T :
                    (\A x \in U : w[x] \in Nat /\ w[x] <= v[x]) => SumOf(w, U) <= SumOf(v, T)}
<1>1. {} \in F
  <2>1. SumOf(w, {}) = 0 /\ SumOf(v, {}) = 0
    BY SumOfStep, FS_EmptySet
  <2>2. QED
    BY <2>1
<1>2. ASSUME NEW T \in SUBSET S, T # {}, \A U \in SUBSET T : U # T => U \in F PROVE T \in F
  <2> SUFFICES ASSUME NEW U \in SUBSET T, \A x \in U : w[x] \in Nat /\ w[x] <= v[x]
               PROVE  SumOf(w, U) <= SumOf(v, T)
    OBVIOUS
  <2> DEFINE c == Some(T)
  <2>1. c \in T /\ IsFiniteSet(T) /\ IsFiniteSet(T \ {c}) /\ IsFiniteSet(U) /\ IsFiniteSet(U \ {c})
    BY <1>2, SomeIn, FS_Subset
  <2> HIDE DEF c
  <2>2. SumOf(v, T) = v[c] + SumOf(v, T \ {c})
    BY <2>1, SumWithout
  <2>3. v[c] \in Nat /\ SumOf(v, T \ {c}) \in Nat
    BY <2>1, SumType
  <2>4. SumOf(w, U \ {c}) \in Nat
    BY <2>1, SumType
  <2>5. T \ {c} \in F /\ U \ {c} \in SUBSET (T \ {c})
    BY <1>2, <2>1
  <2>6. SumOf(w, U \ {c}) <= SumOf(v, T \ {c})
    BY <2>5
  <2>7. CASE c \in U
    <3>1. SumOf(w, U) = w[c] + SumOf(w, U \ {c}) /\ w[c] \in Nat /\ w[c] <= v[c]
      BY <2>1, <2>7, SumWithout
    <3>2. QED
      BY <2>2, <2>3, <2>4, <2>6, <3>1
  <2>8. CASE c \notin U
    <3>1. U \ {c} = U
      BY <2>8
    <3>2. QED
      BY <2>2, <2>3, <2>4, <2>6, <3>1
  <2>9. QED
    BY <2>7, <2>8
<1> HIDE DEF F
<1>3. S \in F
  BY <1>1, <1>2, SetInduction
<1>4. QED
  BY <1>3 DEF F

LEMMA SumOfOnes ==
    ASSUME NEW S, IsFiniteSet(S), NEW w, \A x \in S : w[x] = 1
    PROVE  SumOf(w, S) = Cardinality(S)
<1> DEFINE F == {T \in SUBSET S : SumOf(w, T) = Cardinality(T)}
<1>1. {} \in F
  BY SumOfStep, FS_EmptySet
<1>2. ASSUME NEW T \in SUBSET S, T # {}, \A U \in SUBSET T : U # T => U \in F PROVE T \in F
  <2> DEFINE c == Some(T)
  <2>1. c \in T /\ IsFiniteSet(T)
    BY <1>2, SomeIn, FS_Subset
  <2>2. SumOf(w, T) = w[c] + SumOf(w, T \ {c})
    BY <1>2, <2>1, SumOfStep
  <2> HIDE DEF c
  <2>3. SumOf(w, T \ {c}) = Cardinality(T \ {c})
    BY <1>2, <2>1
  <2>4. Cardinality(T \ {c}) = Cardinality(T) - 1 /\ Cardinality(T) \in Nat
    BY <2>1, FS_RemoveElement, FS_CardinalityType
  <2>5. QED
    BY <2>1, <2>2, <2>3, <2>4
<1> HIDE DEF F
<1>3. S \in F
  BY <1>1, <1>2, SetInduction
<1>4. QED
  BY <1>3 DEF F

-----------------------------------------------------------------------------
(* Moka.                                                                    *)

(* A key is counted once. *)
Distinct(s) == \A i, j \in 1..Len(s) : s[i] = s[j] => i = j

(* Moka does not keep a time that is before the value's own. *)
KeptLongEnough ==
    \A k \in MokaKeys : cache[k] # None /\ cache[k].until # None =>
        cache[k].expire # None /\ cache[k].expire <= cache[k].until

(* Of a key that is found Moka has counted the write or will. *)
Accounted ==
    \A k \in MokaKeys : cache[k] # None => k \in Moka!Range(order) \cup Moka!Range(pending)

(* What is counted fits but for the keys that are to be counted again. *)
Weights == [k \in MokaKeys |-> IF cache[k] = None THEN 0 ELSE Moka!Weight(k)]

Fitting ==
    SumOf(Weights, Moka!Range(order) \ Moka!Range(pending)) <= Moka!MaxCapacity

EvictsInOrder == Moka!IsLru => policy = "lru"

MInv == /\ Moka!TypeOK /\ Distinct(order) /\ KeptLongEnough
        /\ Accounted /\ Fitting /\ EvictsInOrder

LEMMA MokaFacts ==
    /\ None \notin Nat /\ MAX_TIME \in Nat /\ MAX_WRITES \in Nat /\ MAX_TASKS \in Nat
    /\ Kinds \subseteq {"entries", "bytes"} /\ Policies \subseteq {"lru", "tiny_lfu", None}
    /\ Expires \subseteq Moka!Times
    /\ None \notin Moka!Entries
  BY CacheValueAssumption, StoresAssumption DEF Moka!ConstantsOK

LEMMA RangeIs ==
    ASSUME NEW s \in Seq(MokaKeys)
    PROVE  Moka!Range(s) = {s[i] : i \in 1..Len(s)}
<1>1. DOMAIN s = 1..Len(s)
  OBVIOUS
<1>2. QED
  BY <1>1 DEF Moka!Range

LEMMA RangeInKeys == ASSUME NEW s \in Seq(MokaKeys) PROVE Moka!Range(s) \subseteq MokaKeys
<1>1. \A i \in 1..Len(s) : s[i] \in MokaKeys
  OBVIOUS
<1>2. QED
  BY <1>1, RangeIs

(* What the backend was built for and what the entries weigh. *)
LEMMA CapacityIs == Moka!MaxCapacity \in Nat
  BY StoresAssumption DEF Moka!ConstantsOK, Moka!MaxCapacity

LEMMA WeightFacts ==
    ASSUME NEW k \in MokaKeys, cache[k] \in Moka!Entries
    PROVE  /\ Moka!Weight(k) \in Nat /\ Moka!Memory(k) \in Nat
           /\ kind # "entries" /\ ~(Moka!Memory(k) > U32_MAX) => Moka!Weight(k) = Moka!Memory(k)
           /\ kind = "entries" => Moka!Weight(k) = 1
<1>1. OVERHEAD \in Nat /\ U32_MAX \in Nat /\ KeySize[k] \in Nat /\ cache[k].size \in Nat
  BY StoresAssumption DEF Moka!ConstantsOK, Moka!Entries
<1>2. Moka!Memory(k) \in Nat
  BY <1>1 DEF Moka!Memory, Moka!EntrySize, Moka!ValueSize
<1>3. Moka!Weight(k) = IF kind = "entries" THEN 1
                       ELSE IF Moka!Memory(k) > U32_MAX THEN U32_MAX ELSE Moka!Memory(k)
  BY DEF Moka!Weight, Moka!ByteWeigher, Moka!Memory
<1>4. QED
  BY <1>1, <1>2, <1>3

LEMMA WeightsFacts ==
    ASSUME cache \in [MokaKeys -> Moka!Entries \cup {None}], NEW k \in MokaKeys
    PROVE  /\ Weights[k] \in Nat
           /\ cache[k] # None => Weights[k] = Moka!Weight(k)
<1>1. CASE cache[k] = None
  BY <1>1 DEF Weights
<1>2. CASE cache[k] # None
  BY <1>2, WeightFacts DEF Weights
<1>3. QED
  BY <1>1, <1>2

LEMMA RangeFinite == ASSUME NEW s \in Seq(MokaKeys) PROVE IsFiniteSet(Moka!Range(s))
<1>1. s \in [1..Len(s) -> Moka!Range(s)]
  BY RangeIs
<1>2. s \in Surjection(1..Len(s), Moka!Range(s))
  BY <1>1, RangeIs DEF Surjection
<1>3. QED
  BY <1>2, FS_Interval, FS_Surjection

(* The sums of the model are those of the lemmas. *)
LEMMA WeightsAddUp ==
    ASSUME cache \in [MokaKeys -> Moka!Entries \cup {None}],
           NEW S \in SUBSET MokaKeys, IsFiniteSet(S), \A k \in S : cache[k] # None
    PROVE  Moka!MapThenSumSet(Moka!Weight, S) = SumOf(Weights, S)
<1> DEFINE IsSum(i) == i = [s \in SUBSET S |-> IF s = {} THEN 0
                              ELSE Moka!Weight(CHOOSE x \in s : TRUE) + i[s \ {CHOOSE x \in s : TRUE}]]
           sum == CHOOSE i : IsSum(i)
<1>1. PICK i : Sums(i, Weights, S)
  BY SumsExist
<1>2. \A s \in SUBSET S : s # {} => Weights[CHOOSE x \in s : TRUE] = Moka!Weight(CHOOSE x \in s : TRUE)
  BY WeightsFacts
<1>3. IsSum(i)
  BY <1>1, <1>2 DEF Sums, Some
<1>4. IsSum(sum)
  BY <1>3
<1>5. Moka!MapThenSumSet(Moka!Weight, S) = sum[S]
  BY DEF Moka!MapThenSumSet, Moka!MapThenFoldSet
<1>6. Sums(sum, Weights, S)
  <2> HIDE DEF sum
  <2>1. QED
    BY <1>2, <1>4 DEF Sums, Some
<1> HIDE DEF sum
<1>7. QED
  BY <1>5, <1>6, SumIsSumOf

LEMMA MemoryAddsUp ==
    ASSUME NEW w, NEW S, IsFiniteSet(S), \A k \in S : w[k] = Moka!Memory(k)
    PROVE  Moka!MapThenSumSet(Moka!Memory, S) = SumOf(w, S)
<1> DEFINE IsSum(i) == i = [s \in SUBSET S |-> IF s = {} THEN 0
                              ELSE Moka!Memory(CHOOSE x \in s : TRUE) + i[s \ {CHOOSE x \in s : TRUE}]]
           sum == CHOOSE i : IsSum(i)
<1>1. PICK i : Sums(i, w, S)
  BY SumsExist
<1>2. IsSum(i)
  BY <1>1 DEF Sums, Some
<1>3. IsSum(sum)
  BY <1>2
<1>4. Moka!MapThenSumSet(Moka!Memory, S) = sum[S]
  BY DEF Moka!MapThenSumSet, Moka!MapThenFoldSet
<1>5. Sums(sum, w, S)
  <2> HIDE DEF sum
  <2>1. QED
    BY <1>3 DEF Sums, Some
<1> HIDE DEF sum
<1>6. QED
  BY <1>4, <1>5, SumIsSumOf

LEMMA FitsIs ==
    ASSUME cache \in [MokaKeys -> Moka!Entries \cup {None}],
           NEW keys \in Seq(MokaKeys), \A k \in Moka!Range(keys) : cache[k] # None
    PROVE  Moka!Fits(keys) <=> SumOf(Weights, Moka!Range(keys)) <= Moka!MaxCapacity
<1>1. Moka!Range(keys) \in SUBSET MokaKeys /\ IsFiniteSet(Moka!Range(keys))
  BY RangeIs, RangeFinite
<1>2. QED
  BY <1>1, WeightsAddUp DEF Moka!Fits

LEMMA WithoutFacts ==
    ASSUME NEW s \in Seq(MokaKeys), NEW k \in MokaKeys, Distinct(s)
    PROVE  /\ Moka!Without(s, k) \in Seq(MokaKeys)
           /\ Moka!Range(Moka!Without(s, k)) = Moka!Range(s) \ {k}
           /\ Distinct(Moka!Without(s, k))
<1> DEFINE w == Moka!Without(s, k)
<1>1. CASE \E i \in 1..Len(s) : s[i] = k
  <2>1. PICK i \in 1..Len(s) : s[i] = k /\ w = Moka!RemoveAt(s, i)
    BY <1>1, SMTT(30) DEF Moka!Without, Moka!Contains, Distinct
  <2>2. w = SubSeq(s, 1, i - 1) \o SubSeq(s, i + 1, Len(s))
    BY <2>1 DEF Moka!RemoveAt
  <2> HIDE DEF w
  <2>3. /\ w \in Seq(MokaKeys)
        /\ Len(w) = Len(s) - 1
        /\ \A j \in 1..Len(s)-1 : w[j] = IF j < i THEN s[j] ELSE s[j+1]
    <3> DEFINE a == SubSeq(s, 1, i - 1)
               b == SubSeq(s, i + 1, Len(s))
    <3>1. /\ a \in Seq(MokaKeys) /\ Len(a) = i - 1
          /\ \A j \in 1..i-1 : a[j] = s[j]
      BY <2>1
    <3>2. /\ b \in Seq(MokaKeys) /\ Len(b) = Len(s) - i
          /\ \A j \in 1..Len(s)-i : b[j] = s[i + j]
      BY <2>1
    <3>3. w = a \o b
      BY <2>2
    <3> HIDE DEF a, b
    <3>4. /\ w \in Seq(MokaKeys) /\ Len(w) = Len(a) + Len(b)
          /\ \A j \in 1..Len(a) + Len(b) :
                w[j] = IF j <= Len(a) THEN a[j] ELSE b[j - Len(a)]
      BY <3>1, <3>2, <3>3, ConcatProperties
    <3>5. ASSUME NEW j \in 1..Len(s)-1 PROVE w[j] = IF j < i THEN s[j] ELSE s[j+1]
      <4>1. CASE j < i
        <5>1. j \in 1..i-1 /\ j \in 1..Len(a) + Len(b) /\ j <= Len(a)
          BY <2>1, <3>1, <3>2, <4>1
        <5>2. QED
          BY <3>1, <3>4, <4>1, <5>1
      <4>2. CASE ~(j < i)
        <5>1. j - (i - 1) \in 1..Len(s)-i /\ i + (j - (i - 1)) = j + 1
          BY <2>1, <4>2
        <5>2. w[j] = b[j - (i - 1)]
          BY <2>1, <3>1, <3>2, <3>4, <4>2, SMTT(30)
        <5>3. QED
          BY <3>2, <4>2, <5>1, <5>2
      <4>3. QED
        BY <4>1, <4>2
    <3>6. Len(w) = Len(s) - 1
      BY <2>1, <3>1, <3>2, <3>4
    <3>7. QED
      BY <3>4, <3>5, <3>6
  <2>4. Moka!Range(w) = Moka!Range(s) \ {k}
    <3>1. ASSUME NEW j \in 1..Len(s)-1 PROVE \E l \in 1..Len(s) : w[j] = s[l] /\ s[l] # k
      BY <2>1, <2>3 DEF Distinct
    <3>2. ASSUME NEW j \in 1..Len(s), s[j] # k PROVE \E l \in 1..Len(s)-1 : w[l] = s[j]
      <4>1. CASE j < i
        BY <2>1, <2>3, <3>2, <4>1
      <4>2. CASE j > i
        <5>1. j - 1 \in 1..Len(s)-1 /\ w[j-1] = s[j]
          BY <2>1, <2>3, <3>2, <4>2
        <5>2. QED
          BY <5>1
      <4>3. QED
        BY <2>1, <3>2, <4>1, <4>2
    <3>3. QED
      <4>1. Moka!Range(w) = {w[j] : j \in 1..Len(s)-1} /\ Moka!Range(s) = {s[j] : j \in 1..Len(s)}
        BY <2>3, RangeIs
      <4>2. Moka!Range(w) \subseteq Moka!Range(s) \ {k}
        BY <3>1, <4>1
      <4>3. Moka!Range(s) \ {k} \subseteq Moka!Range(w)
        BY <3>2, <4>1
      <4>4. QED
        BY <4>2, <4>3
  <2>5. Distinct(w)
    <3> SUFFICES ASSUME NEW a \in 1..Len(s)-1, NEW b \in 1..Len(s)-1, w[a] = w[b] PROVE a = b
      BY <2>3 DEF Distinct
    <3>1. PICK x \in 1..Len(s) : w[a] = s[x] /\ x = IF a < i THEN a ELSE a + 1
      BY <2>3
    <3>2. PICK y \in 1..Len(s) : w[b] = s[y] /\ y = IF b < i THEN b ELSE b + 1
      BY <2>3
    <3>3. x = y
      BY <3>1, <3>2 DEF Distinct
    <3>4. QED
      BY <3>1, <3>2, <3>3, <2>1
  <2>6. QED
    BY <2>3, <2>4, <2>5 DEF w
<1>2. CASE ~\E i \in 1..Len(s) : s[i] = k
  BY <1>2 DEF Moka!Without, Moka!Contains, Moka!Range
<1>3. QED
  BY <1>1, <1>2

LEMMA AppendFacts ==
    ASSUME NEW s \in Seq(MokaKeys), NEW k \in MokaKeys, Distinct(s), k \notin Moka!Range(s)
    PROVE  /\ Append(s, k) \in Seq(MokaKeys)
           /\ Moka!Range(Append(s, k)) = Moka!Range(s) \cup {k}
           /\ Distinct(Append(s, k))
<1>1. /\ Append(s, k) \in Seq(MokaKeys) /\ Len(Append(s, k)) = Len(s) + 1
      /\ \A i \in 1..Len(s) : Append(s, k)[i] = s[i]
      /\ Append(s, k)[Len(s) + 1] = k
  OBVIOUS
<1>2. \A i \in 1..Len(s) : s[i] # k
  BY DEF Moka!Range
<1>3. Distinct(Append(s, k))
  BY <1>1, <1>2 DEF Distinct
<1>4. Moka!Range(Append(s, k)) = Moka!Range(s) \cup {k}
  BY <1>1 DEF Moka!Range
<1>5. QED
  BY <1>1, <1>3, <1>4

(* A sequence cut in two. *)
LEMMA CutFacts ==
    ASSUME NEW s \in Seq(MokaKeys), Distinct(s), NEW n \in 0..Len(s)
    PROVE  LET rest == SubSeq(s, n + 1, Len(s)) IN
           /\ rest \in Seq(MokaKeys) /\ Distinct(rest)
           /\ Moka!Range(rest) = Moka!Range(s) \ Moka!Range(SubSeq(s, 1, n))
           /\ n = 0 => Moka!Range(SubSeq(s, 1, n)) = {}
           /\ SubSeq(s, 1, Len(s)) = s
<1> DEFINE rest == SubSeq(s, n + 1, Len(s))
           head == SubSeq(s, 1, n)
<1>1. /\ rest \in Seq(MokaKeys) /\ Len(rest) = Len(s) - n
      /\ \A i \in 1..Len(s) - n : rest[i] = s[n + i]
  OBVIOUS
<1>2. /\ Len(head) = n /\ head \in Seq(MokaKeys)
      /\ \A i \in 1..n : head[i] = s[i]
  OBVIOUS
<1>3. SubSeq(s, 1, Len(s)) = s
  OBVIOUS
<1> HIDE DEF rest, head
<1>4. Distinct(rest)
  <2> SUFFICES ASSUME NEW a \in 1..Len(s) - n, NEW b \in 1..Len(s) - n, rest[a] = rest[b] PROVE a = b
    BY <1>1 DEF Distinct
  <2>1. n + a \in 1..Len(s) /\ n + b \in 1..Len(s) /\ s[n + a] = s[n + b]
    BY <1>1
  <2>2. n + a = n + b
    BY <2>1 DEF Distinct
  <2>3. QED
    BY <2>2
<1>5. \A i \in 1..Len(s) - n : rest[i] \in Moka!Range(s)
  BY <1>1 DEF Moka!Range
<1>6. ASSUME NEW i \in 1..Len(s) - n, NEW j \in 1..n PROVE rest[i] # head[j]
  <2>1. n + i \in 1..Len(s) /\ j \in 1..Len(s) /\ n + i # j
    OBVIOUS
  <2>2. QED
    BY <2>1, <1>1, <1>2 DEF Distinct
<1>7. /\ Moka!Range(rest) = {rest[i] : i \in 1..Len(s) - n}
      /\ Moka!Range(head) = {head[i] : i \in 1..n}
  BY <1>1, <1>2, RangeIs
<1>8. Moka!Range(rest) \subseteq Moka!Range(s) \ Moka!Range(head)
  BY <1>5, <1>6, <1>7
<1>9. n = 0 => Moka!Range(head) = {}
  BY <1>7
<1>10. ASSUME NEW j \in 1..Len(s) PROVE s[j] \in Moka!Range(head) \cup Moka!Range(rest)
  <2>1. CASE j <= n
    <3>1. j \in 1..n /\ head[j] = s[j]
      BY <1>2, <2>1
    <3>2. QED
      BY <1>7, <3>1
  <2>2. CASE j > n
    <3>1. j - n \in 1..Len(s) - n /\ n + (j - n) = j
      BY <2>2
    <3>2. rest[j - n] = s[j]
      BY <1>1, <3>1
    <3>3. QED
      BY <1>7, <3>1, <3>2
  <2>3. QED
    BY <2>1, <2>2
<1>11. Moka!Range(s) \subseteq Moka!Range(head) \cup Moka!Range(rest)
  BY <1>10, RangeIs
<1>12. QED
  BY <1>1, <1>3, <1>4, <1>8, <1>9, <1>11 DEF rest, head

LEMMA InitMInv == Moka!Init => MInv
<1> SUFFICES ASSUME Moka!Init PROVE MInv
  OBVIOUS
<1> USE MokaFacts
<1>1. order = <<>> /\ pending = <<>> /\ \A k \in MokaKeys : cache[k] = None
  BY DEF Moka!Init
<1>2. kind \in {"entries", "bytes"} /\ given \in Policies /\ policy \in {"lru", "tiny_lfu"}
  BY DEF Moka!Init, Moka!EvictionPolicy
<1>3. cache \in [MokaKeys -> Moka!Entries \cup {None}]
  BY DEF Moka!Init
<1>4. now \in 0..MAX_TIME /\ due \in 0..MAX_TASKS /\ writes \in 0..MAX_WRITES
  BY DEF Moka!Init
<1>5. order \in Seq(MokaKeys) /\ pending \in Seq(MokaKeys) /\ Moka!Range(order) = {} /\ Distinct(order)
  BY <1>1 DEF Moka!Range, Distinct
<1>6. Moka!TypeOK /\ Distinct(order) /\ KeptLongEnough /\ Accounted
  BY <1>1, <1>2, <1>3, <1>4, <1>5 DEF Moka!TypeOK, KeptLongEnough, Accounted
<1>7. Fitting
  <2>1. SumOf(Weights, {}) = 0
    BY SumOfStep, FS_EmptySet
  <2>2. Moka!Range(order) \ Moka!Range(pending) = {}
    BY <1>5
  <2>3. QED
    BY <2>1, <2>2, CapacityIs DEF Fitting
<1>8. EvictsInOrder
  BY StoresAssumption DEF Moka!ConstantsOK, Moka!Init, Moka!EvictionPolicy, EvictsInOrder, Moka!IsLru
<1>9. QED
  BY <1>6, <1>7, <1>8 DEF MInv

LEMMA MokaTypes ==
    ASSUME MInv
    PROVE  /\ kind \in {"entries", "bytes"} /\ given \in Policies /\ policy \in {"lru", "tiny_lfu"}
           /\ cache \in [MokaKeys -> Moka!Entries \cup {None}]
           /\ order \in Seq(MokaKeys) /\ pending \in Seq(MokaKeys) /\ Distinct(order)
           /\ now \in 0..MAX_TIME /\ due \in 0..MAX_TASKS /\ writes \in 0..MAX_WRITES
           /\ \A k \in Moka!Range(order) : cache[k] # None
           /\ KeptLongEnough /\ Accounted /\ Fitting /\ EvictsInOrder
  BY DEF MInv, Moka!TypeOK

(* What a step leaves of the counted keys and of what they have. *)
Counted ==
    /\ order' \in Seq(MokaKeys) /\ Distinct(order)' /\ \A k \in Moka!Range(order') : cache'[k] # None
    /\ cache' \in [MokaKeys -> Moka!Entries \cup {None}]
    /\ KeptLongEnough'

LEMMA KeepCounts ==
    ASSUME MInv, NEW keys \in Seq(MokaKeys), NEW dropped, Distinct(keys),
           Moka!Range(keys) \cap dropped = {}, \A k \in Moka!Range(keys) : cache[k] # None,
           Moka!Keep(keys, dropped)
    PROVE  Counted
<1> USE MokaFacts
<1>0. cache \in [MokaKeys -> Moka!Entries \cup {None}] /\ KeptLongEnough
  BY MokaTypes
<1>1. order' = keys /\ cache' = [k \in MokaKeys |-> IF k \in dropped THEN None ELSE cache[k]]
  BY DEF Moka!Keep
<1>2. Moka!Range(keys) \subseteq MokaKeys
  BY RangeIs
<1>3. cache' \in [MokaKeys -> Moka!Entries \cup {None}]
  BY <1>0, <1>1
<1>4. \A k \in Moka!Range(keys) : cache'[k] # None
  BY <1>1, <1>2
<1>5. KeptLongEnough'
  BY <1>0, <1>1 DEF KeptLongEnough
<1>6. QED
  BY <1>1, <1>3, <1>4, <1>5 DEF Counted, Distinct

LEMMA MakeRoomCounts ==
    ASSUME MInv, NEW keys \in Seq(MokaKeys), Distinct(keys),
           \A k \in Moka!Range(keys) : cache[k] # None, Moka!MakeRoom(keys)
    PROVE  /\ Counted
           /\ Moka!Fits(keys) => cache' = cache
<1>0. cache \in [MokaKeys -> Moka!Entries \cup {None}]
  BY MokaTypes
<1>1. PICK n \in 0..Len(keys) :
        /\ Moka!Evicted(n, keys)
        /\ Moka!Keep(SubSeq(keys, n + 1, Len(keys)), Moka!Range(SubSeq(keys, 1, n)))
  BY DEF Moka!MakeRoom
<1> DEFINE rest == SubSeq(keys, n + 1, Len(keys))
           head == SubSeq(keys, 1, n)
<1>2. /\ rest \in Seq(MokaKeys) /\ Distinct(rest)
      /\ Moka!Range(rest) \subseteq Moka!Range(keys) \ Moka!Range(head)
      /\ n = 0 => Moka!Range(head) = {}
      /\ SubSeq(keys, 1, Len(keys)) = keys
  BY CutFacts
<1>3. Moka!Keep(rest, Moka!Range(head))
  BY <1>1
<1> HIDE DEF rest, head
<1>4. Counted
  BY <1>2, <1>3, KeepCounts
<1>5. ASSUME Moka!Fits(keys) PROVE cache' = cache
  <2>1. n = 0
    <3> SUFFICES ASSUME n # 0 PROVE FALSE
      OBVIOUS
    <3>1. 0 \in 0..(n - 1)
      OBVIOUS
    <3>2. ~Moka!Fits(SubSeq(keys, 0 + 1, Len(keys)))
      BY <1>1, <3>1 DEF Moka!Evicted
    <3>3. 0 + 1 = 1
      OBVIOUS
    <3>4. QED
      BY <1>2, <1>5, <3>2, <3>3
  <2>2. QED
    BY <2>1, <1>0, <1>2, <1>3 DEF Moka!Keep
<1>6. QED
  BY <1>4, <1>5

LEMMA WithoutCounts ==
    ASSUME MInv, NEW k \in MokaKeys, Moka!Keep(Moka!Without(order, k), {k})
    PROVE  Counted
<1>1. order \in Seq(MokaKeys) /\ Distinct(order) /\ \A j \in Moka!Range(order) : cache[j] # None
  BY MokaTypes
<1>2. /\ Moka!Without(order, k) \in Seq(MokaKeys)
      /\ Moka!Range(Moka!Without(order, k)) = Moka!Range(order) \ {k}
      /\ Distinct(Moka!Without(order, k))
  BY <1>1, WithoutFacts
<1>3. QED
  BY <1>1, <1>2, KeepCounts

(* The counted keys with one of them as the most recently used. *)
LEMMA LastFacts ==
    ASSUME MInv, NEW k \in MokaKeys, cache[k] # None
    PROVE  LET keys == Append(Moka!Without(order, k), k) IN
           /\ keys \in Seq(MokaKeys) /\ Distinct(keys)
           /\ \A j \in Moka!Range(keys) : cache[j] # None
<1>1. order \in Seq(MokaKeys) /\ Distinct(order) /\ \A j \in Moka!Range(order) : cache[j] # None
  BY MokaTypes
<1>2. /\ Moka!Without(order, k) \in Seq(MokaKeys)
      /\ Moka!Range(Moka!Without(order, k)) = Moka!Range(order) \ {k}
      /\ Distinct(Moka!Without(order, k))
  BY <1>1, WithoutFacts
<1>3. /\ Append(Moka!Without(order, k), k) \in Seq(MokaKeys)
      /\ Moka!Range(Append(Moka!Without(order, k), k)) = Moka!Range(Moka!Without(order, k)) \cup {k}
      /\ Distinct(Append(Moka!Without(order, k), k))
  BY <1>2, AppendFacts
<1>4. QED
  BY <1>1, <1>2, <1>3

LEMMA CountsStay == ASSUME MInv, Moka!Next PROVE Counted
<1> USE MokaFacts
<1>0. /\ cache \in [MokaKeys -> Moka!Entries \cup {None}]
      /\ order \in Seq(MokaKeys) /\ pending \in Seq(MokaKeys) /\ Distinct(order)
      /\ now \in 0..MAX_TIME
      /\ \A k \in Moka!Range(order) : cache[k] # None
      /\ KeptLongEnough
  BY MokaTypes
<1>1. ASSUME NEW k \in MokaKeys, Moka!Read(k) PROVE Counted
  <2>1. cache[k] # None /\ cache' = cache
        /\ (order' = Append(Moka!Without(order, k), k) \/ order' = order)
    BY <1>1 DEF Moka!Read
  <2>2. CASE order' = order
    BY <2>1, <2>2, <1>0 DEF Counted, Distinct, KeptLongEnough
  <2>3. CASE order' = Append(Moka!Without(order, k), k)
    <3>1. /\ order' \in Seq(MokaKeys) /\ Distinct(order')
          /\ \A j \in Moka!Range(order') : cache[j] # None
      BY <2>1, <2>3, LastFacts
    <3>2. QED
      BY <3>1, <2>1, <1>0 DEF Counted, Distinct, KeptLongEnough
  <2>4. QED
    BY <2>1, <2>2, <2>3
<1>2. ASSUME NEW k \in MokaKeys, Moka!Write(k) PROVE Counted
  <2>1. PICK size \in Sizes, expire \in Expires :
           Moka!WriteValue(k, [size |-> size, expire |-> expire])
    BY <1>2 DEF Moka!Write
  <2> DEFINE value == [size |-> size, expire |-> expire]
             until == Moka!Until(k, value)
             entry == [size |-> size, expire |-> expire, until |-> until]
  <2>2. cache' = [cache EXCEPT ![k] = entry] /\ order' = order
    BY <2>1 DEF Moka!WriteValue
  <2>3. /\ until \in Moka!Times /\ expire \in Moka!Times
        /\ until # None => expire # None /\ expire <= until
    BY <1>0 DEF Moka!Until, Moka!Times
  <2> HIDE DEF until
  <2>4. entry \in Moka!Entries /\ entry # None /\ entry.until = until /\ entry.expire = expire
    BY <2>3 DEF Moka!Entries
  <2> HIDE DEF entry
  <2>5. cache' \in [MokaKeys -> Moka!Entries \cup {None}]
    BY <2>2, <2>4, <1>0
  <2>6. \A j \in Moka!Range(order) : cache'[j] # None
    <3>1. Moka!Range(order) \subseteq MokaKeys
      BY <1>0, RangeIs
    <3>2. QED
      BY <2>2, <2>4, <1>0, <3>1
  <2>7. KeptLongEnough'
    BY <2>2, <2>3, <2>4, <1>0 DEF KeptLongEnough
  <2>8. QED
    BY <2>2, <2>5, <2>6, <2>7, <1>0 DEF Counted, Distinct
<1>3. ASSUME NEW k \in MokaKeys, Moka!Delete(k) PROVE Counted
  <2>1. /\ cache' = [cache EXCEPT ![k] = None] /\ order' = Moka!Without(order, k)
    BY <1>3 DEF Moka!Delete
  <2>2. cache' = [j \in MokaKeys |-> IF j \in {k} THEN None ELSE cache[j]]
    BY <2>1, <1>0
  <2>3. Moka!Keep(Moka!Without(order, k), {k})
    BY <2>1, <2>2 DEF Moka!Keep
  <2>4. QED
    BY <2>3, WithoutCounts
<1>4. ASSUME NEW k \in MokaKeys, Moka!Expire(k) PROVE Counted
  BY <1>4, WithoutCounts DEF Moka!Expire
<1>5. CASE Moka!CountWrite
  <2> DEFINE k == Head(pending)
  <2>1. k \in MokaKeys
    BY <1>0, <1>5 DEF Moka!CountWrite
  <2>2. CASE UNCHANGED <<order, cache>>
    BY <2>2, <1>0 DEF Counted, Distinct, KeptLongEnough
  <2>3. CASE Moka!Keep(Moka!Without(order, k), {k})
    BY <2>1, <2>3, WithoutCounts
  <2>4. CASE cache[k] # None /\ Moka!MakeRoom(Append(Moka!Without(order, k), k))
    BY <2>1, <2>4, LastFacts, MakeRoomCounts
  <2>5. CASE ~Moka!Contains(order, k) /\ Moka!Keep(order, {k})
    <3>1. Moka!Range(order) \cap {k} = {}
      BY <2>5, <1>0, RangeIs DEF Moka!Contains
    <3>2. QED
      BY <2>5, <3>1, <1>0, KeepCounts
  <2>6. QED
    BY <1>5, <2>2, <2>3, <2>4, <2>5 DEF Moka!CountWrite
<1>6. CASE Moka!RecordMetrics \/ Moka!Tick
  BY <1>0, <1>6 DEF Moka!RecordMetrics, Moka!Tick, Counted, Distinct, KeptLongEnough
<1>7. QED
  BY <1>1, <1>2, <1>3, <1>4, <1>5, <1>6 DEF Moka!Next

(* Fewer keys that are found as before weigh no more than before. *)
LEMMA FewerFit ==
    ASSUME MInv, cache' \in [MokaKeys -> Moka!Entries \cup {None}], kind' = kind,
           NEW S \in SUBSET MokaKeys, IsFiniteSet(S), SumOf(Weights, S) <= Moka!MaxCapacity,
           NEW R \in SUBSET S, \A k \in R : cache'[k] = cache[k]
    PROVE  SumOf(Weights', R) <= Moka!MaxCapacity'
<1>1. \A k \in S : Weights[k] \in Nat
  BY WeightsFacts, MokaTypes
<1>2. \A k \in R : Weights'[k] = Weights[k]
  BY DEF Weights, Moka!Weight
<1>3. IsFiniteSet(R)
  BY FS_Subset
<1>4. \A k \in R : Weights'[k] \in Nat /\ Weights'[k] <= Weights[k]
  BY <1>1, <1>2
<1> DEFINE w == Weights'
<1> HIDE DEF w
<1>5. SumOf(w, R) <= SumOf(Weights, S)
  BY <1>1, <1>4, SumGrows DEF w
<1>6. SumOf(w, R) \in Nat /\ SumOf(Weights, S) \in Nat
  BY <1>1, <1>3, <1>4, SumType DEF w
<1>7. Moka!MaxCapacity' = Moka!MaxCapacity /\ Moka!MaxCapacity \in Nat
  BY CapacityIs DEF Moka!MaxCapacity
<1>8. QED
  BY <1>5, <1>6, <1>7 DEF w

(* A step after which no more keys are counted and not written again. *)
LEMMA FewerCounted ==
    ASSUME MInv, cache' \in [MokaKeys -> Moka!Entries \cup {None}], kind' = kind,
           Moka!Range(order') \ Moka!Range(pending') \subseteq Moka!Range(order) \ Moka!Range(pending),
           \A k \in Moka!Range(order') \ Moka!Range(pending') : cache'[k] = cache[k]
    PROVE  Fitting'
<1> DEFINE S == Moka!Range(order) \ Moka!Range(pending)
           R == Moka!Range(order') \ Moka!Range(pending')
<1>1. S \in SUBSET MokaKeys /\ IsFiniteSet(S) /\ SumOf(Weights, S) <= Moka!MaxCapacity
  <2>1. order \in Seq(MokaKeys) /\ Fitting
    BY MokaTypes
  <2>2. IsFiniteSet(Moka!Range(order)) /\ Moka!Range(order) \subseteq MokaKeys
    BY <2>1, RangeFinite, RangeIs
  <2>3. IsFiniteSet(S)
    BY <2>2, FS_Subset
  <2>4. QED
    BY <2>1, <2>2, <2>3 DEF Fitting
<1>2. R \in SUBSET S /\ \A k \in R : cache'[k] = cache[k]
  OBVIOUS
<1> HIDE DEF S, R
<1>3. SumOf(Weights', R) <= Moka!MaxCapacity'
  BY <1>1, <1>2, FewerFit
<1>4. QED
  BY <1>3 DEF R, Fitting

(* Nothing but some keys are given up. *)
LEMMA LossFits ==
    ASSUME MInv, NEW dropped, cache' = [k \in MokaKeys |-> IF k \in dropped THEN None ELSE cache[k]],
           Moka!Range(order') = Moka!Range(order) \ dropped, kind' = kind,
           Moka!Range(pending) \subseteq Moka!Range(pending') \cup dropped
    PROVE  Accounted' /\ Fitting'
<1>0. /\ cache \in [MokaKeys -> Moka!Entries \cup {None}] /\ order \in Seq(MokaKeys) /\ Accounted
      /\ Moka!Range(order) \subseteq MokaKeys
  <2>1. /\ cache \in [MokaKeys -> Moka!Entries \cup {None}] /\ order \in Seq(MokaKeys) /\ Accounted
    BY MokaTypes
  <2>2. QED
    BY <2>1, RangeInKeys
<1>1. cache' \in [MokaKeys -> Moka!Entries \cup {None}]
  BY <1>0
<1>2. Accounted'
  BY <1>0 DEF Accounted
<1>3. \A k \in Moka!Range(order') \ Moka!Range(pending') : cache'[k] = cache[k]
  BY <1>0
<1>4. Moka!Range(order') \ Moka!Range(pending') \subseteq Moka!Range(order) \ Moka!Range(pending)
  BY <1>0
<1>5. QED
  BY <1>1, <1>2, <1>3, <1>4, FewerCounted

LEMMA TailRange ==
    ASSUME NEW s \in Seq(MokaKeys), s # <<>>
    PROVE  Moka!Range(s) = Moka!Range(Tail(s)) \cup {Head(s)}
<1>1. /\ Tail(s) \in Seq(MokaKeys) /\ Len(Tail(s)) = Len(s) - 1 /\ Head(s) = s[1] /\ Len(s) \in Nat \ {0}
      /\ \A i \in 1..Len(s) - 1 : Tail(s)[i] = s[i + 1]
  OBVIOUS
<1>2. Moka!Range(s) = {s[i] : i \in 1..Len(s)}
      /\ Moka!Range(Tail(s)) = {Tail(s)[i] : i \in 1..Len(s) - 1}
  BY <1>1, RangeIs
<1>3. Moka!Range(Tail(s)) \cup {Head(s)} \subseteq Moka!Range(s)
  BY <1>1, <1>2
<1>4. ASSUME NEW i \in 1..Len(s) PROVE s[i] \in Moka!Range(Tail(s)) \cup {Head(s)}
  <2>1. CASE i = 1
    BY <1>1, <2>1
  <2>2. CASE i # 1
    <3>1. i - 1 \in 1..Len(s) - 1 /\ Tail(s)[i - 1] = s[i]
      BY <1>1, <2>2
    <3>2. QED
      BY <1>2, <3>1
  <2>3. QED
    BY <2>1, <2>2
<1>5. QED
  BY <1>2, <1>3, <1>4

LEMMA RoomFits ==
    ASSUME MInv, pending # <<>>, pending' = Tail(pending), kind' = kind,
           cache[Head(pending)] # None,
           Moka!MakeRoom(Append(Moka!Without(order, Head(pending)), Head(pending)))
    PROVE  Accounted' /\ Fitting'
<1> DEFINE k == Head(pending)
           keys == Append(Moka!Without(order, k), k)
<1>0. /\ cache \in [MokaKeys -> Moka!Entries \cup {None}] /\ order \in Seq(MokaKeys)
      /\ pending \in Seq(MokaKeys) /\ Distinct(order) /\ Accounted
      /\ Moka!Range(order) \subseteq MokaKeys /\ Moka!Range(pending) \subseteq MokaKeys
  <2>1. /\ cache \in [MokaKeys -> Moka!Entries \cup {None}] /\ order \in Seq(MokaKeys)
        /\ pending \in Seq(MokaKeys) /\ Distinct(order) /\ Accounted
    BY MokaTypes
  <2>2. \A s \in Seq(MokaKeys) : Moka!Range(s) \subseteq MokaKeys
    BY RangeInKeys
  <2>3. QED
    BY <2>1, <2>2
<1>1. k \in MokaKeys /\ Moka!Range(pending) = Moka!Range(pending') \cup {k}
  BY <1>0, TailRange
<1>2. /\ keys \in Seq(MokaKeys) /\ Distinct(keys) /\ Moka!Range(keys) = Moka!Range(order) \cup {k}
      /\ \A j \in Moka!Range(keys) : cache[j] # None
  <2>1. /\ Moka!Without(order, k) \in Seq(MokaKeys)
        /\ Moka!Range(Moka!Without(order, k)) = Moka!Range(order) \ {k}
        /\ Distinct(Moka!Without(order, k))
    BY <1>0, <1>1, WithoutFacts
  <2>2. Moka!Range(keys) = Moka!Range(Moka!Without(order, k)) \cup {k}
    BY <1>1, <2>1, AppendFacts
  <2>3. QED
    BY <1>1, <2>1, <2>2, LastFacts
<1> HIDE DEF keys
<1>3. PICK n \in 0..Len(keys) :
        /\ Moka!Evicted(n, keys)
        /\ Moka!Keep(SubSeq(keys, n + 1, Len(keys)), Moka!Range(SubSeq(keys, 1, n)))
  BY DEF Moka!MakeRoom, keys
<1> DEFINE rest == SubSeq(keys, n + 1, Len(keys))
           gone == Moka!Range(SubSeq(keys, 1, n))
<1>4. rest \in Seq(MokaKeys) /\ Moka!Range(rest) = Moka!Range(keys) \ gone
  BY <1>2, CutFacts
<1>5. /\ order' = rest /\ Moka!Fits(rest)
      /\ cache' = [j \in MokaKeys |-> IF j \in gone THEN None ELSE cache[j]]
  BY <1>3 DEF Moka!Keep, Moka!Evicted
<1> HIDE DEF rest, gone
<1>6. Accounted'
  BY <1>0, <1>1, <1>2, <1>4, <1>5 DEF Accounted
<1>7. /\ Moka!Range(rest) \in SUBSET MokaKeys /\ IsFiniteSet(Moka!Range(rest))
      /\ SumOf(Weights, Moka!Range(rest)) <= Moka!MaxCapacity
  <2>1. \A j \in Moka!Range(rest) : cache[j] # None
    BY <1>2, <1>4
  <2>2. Moka!Fits(rest) <=> SumOf(Weights, Moka!Range(rest)) <= Moka!MaxCapacity
    BY <1>0, <1>4, <2>1, FitsIs
  <2>3. IsFiniteSet(Moka!Range(rest)) /\ Moka!Range(rest) \subseteq MokaKeys
    BY <1>0, <1>1, <1>2, <1>4, RangeFinite
  <2>4. QED
    BY <1>5, <2>2, <2>3
<1> DEFINE R == Moka!Range(rest) \ Moka!Range(pending')
<1>8. R \in SUBSET Moka!Range(rest) /\ \A j \in R : cache'[j] = cache[j]
  BY <1>4, <1>5, <1>7
<1>9. cache' \in [MokaKeys -> Moka!Entries \cup {None}]
  BY <1>0, <1>5
<1> HIDE DEF R
<1>10. SumOf(Weights', R) <= Moka!MaxCapacity'
  BY <1>7, <1>8, <1>9, FewerFit
<1>11. Fitting'
  BY <1>5, <1>10 DEF R, Fitting
<1>12. QED
  BY <1>6, <1>11

LEMMA FittingStays == ASSUME MInv, Moka!Next PROVE Accounted' /\ Fitting'
<1> USE MokaFacts
<1>0. /\ cache \in [MokaKeys -> Moka!Entries \cup {None}]
      /\ order \in Seq(MokaKeys) /\ pending \in Seq(MokaKeys) /\ Distinct(order)
      /\ \A k \in Moka!Range(order) : cache[k] # None
      /\ Accounted /\ Fitting
      /\ Moka!Range(order) \subseteq MokaKeys /\ Moka!Range(pending) \subseteq MokaKeys
  BY MokaTypes, RangeIs
<1>1. cache' \in [MokaKeys -> Moka!Entries \cup {None}]
  BY CountsStay DEF Counted
<1>2. ASSUME NEW k \in MokaKeys, Moka!Read(k) PROVE Accounted' /\ Fitting'
  <2>1. cache' = cache /\ pending' = pending /\ kind' = kind /\ cache[k] # None
    BY <1>2 DEF Moka!Read
  <2>2. Moka!Range(order') = Moka!Range(order)
    <3>1. CASE Moka!Contains(order, k)
      <4>1. k \in Moka!Range(order)
        BY <3>1, <1>0, RangeIs DEF Moka!Contains
      <4>2. /\ Moka!Without(order, k) \in Seq(MokaKeys)
            /\ Moka!Range(Moka!Without(order, k)) = Moka!Range(order) \ {k}
            /\ Distinct(Moka!Without(order, k))
        BY <1>0, WithoutFacts
      <4>3. Moka!Range(Append(Moka!Without(order, k), k)) = Moka!Range(order)
        <5>1. k \notin Moka!Range(Moka!Without(order, k))
          BY <4>2
        <5>2. Moka!Range(Append(Moka!Without(order, k), k))
                 = Moka!Range(Moka!Without(order, k)) \cup {k}
          BY <4>2, <5>1, AppendFacts
        <5>3. QED
          BY <4>1, <4>2, <5>2
      <4>4. QED
        BY <1>2, <3>1, <4>3 DEF Moka!Read
    <3>2. QED
      BY <1>2, <3>1 DEF Moka!Read
  <2>3. Accounted'
    BY <1>0, <2>1, <2>2 DEF Accounted
  <2>4. Fitting'
    BY <1>1, <2>1, <2>2, FewerCounted
  <2>5. QED
    BY <2>3, <2>4
<1>3. ASSUME NEW k \in MokaKeys, Moka!Write(k) PROVE Accounted' /\ Fitting'
  <2>1. PICK size \in Sizes, expire \in Expires :
           Moka!WriteValue(k, [size |-> size, expire |-> expire])
    BY <1>3 DEF Moka!Write
  <2>2. /\ pending' = Append(pending, k) /\ order' = order /\ kind' = kind
        /\ \A j \in MokaKeys : j # k => cache'[j] = cache[j]
    BY <1>0, <2>1 DEF Moka!WriteValue
  <2>3. Moka!Range(pending') = Moka!Range(pending) \cup {k}
    <3>1. /\ Append(pending, k) \in Seq(MokaKeys) /\ Len(Append(pending, k)) = Len(pending) + 1
          /\ \A i \in 1..Len(pending) : Append(pending, k)[i] = pending[i]
          /\ Append(pending, k)[Len(pending) + 1] = k
      BY <1>0
    <3>2. QED
      BY <1>0, <2>2, <3>1 DEF Moka!Range
  <2>4. Accounted'
    BY <1>0, <2>2, <2>3 DEF Accounted
  <2>5. /\ Moka!Range(order') \ Moka!Range(pending') \subseteq Moka!Range(order) \ Moka!Range(pending)
        /\ \A j \in Moka!Range(order') \ Moka!Range(pending') : cache'[j] = cache[j]
    BY <1>0, <2>2, <2>3
  <2>6. QED
    BY <1>1, <2>2, <2>4, <2>5, FewerCounted
<1>4. ASSUME NEW k \in MokaKeys, Moka!Delete(k) PROVE Accounted' /\ Fitting'
  <2>1. /\ cache' = [j \in MokaKeys |-> IF j \in {k} THEN None ELSE cache[j]]
        /\ order' = Moka!Without(order, k) /\ pending' = pending /\ kind' = kind
    BY <1>0, <1>4 DEF Moka!Delete
  <2>2. Moka!Range(order') = Moka!Range(order) \ {k}
    BY <1>0, <2>1, WithoutFacts
  <2>3. QED
    BY <2>1, <2>2, LossFits
<1>5. ASSUME NEW k \in MokaKeys, Moka!Expire(k) PROVE Accounted' /\ Fitting'
  <2>1. /\ cache' = [j \in MokaKeys |-> IF j \in {k} THEN None ELSE cache[j]]
        /\ order' = Moka!Without(order, k) /\ pending' = pending /\ kind' = kind
    BY <1>5 DEF Moka!Expire, Moka!Keep
  <2>2. Moka!Range(order') = Moka!Range(order) \ {k}
    BY <1>0, <2>1, WithoutFacts
  <2>3. QED
    BY <2>1, <2>2, LossFits
<1>6. CASE Moka!CountWrite
  <2> DEFINE k == Head(pending)
  <2>1. pending # <<>> /\ pending' = Tail(pending) /\ kind' = kind /\ k \in MokaKeys
    BY <1>0, <1>6 DEF Moka!CountWrite
  <2>2. Moka!Range(pending) = Moka!Range(pending') \cup {k}
    BY <1>0, <2>1, TailRange
  <2>3. CASE cache[k] = None /\ UNCHANGED <<order, cache>>
    <3>1. Accounted'
      BY <1>0, <2>2, <2>3 DEF Accounted
    <3>2. /\ Moka!Range(order') \ Moka!Range(pending') \subseteq Moka!Range(order) \ Moka!Range(pending)
          /\ \A j \in Moka!Range(order') \ Moka!Range(pending') : cache'[j] = cache[j]
      BY <1>0, <2>2, <2>3
    <3>3. QED
      BY <1>1, <2>1, <3>1, <3>2, FewerCounted
  <2>4. CASE Moka!Keep(Moka!Without(order, k), {k})
    <3>1. Moka!Range(order') = Moka!Range(order) \ {k}
      BY <1>0, <2>1, <2>4, WithoutFacts DEF Moka!Keep
    <3>2. cache' = [j \in MokaKeys |-> IF j \in {k} THEN None ELSE cache[j]]
      BY <2>4 DEF Moka!Keep
    <3>3. QED
      BY <2>1, <2>2, <3>1, <3>2, LossFits
  <2>5. CASE cache[k] # None /\ Moka!MakeRoom(Append(Moka!Without(order, k), k))
    BY <2>1, <2>5, RoomFits
  <2>6. CASE ~Moka!Contains(order, k) /\ Moka!Keep(order, {k})
    <3>1. k \notin Moka!Range(order)
      BY <2>6, <1>0, RangeIs DEF Moka!Contains
    <3>2. Moka!Range(order') = Moka!Range(order) \ {k}
      BY <2>6, <3>1 DEF Moka!Keep
    <3>3. cache' = [j \in MokaKeys |-> IF j \in {k} THEN None ELSE cache[j]]
      BY <2>6 DEF Moka!Keep
    <3>4. QED
      BY <2>1, <2>2, <3>2, <3>3, LossFits
  <2>7. QED
    BY <1>6, <2>3, <2>4, <2>5, <2>6 DEF Moka!CountWrite
<1>7. CASE Moka!RecordMetrics \/ Moka!Tick
  <2>1. UNCHANGED <<cache, order, pending, kind>>
    BY <1>7 DEF Moka!RecordMetrics, Moka!Tick
  <2>2. Accounted'
    BY <1>0, <2>1 DEF Accounted
  <2>3. Fitting'
    BY <1>1, <2>1, FewerCounted
  <2>4. QED
    BY <2>2, <2>3
<1>8. QED
  BY <1>2, <1>3, <1>4, <1>5, <1>6, <1>7 DEF Moka!Next

LEMMA NextMInv == ASSUME MInv, Moka!Next PROVE MInv'
<1> USE MokaFacts
<1>0. /\ kind \in {"entries", "bytes"} /\ given \in Policies /\ policy \in {"lru", "tiny_lfu"}
      /\ pending \in Seq(MokaKeys)
      /\ now \in 0..MAX_TIME /\ due \in 0..MAX_TASKS /\ writes \in 0..MAX_WRITES
  BY MokaTypes
<1>1. UNCHANGED <<kind, given, policy>>
  BY DEF Moka!Next, Moka!Read, Moka!Write, Moka!WriteValue, Moka!Delete, Moka!Expire,
         Moka!RecordMetrics, Moka!CountWrite, Moka!Tick
<1> DEFINE Rest == /\ pending' \in Seq(MokaKeys)
                   /\ now' \in 0..MAX_TIME /\ due' \in 0..MAX_TASKS /\ writes' \in 0..MAX_WRITES
<1>2. ASSUME NEW k \in MokaKeys, Moka!Read(k) \/ Moka!Delete(k) \/ Moka!Expire(k) PROVE Rest
  BY <1>2, <1>0 DEF Moka!Read, Moka!Delete, Moka!Expire
<1>3. ASSUME NEW k \in MokaKeys, Moka!Write(k) PROVE Rest
  <2>1. /\ writes < MAX_WRITES /\ due < MAX_TASKS /\ pending' = Append(pending, k)
        /\ due' = due + 1 /\ writes' = writes + 1 /\ now' = now
    BY <1>3 DEF Moka!Write, Moka!WriteValue
  <2>2. pending' \in Seq(MokaKeys)
    BY <2>1, <1>0
  <2>3. due' \in 0..MAX_TASKS /\ writes' \in 0..MAX_WRITES
    BY <2>1, <1>0
  <2>4. QED
    BY <2>1, <2>2, <2>3, <1>0
<1>4. ASSUME Moka!CountWrite PROVE Rest
  <2>1. /\ pending # <<>> /\ pending' = Tail(pending)
        /\ due' = due /\ writes' = writes /\ now' = now
    BY <1>4 DEF Moka!CountWrite
  <2>2. pending' \in Seq(MokaKeys)
    BY <2>1, <1>0
  <2>3. QED
    BY <2>1, <2>2, <1>0
<1>5. ASSUME Moka!RecordMetrics \/ Moka!Tick PROVE Rest
  <2>1. pending' = pending /\ writes' = writes
    BY <1>5 DEF Moka!RecordMetrics, Moka!Tick
  <2>2. due' \in 0..MAX_TASKS /\ now' \in 0..MAX_TIME
    BY <1>5, <1>0 DEF Moka!RecordMetrics, Moka!Tick
  <2>3. QED
    BY <2>1, <2>2, <1>0
<1>6. Rest
  BY <1>2, <1>3, <1>4, <1>5 DEF Moka!Next
<1>7. Moka!TypeOK' /\ Distinct(order)' /\ KeptLongEnough'
  BY <1>0, <1>1, <1>6, CountsStay DEF Counted, Moka!TypeOK
<1>8. EvictsInOrder'
  BY <1>1, MokaTypes DEF EvictsInOrder, Moka!IsLru
<1>9. QED
  BY <1>7, <1>8, FittingStays DEF MInv

LEMMA LossHasReason ==
    ASSUME MInv, Moka!Next, NEW k \in MokaKeys
    PROVE  Moka!IsLostForAReason(k)
<1> USE MokaFacts
<1>0. /\ cache \in [MokaKeys -> Moka!Entries \cup {None}]
      /\ order \in Seq(MokaKeys) /\ pending \in Seq(MokaKeys) /\ Distinct(order)
      /\ now \in 0..MAX_TIME /\ KeptLongEnough
  BY MokaTypes
<1> SUFFICES ASSUME cache[k] # None, cache'[k] = None
             PROVE  \/ Moka!Delete(k)
                    \/ /\ Moka!CountWrite
                       /\ \/ Moka!Weight(k) > Moka!MaxCapacity
                          \/ ~Moka!Fits(Append(Moka!Without(order, Head(pending)), Head(pending)))
                    \/ cache[k].expire # None /\ cache[k].expire <= now
  BY DEF Moka!IsLostForAReason
<1>1. ASSUME NEW j \in MokaKeys, Moka!Read(j) PROVE FALSE
  BY <1>1 DEF Moka!Read
<1>2. ASSUME NEW j \in MokaKeys, Moka!Write(j) PROVE FALSE
  <2>1. \A i \in MokaKeys : Counted /\ cache'[i] # cache[i] => i = j /\ cache'[j] # None
    <3>1. PICK size \in Sizes, expire \in Expires :
             Moka!WriteValue(j, [size |-> size, expire |-> expire])
      BY <1>2 DEF Moka!Write
    <3> DEFINE value == [size |-> size, expire |-> expire]
               until == Moka!Until(j, value)
               entry == [size |-> size, expire |-> expire, until |-> until]
    <3>2. cache' = [cache EXCEPT ![j] = entry]
      BY <3>1 DEF Moka!WriteValue
    <3>3. until \in Moka!Times /\ expire \in Moka!Times
      BY <1>0 DEF Moka!Until, Moka!Times
    <3> HIDE DEF until
    <3>4. entry # None
      BY <3>3 DEF Moka!Entries
    <3> HIDE DEF entry
    <3>5. QED
      BY <3>2, <3>4, <1>0
  <2>2. Counted
    BY CountsStay
  <2>3. QED
    BY <2>1, <2>2
<1>3. ASSUME NEW j \in MokaKeys, Moka!Delete(j) PROVE j = k
  BY <1>0, <1>3 DEF Moka!Delete
<1>4. ASSUME NEW j \in MokaKeys, Moka!Expire(j)
      PROVE  cache[k].expire # None /\ cache[k].expire <= now
  <2>1. j = k
    BY <1>0, <1>4 DEF Moka!Expire, Moka!Keep
  <2>2. cache[k].until # None /\ cache[k].until <= now
    BY <1>4, <2>1 DEF Moka!Expire, Moka!Expired
  <2>3. cache[k].expire # None /\ cache[k].expire <= cache[k].until
    BY <2>2, <1>0 DEF KeptLongEnough
  <2>4. cache[k].until \in Nat /\ cache[k].expire \in Nat /\ now \in Nat
    BY <1>0, <2>2, <2>3 DEF Moka!Entries, Moka!Times
  <2>5. QED
    BY <2>2, <2>3, <2>4
<1>5. ASSUME Moka!CountWrite
      PROVE  \/ Moka!Weight(k) > Moka!MaxCapacity
             \/ ~Moka!Fits(Append(Moka!Without(order, Head(pending)), Head(pending)))
  <2> DEFINE h == Head(pending)
             keys == Append(Moka!Without(order, h), h)
  <2>1. h \in MokaKeys
    BY <1>0, <1>5 DEF Moka!CountWrite
  <2>2. CASE UNCHANGED <<order, cache>>
    BY <2>2
  <2>3. CASE Moka!Weight(h) > Moka!MaxCapacity /\ Moka!Keep(Moka!Without(order, h), {h})
    <3>1. h = k
      BY <1>0, <2>3 DEF Moka!Keep
    <3>2. QED
      BY <2>3, <3>1
  <2>4. CASE cache[h] # None /\ Moka!MakeRoom(keys)
    <3>1. Moka!Fits(keys) => cache' = cache
      BY <2>1, <2>4, LastFacts, MakeRoomCounts
    <3>2. QED
      BY <3>1
  <2>5. CASE ~Moka!Contains(order, h) /\ ~Moka!Fits(Append(order, h))
    <3>1. Moka!Without(order, h) = order
      BY <2>5 DEF Moka!Without
    <3>2. QED
      BY <2>5, <3>1
  <2>6. QED
    BY <1>5, <2>2, <2>3, <2>4, <2>5 DEF Moka!CountWrite
<1>6. CASE Moka!RecordMetrics \/ Moka!Tick
  BY <1>6 DEF Moka!RecordMetrics, Moka!Tick
<1>7. QED
  BY <1>1, <1>2, <1>3, <1>4, <1>5, <1>6 DEF Moka!Next

LEMMA SameCardinality == ASSUME NEW S PROVE Moka!Cardinality(S) = Cardinality(S)
  BY DEF Moka!Cardinality, Cardinality, Moka!IsFiniteSet, IsFiniteSet

(* With nothing pending, what is found is what is counted, and that fits.   *)
LEMMA MInvWithin == ASSUME MInv PROVE Moka!WithinCapacity
<1> USE MokaFacts
<1>0. /\ cache \in [MokaKeys -> Moka!Entries \cup {None}]
      /\ order \in Seq(MokaKeys) /\ kind \in {"entries", "bytes"}
      /\ \A k \in Moka!Range(order) : cache[k] # None
      /\ Accounted /\ Fitting
      /\ Moka!Range(order) \subseteq MokaKeys /\ IsFiniteSet(Moka!Range(order))
  BY MokaTypes, RangeIs, RangeFinite
<1> SUFFICES ASSUME pending = <<>>
             PROVE  IF kind = "entries" THEN Cardinality(Moka!Held) <= Moka!MaxCapacity
                    ELSE \/ Moka!MapThenSumSet(Moka!Memory, Moka!Held) <= Moka!MaxCapacity
                         \/ \E k \in Moka!Held : Moka!Memory(k) > U32_MAX
  BY SameCardinality DEF Moka!WithinCapacity
<1>1. Moka!Range(pending) = {}
  BY DEF Moka!Range
<1>2. Moka!Held = Moka!Range(order)
  BY <1>0, <1>1 DEF Accounted, Moka!Held
<1>3. SumOf(Weights, Moka!Held) <= Moka!MaxCapacity
  BY <1>0, <1>1, <1>2 DEF Fitting
<1>4. \A k \in Moka!Held : k \in MokaKeys /\ cache[k] \in Moka!Entries /\ Weights[k] = Moka!Weight(k)
  BY <1>0, WeightsFacts DEF Moka!Held
<1>5. CASE kind = "entries"
  <2>1. \A k \in Moka!Held : Weights[k] = 1
    BY <1>4, <1>5, WeightFacts
  <2>2. SumOf(Weights, Moka!Held) = Cardinality(Moka!Held)
    BY <1>0, <1>2, <2>1, SumOfOnes
  <2>3. QED
    BY <1>3, <1>5, <2>2
<1>6. CASE kind # "entries" /\ ~\E k \in Moka!Held : Moka!Memory(k) > U32_MAX
  <2>1. \A k \in Moka!Held : Weights[k] = Moka!Memory(k)
    BY <1>4, <1>6, WeightFacts
  <2>2. Moka!MapThenSumSet(Moka!Memory, Moka!Held) = SumOf(Weights, Moka!Held)
    BY <1>0, <1>2, <2>1, MemoryAddsUp
  <2>3. QED
    BY <1>3, <1>6, <2>2
<1>7. QED
  BY <1>5, <1>6

(* The key that was written last is the last to go: before it goes, it is   *)
(* alone, and alone it fits.                                                *)
LEMMA LastStays ==
    ASSUME MInv, NEW k \in MokaKeys, cache[k] # None, Moka!Weight(k) <= Moka!MaxCapacity,
           Moka!MakeRoom(Append(Moka!Without(order, k), k))
    PROVE  cache'[k] # None
<1> DEFINE keys == Append(Moka!Without(order, k), k)
<1>0. cache \in [MokaKeys -> Moka!Entries \cup {None}] /\ order \in Seq(MokaKeys) /\ Distinct(order)
  BY MokaTypes
<1>1. keys \in Seq(MokaKeys) /\ Distinct(keys) /\ Len(keys) \in Nat \ {0} /\ keys[Len(keys)] = k
  <2>1. Moka!Without(order, k) \in Seq(MokaKeys)
    BY <1>0, WithoutFacts
  <2>2. keys \in Seq(MokaKeys) /\ Distinct(keys)
    BY LastFacts
  <2>3. QED
    BY <2>1, <2>2
<1> HIDE DEF keys
<1>2. PICK n \in 0..Len(keys) :
        /\ Moka!Evicted(n, keys)
        /\ Moka!Keep(SubSeq(keys, n + 1, Len(keys)), Moka!Range(SubSeq(keys, 1, n)))
  BY DEF Moka!MakeRoom, keys
<1> DEFINE last == SubSeq(keys, Len(keys), Len(keys))
<1>3. /\ last \in Seq(MokaKeys) /\ Moka!Range(last) = {k}
  <2>1. last \in Seq(MokaKeys) /\ Len(last) = 1 /\ last[1] = k
    BY <1>1
  <2> HIDE DEF last
  <2>2. Moka!Range(last) = {last[i] : i \in 1..1}
    BY <2>1, RangeIs
  <2>3. QED
    BY <2>1, <2>2
<1>4. Moka!Fits(last)
  <2>1. SumOf(Weights, {k}) = Weights[k] + SumOf(Weights, {k} \ {k})
    <3>1. IsFiniteSet({k}) /\ \A x \in {k} : Weights[x] \in Nat
      BY <1>0, WeightsFacts, FS_Singleton
    <3>2. QED
      BY <3>1, SumWithout
  <2>2. {k} \ {k} = {} /\ SumOf(Weights, {}) = 0
    BY SumOfStep, FS_EmptySet
  <2>3. SumOf(Weights, {k} \ {k}) = 0
    BY <2>2
  <2>4. Weights[k] \in Nat /\ Weights[k] = Moka!Weight(k)
    BY <1>0, WeightsFacts
  <2>5. SumOf(Weights, {k}) <= Moka!MaxCapacity
    BY <2>1, <2>3, <2>4
  <2> HIDE DEF last
  <2>6. QED
    BY <1>0, <1>3, <2>5, FitsIs
<1>5. n # Len(keys)
  <2> SUFFICES ASSUME n = Len(keys) PROVE FALSE
    OBVIOUS
  <2>1. n - 1 \in 0..(n - 1) /\ (n - 1) + 1 = Len(keys)
    BY <1>1
  <2>2. ~Moka!Fits(SubSeq(keys, (n - 1) + 1, Len(keys)))
    BY <1>2, <2>1 DEF Moka!Evicted
  <2>3. QED
    BY <1>4, <2>1, <2>2
<1>6. k \notin Moka!Range(SubSeq(keys, 1, n))
  <2> DEFINE head == SubSeq(keys, 1, n)
  <2>1. /\ head \in Seq(MokaKeys) /\ Len(head) = n
        /\ \A i \in 1..n : head[i] = keys[i]
    BY <1>1
  <2> HIDE DEF head
  <2>2. Moka!Range(head) = {head[i] : i \in 1..n}
    BY <2>1, RangeIs
  <2>3. ASSUME NEW i \in 1..n PROVE head[i] # k
    <3>1. i \in 1..Len(keys) /\ Len(keys) \in 1..Len(keys) /\ i # Len(keys)
      BY <1>1, <1>5
    <3>2. QED
      BY <1>1, <2>1, <3>1 DEF Distinct
  <2>4. QED
    BY <2>2, <2>3 DEF head
<1>7. QED
  BY <1>2, <1>6 DEF Moka!Keep

LEMMA LruAdmitsWhatFits ==
    ASSUME MInv, Moka!IsLru, NEW k \in MokaKeys
    PROVE  ~Moka!IsNotAdmitted(k)
<1> SUFFICES ASSUME Moka!CountWrite, k = Head(pending), cache[k] # None, cache'[k] = None,
                    Moka!Weight(k) <= Moka!MaxCapacity
             PROVE  FALSE
  BY DEF Moka!IsNotAdmitted
<1>1. policy = "lru"
  BY MokaTypes DEF EvictsInOrder
<1>2. Moka!Weight(k) \in Nat /\ Moka!MaxCapacity \in Nat
  BY MokaTypes, WeightFacts, CapacityIs
<1>3. Moka!MakeRoom(Append(Moka!Without(order, k), k))
  BY <1>1, <1>2 DEF Moka!CountWrite
<1>4. QED
  BY <1>3, LastStays

-----------------------------------------------------------------------------
(* The program with one of them. *)
SInv ==
    /\ backend \in {"redis", "feoxdb", "moka"}
    /\ backend = "redis" => RInv
    /\ backend = "feoxdb" => FInv
    /\ backend = "moka" => MInv

LEMMA InitSInv == Init => SInv
  BY InitRInv, InitFInv, InitMInv DEF Init, SInv

LEMMA SInvStays == ASSUME SInv, UNCHANGED vars PROVE SInv'
<1>1. backend = "redis" => RInv'
  BY NextRInv DEF SInv, vars, redisVars, Redis!vars, Redis!config
<1>2. backend = "feoxdb" => FInv'
  <2> SUFFICES ASSUME FInv PROVE FInv'
    BY DEF SInv
  <2>1. UNCHANGED <<path, store, file, op, now, restarts, lost>>
    BY DEF vars, feoxVars
  <2>2. FeOx!TypeOK' /\ AllKnown' /\ Made(store)' /\ Made(file)'
    BY <2>1 DEF FInv, FeOx!TypeOK, AllKnown, Known, Made
  <2>3. Kept' /\ Latest'
    BY <2>1 DEF FInv, Kept, Latest, Wrote, Holds, Over, FeOx!Alive, FeOx!TimeIsUp, FeOx!Supersedes
  <2>4. FeOx!ReadsTheLatest' /\ FeOx!MissForAReason'
    BY <2>1 DEF FInv, FeOx!ReadsTheLatest, FeOx!MissForAReason, FeOx!Done, FeOx!Undoes,
                FeOx!TimeIsUp, FeOx!Supersedes
  <2>5. QED
    BY <2>2, <2>3, <2>4 DEF FInv
<1>3. backend = "moka" => MInv'
  BY DEF SInv, MInv, vars, mokaVars, Moka!TypeOK, Distinct, KeptLongEnough, Accounted, Fitting,
         EvictsInOrder, Moka!IsLru, Weights, Moka!Weight, Moka!MaxCapacity
<1>4. QED
  BY <1>1, <1>2, <1>3 DEF SInv, vars

LEMMA NextSInv == SInv /\ [Next]_vars => SInv'
<1> SUFFICES ASSUME SInv, [Next]_vars PROVE SInv'
  OBVIOUS
<1>1. CASE RedisNext
  BY <1>1, NextRInv DEF RedisNext, NotRedis, SInv
<1>2. CASE FeOxNext
  BY <1>2, NextFInv DEF FeOxNext, SInv
<1>3. CASE MokaNext
  BY <1>3, NextMInv DEF MokaNext, SInv
<1>4. CASE UNCHANGED vars
  BY <1>4, SInvStays
<1>5. QED
  BY <1>1, <1>2, <1>3, <1>4 DEF Next

LEMMA SInvHolds == Spec => []SInv
  BY InitSInv, NextSInv, PTL DEF Spec

-----------------------------------------------------------------------------
(* State stays within the types of the backend's module, whichever backend  *)
(* it is (RedisBackend, FeOxDbBackend and MokaBackend of their crates).     *)
THEOREM StoresTypeCorrect == Spec => []TypeOK
<1>1. SInv => TypeOK
  BY DEF SInv, TypeOK, RInv, FInv, MInv
<1>2. QED
  BY <1>1, SInvHolds, PTL

(* Redis drops every entry in time unless a write failed between its two    *)
(* commands, and however many operations find a process without a           *)
(* connection, one of them opens it (hitbox-redis/src/backend.rs: write()   *)
(* and connection()).                                                       *)
THEOREM RedisKeepsLimits == Spec => []WithinLimits
<1>1. SInv => WithinLimits
  BY RInvImplies DEF SInv, WithinLimits
<1>2. QED
  BY <1>1, SInvHolds, PTL

(* Without a restart, a read of FeOxDB never returns a value of which its   *)
(* caller could know that it had been replaced or removed, nor one that is  *)
(* over (hitbox-feoxdb/src/backend.rs: closures of concurrent operations    *)
(* run in any order, also those whose callers have gone).                   *)
THEOREM FeOxReadsForward == Spec => []ReadsTheLatest
<1>1. SInv => ReadsTheLatest
  BY DEF SInv, FInv, ReadsTheLatest
<1>2. QED
  BY <1>1, SInvHolds, PTL

(* FeOxDB loses nothing: a read that finds no value comes after the value's *)
(* time, after a remove or another write that began before the first one    *)
(* was answered, or after a restart that it had not been flushed for        *)
(* (hitbox-feoxdb/src/backend.rs: write(), remove() and flush()).           *)
THEOREM FeOxKeepsWrites == Spec => []WrittenIsFound
<1>1. SInv => WrittenIsFound
  BY DEF SInv, FInv, WrittenIsFound
<1>2. QED
  BY <1>1, SInvHolds, PTL

(* Moka lets an entry go only when it is deleted, when its own time is      *)
(* over, or when it does not fit: no update cuts a longer time short        *)
(* (hitbox-moka/src/builder.rs: Expiration).                                *)
THEOREM MokaLosesForAReason == Spec => LostForAReason
<1>1. SInv /\ [Next]_vars => [backend = "moka" => \A k \in MokaKeys : Moka!IsLostForAReason(k)]_vars
  <2> SUFFICES ASSUME SInv, Next, backend = "moka", NEW k \in MokaKeys
               PROVE  Moka!IsLostForAReason(k)
    OBVIOUS
  <2>1. Moka!Next /\ MInv
    BY DEF Next, RedisNext, FeOxNext, MokaNext, SInv
  <2>2. QED
    BY <2>1, LossHasReason
<1>2. QED
  BY <1>1, SInvHolds, PTL DEF Spec, LostForAReason

(* Moka makes room and no more than that, whatever the capacity, the keys   *)
(* and the sizes: once it has counted what was written, what it holds fits, *)
(* no entry goes without a reason, and with LRU a new entry that fits is    *)
(* not the one that has to go (hitbox-moka/src/builder.rs: max_bytes(),     *)
(* max_entries() and their eviction policies).                              *)
THEOREM MokaEvictsOnlyForRoom == Spec => EvictsOnlyForRoom
<1>1. SInv => (backend = "moka" => Moka!WithinCapacity)
  BY MInvWithin DEF SInv
<1>2. SInv /\ [Next]_vars =>
         [backend = "moka" /\ Moka!IsLru => \A k \in MokaKeys : ~Moka!IsNotAdmitted(k)]_vars
  BY LruAdmitsWhatFits DEF SInv
<1>3. QED
  BY <1>1, <1>2, SInvHolds, MokaLosesForAReason, PTL DEF Spec, EvictsOnlyForRoom
=============================================================================
