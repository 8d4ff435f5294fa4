------------------------- MODULE CacheFutureProofs --------------------------
(***************************************************************************)
(* Proofs about CacheFuture, for every set of futures, keys, limits,       *)
(* policies and faults: the state machine is type-correct and drives the   *)
(* concurrency manager by the manager's own protocol; callers are told the *)
(* truth about their response; only cacheable responses are shared; with a *)
(* limit of one only a refused response lets two requests of a key fetch   *)
(* at once; and every future goes through the transitions of               *)
(* FutureLifecycle, whose properties it so has.                            *)
(*                                                                         *)
(* The two need each other: that a step of the machine is a step of the    *)
(* manager needs the machine's types (a future that asks the manager has a *)
(* key), and that a broadcast response is a response needs the manager's   *)
(* invariant.  So one inductive invariant carries both.                    *)
(*                                                                         *)
(* The invariants are stacked: FInv (types), GInv (the protocol with the   *)
(* manager), CInv (what futures, channels and the cache carry), SInv (who  *)
(* fetches), each proved with the one below it.                            *)
(***************************************************************************)
EXTENDS CacheFuture, FiniteSetTheorems, TLAPS

MP == INSTANCE ConcurrencyManagerProofs WITH CanCancel <- "cancel" \in Faults

(* The machine's own part of TypeOK. *)
MachineType ==
    /\ fut \in [Futures -> FutureRecord]
    /\ store \in [Keys -> CacheEntry \cup {None}]
    /\ policy \in Policies
    /\ calls \in [Futures -> Nat]

(* A future that may ask the manager or the backend knows its key. *)
Keyed ==
    \A f \in Futures :
        fut[f].state \in {"PollCache", "CacheAnswered"} => fut[f].key \in Keys

FInv == MP!IInv /\ MachineType /\ Keyed

-----------------------------------------------------------------------------
(* What CacheFuture assumes covers what the manager assumes. *)
LEMMA Assumed == MP!ManagerAssumption
  BY FutureAssumption
  DEF MP!ManagerAssumption, Futures, MP!IsFiniteSet, IsFiniteSet

(* The two instances of the manager are the same specification. *)
LEMMA SameInit == Manager!Init <=> MP!Init
  BY DEF Manager!Init, MP!Init

LEMMA SameNext == Manager!Next <=> MP!Next
  BY DEF Manager!Next, MP!Next, Manager!Check, MP!Check,
         Manager!OpenChannel, MP!OpenChannel, Manager!JoinHolders, MP!JoinHolders,
         Manager!Subscribe, MP!Subscribe, Manager!Resolve, MP!Resolve,
         Manager!Cleanup, MP!Cleanup, Manager!Receive, MP!Receive,
         Manager!ReceiveError, MP!ReceiveError, Manager!RecvResult, MP!RecvResult,
         Manager!SenderAlive, MP!SenderAlive, Manager!CHANNEL_CAPACITY,
         MP!CHANNEL_CAPACITY, Manager!DropBusy, MP!DropBusy, Manager!Drop, MP!Drop,
         Manager!ReleasePermit, MP!ReleasePermit, Manager!RemoveEntry, MP!RemoveEntry

(* A future that reaches the manager's check does so with a key and a limit. *)
LEMMA UpstreamMaps ==
    ASSUME MachineType, Keyed, NEW r \in Requests,
           fut[r].state = "CacheAnswered", ToUpstream(r)
    PROVE  Manager!Next \/ UNCHANGED managerVars
<1>1. fut[r].key \in Keys
  BY DEF Keyed, Futures
<1>2. CASE policy.concurrency = None
  BY <1>2 DEF ToUpstream
<1>3. CASE policy.concurrency # None
  <2>1. policy.concurrency \in Limits
    BY <1>3, FutureAssumption DEF MachineType, PolicyConfig
  <2>2. Manager!Check(r, fut[r].key, policy.concurrency)
    BY <1>3 DEF ToUpstream
  <2>3. QED
    BY <1>1, <2>1, <2>2 DEF Manager!Next
<1>4. QED
  BY <1>2, <1>3

(* Every step of the state machine is a step of the manager or leaves the   *)
(* manager alone.                                                           *)
LEMMA StepMaps ==
    ASSUME MachineType, Keyed, [Next]_vars
    PROVE  [Manager!Next]_Manager!managerVars
<1> SUFFICES Manager!Next \/ UNCHANGED managerVars
  BY DEF managerVars, Manager!managerVars
<1>1. CASE UNCHANGED vars
  BY <1>1 DEF vars
<1>2. ASSUME NEW r \in Requests, RequestStep(r)
      PROVE  Manager!Next \/ UNCHANGED managerVars
  <2>1. CASE PollCacheHit(r)
    BY <2>1, UpstreamMaps DEF PollCacheHit
  <2>2. CASE PollCacheMiss(r)
    BY <2>2, UpstreamMaps DEF PollCacheMiss
  <2>3. CASE AwaitOk(r)
    BY <2>3 DEF AwaitOk, Manager!Next
  <2>4. CASE AwaitError(r)
    BY <2>4 DEF AwaitError, Manager!Next
  <2>5. CASE StartRequest(r) \/ CheckRequestCachePolicy(r) \/ BackendGet(r)
    BY <2>5 DEF StartRequest, CheckRequestCachePolicy, BackendGet
  <2>6. CASE ConvertResponse(r) \/ HandleStaleReturn(r)
                \/ HandleStaleRevalidate(r) \/ HandleStaleOffload(r)
    BY <2>6 DEF ConvertResponse, HandleStaleReturn, HandleStaleRevalidate,
                HandleStaleOffload
  <2>7. QED
    BY <1>2, <2>1, <2>2, <2>3, <2>4, <2>5, <2>6 DEF RequestStep
<1>3. ASSUME NEW f \in Futures, FutureStep(f)
      PROVE  Manager!Next \/ UNCHANGED managerVars
  <2>1. CASE ResponseCacheable(f)
    BY <2>1 DEF ResponseCacheable, Manager!Next
  <2>2. CASE ResponseNonCacheable(f)
    BY <2>2 DEF ResponseNonCacheable, Manager!Next
  <2>3. CASE PollUpstream(f) \/ UpdateCache(f) \/ Respond(f)
    BY <2>3 DEF PollUpstream, UpdateCache, Respond
  <2>4. QED
    BY <1>3, <2>1, <2>2, <2>3 DEF FutureStep
<1>4. ASSUME NEW f \in Futures, Drop(f)
      PROVE  Manager!Next \/ UNCHANGED managerVars
  BY <1>4 DEF Drop, Manager!Next, Manager!DropBusy
<1>5. ASSUME NEW k \in Keys, Age(k)
      PROVE  Manager!Next \/ UNCHANGED managerVars
  BY <1>5 DEF Age
<1>6. QED
  BY <1>1, <1>2, <1>3, <1>4, <1>5 DEF Next

-----------------------------------------------------------------------------
(* What a waiter receives was sent by a request. *)
LEMMA BroadcastType ==
    ASSUME MP!IInv, NEW r \in Requests, Manager!Receive(r)
    PROVE  broadcast[receiver[r]][1] \in Requests
<1>1. receiver[r] \in Requests /\ broadcast[receiver[r]] \in Seq(Requests)
  BY DEF MP!IInv, MP!TypeOK, Manager!Receive
<1>2. Len(broadcast[receiver[r]]) = 1
  BY <1>1 DEF Manager!Receive, Manager!RecvResult, Manager!CHANNEL_CAPACITY
<1>3. QED
  BY <1>1, <1>2

LEMMA AgesType == \A a \in Freshness : AgesFrom(a) \subseteq Freshness
  BY DEF AgesFrom, Freshness

(* The types of the state machine, for one step of a request's own part. *)
LEMMA RequestStepType ==
    ASSUME FInv, NEW r \in Requests, RequestStep(r)
    PROVE  MachineType' /\ Keyed'
<1> r \in Futures
  BY DEF Futures
<1> USE DEF FInv
<1>1. CASE StartRequest(r)
  <2>1. MachineType'
    BY <1>1 DEF MachineType, StartRequest, FutureRecord, States, CallUpstream
  <2>2. Keyed'
    BY <1>1 DEF MachineType, Keyed, StartRequest, FutureRecord
  <2>3. QED
    BY <2>1, <2>2
<1>2. CASE CheckRequestCachePolicy(r)
  <2>1. MachineType'
    BY <1>2
    DEF MachineType, CheckRequestCachePolicy, FutureRecord, States, CallUpstream
  <2>2. Keyed'
    BY <1>2 DEF MachineType, Keyed, CheckRequestCachePolicy, FutureRecord
  <2>3. QED
    BY <2>1, <2>2
<1>3. CASE BackendGet(r)
  <2>1. MachineType'
    BY <1>3, FutureAssumption DEF MachineType, BackendGet, FutureRecord, States
  <2>2. Keyed'
    BY <1>3 DEF MachineType, Keyed, BackendGet, FutureRecord
  <2>3. QED
    BY <2>1, <2>2
<1>4. CASE PollCacheHit(r)
  <2>1. MachineType'
    BY <1>4, AgesType
    DEF MachineType, PollCacheHit, FutureRecord, States, ToUpstream, CallUpstream,
        CacheEntry
  <2>2. Keyed'
    BY <1>4 DEF MachineType, Keyed, PollCacheHit, FutureRecord, ToUpstream
  <2>3. QED
    BY <2>1, <2>2
<1>5. CASE PollCacheMiss(r)
  <2>1. MachineType'
    BY <1>5 DEF MachineType, PollCacheMiss, FutureRecord, States, ToUpstream, CallUpstream
  <2>2. Keyed'
    BY <1>5 DEF MachineType, Keyed, PollCacheMiss, FutureRecord, ToUpstream
  <2>3. QED
    BY <2>1, <2>2
<1>6. CASE ConvertResponse(r)
  <2>1. MachineType'
    BY <1>6 DEF MachineType, ConvertResponse, FutureRecord, States
  <2>2. Keyed'
    BY <1>6 DEF MachineType, Keyed, ConvertResponse, FutureRecord
  <2>3. QED
    BY <2>1, <2>2
<1>7. CASE HandleStaleReturn(r)
  <2>1. fut'[r] \in FutureRecord
    BY <1>7, ZenonT(30) DEF MachineType, HandleStaleReturn, FutureRecord, States
  <2>2. MachineType'
    BY <1>7, <2>1 DEF MachineType, HandleStaleReturn
  <2>3. Keyed'
    BY <1>7 DEF MachineType, Keyed, HandleStaleReturn, FutureRecord
  <2>4. QED
    BY <2>2, <2>3
<1>8. CASE HandleStaleRevalidate(r)
  <2>1. fut'[r] \in FutureRecord
    BY <1>8, ZenonT(30) DEF MachineType, HandleStaleRevalidate, FutureRecord, States
  <2>2. MachineType'
    BY <1>8, <2>1 DEF MachineType, HandleStaleRevalidate, CallUpstream
  <2>3. Keyed'
    BY <1>8 DEF MachineType, Keyed, HandleStaleRevalidate, FutureRecord
  <2>4. QED
    BY <2>2, <2>3
<1>9. CASE HandleStaleOffload(r)
  <2>1. CASE /\ fut' = [fut EXCEPT ![r].state = "Response", ![r].status = "Stale"]
             /\ UNCHANGED calls
    <3>1. fut'[r] \in FutureRecord
      BY <2>1, ZenonT(30) DEF MachineType, FutureRecord, States
    <3>2. MachineType'
      BY <1>9, <2>1, <3>1 DEF MachineType, HandleStaleOffload
    <3>3. Keyed'
      BY <2>1 DEF MachineType, Keyed, FutureRecord
    <3>4. QED
      BY <3>2, <3>3
  <2>2. ASSUME NEW t \in Tasks,
               fut' = [fut EXCEPT ![r].state = "Response", ![r].status = "Stale",
                                  ![t].state = "PollUpstream", ![t].key = fut[r].key],
               CallUpstream(t)
        PROVE  MachineType' /\ Keyed'
    <3>1. t \in Futures /\ t # r
      BY FutureAssumption DEF Futures
    <3>2. fut'[r] = [fut[r] EXCEPT !.state = "Response", !.status = "Stale"]
      BY <2>2, <3>1 DEF MachineType
    <3>3. fut'[t] = [fut[t] EXCEPT !.state = "PollUpstream", !.key = fut[r].key]
      BY <2>2, <3>1 DEF MachineType
    <3>4. fut'[r] \in FutureRecord
      BY <3>2 DEF MachineType, FutureRecord, States
    <3>5. fut'[t] \in FutureRecord
      BY <3>1, <3>3 DEF MachineType, FutureRecord, States
    <3>6. MachineType'
      BY <1>9, <2>2, <3>1, <3>4, <3>5
      DEF MachineType, HandleStaleOffload, CallUpstream
    <3>7. Keyed'
      BY <2>2, <3>1 DEF MachineType, Keyed, FutureRecord
    <3>8. QED
      BY <3>6, <3>7
  <2>3. QED
    BY <1>9, <2>1, <2>2 DEF HandleStaleOffload
<1>10. CASE AwaitOk(r)
  <2>1. [by |-> broadcast[receiver[r]][1], age |-> "Actual"] \in CacheEntry
    BY <1>10, BroadcastType DEF AwaitOk, CacheEntry, Futures, Freshness
  <2>2. fut'[r] \in FutureRecord
    BY <1>10, <2>1, ZenonT(30) DEF MachineType, AwaitOk, FutureRecord, States
  <2>3. MachineType'
    BY <1>10, <2>2 DEF MachineType, AwaitOk
  <2>4. Keyed'
    BY <1>10 DEF MachineType, Keyed, AwaitOk, FutureRecord
  <2>5. QED
    BY <2>3, <2>4
<1>11. CASE AwaitError(r)
  <2>1. MachineType'
    BY <1>11 DEF MachineType, AwaitError, FutureRecord, States, CallUpstream
  <2>2. Keyed'
    BY <1>11 DEF MachineType, Keyed, AwaitError, FutureRecord
  <2>3. QED
    BY <2>1, <2>2
<1>12. QED
  BY <1>1, <1>2, <1>3, <1>4, <1>5, <1>6, <1>7, <1>8, <1>9, <1>10, <1>11 DEF RequestStep

(* A future that carries what it fetched is a future. *)
LEMMA FetchedType ==
    ASSUME NEW x \in FutureRecord, NEW s \in States, NEW e \in CacheEntry
    PROVE  [x EXCEPT !.state = s, !.entry = e] \in FutureRecord
  BY DEF FutureRecord

(* The same for the part that requests and background tasks share. *)
LEMMA FutureStepType ==
    ASSUME FInv, NEW f \in Futures, FutureStep(f)
    PROVE  MachineType' /\ Keyed'
<1> USE DEF FInv
<1>1. CASE PollUpstream(f)
  <2>01. [by |-> f, age |-> "Actual"] \in CacheEntry
    BY DEF CacheEntry, Freshness
  <2>02. fut[f] \in FutureRecord
    BY DEF MachineType
  <2>03. PICK s \in {"Response", "CheckResponseCachePolicy"} :
            fut'[f] = [fut[f] EXCEPT !.state = s, !.entry = [by |-> f, age |-> "Actual"]]
    BY <1>1 DEF PollUpstream, MachineType
  <2>04. s \in States
    BY DEF States
  <2>05. [fut[f] EXCEPT !.state = s, !.entry = [by |-> f, age |-> "Actual"]] \in FutureRecord
    BY <2>01, <2>02, <2>04, FetchedType
  <2>1. fut'[f] \in FutureRecord
    BY <2>03, <2>05
  <2>2. MachineType'
    BY <1>1, <2>1 DEF MachineType, PollUpstream
  <2>3. Keyed'
    BY <1>1 DEF MachineType, Keyed, PollUpstream, FutureRecord
  <2>4. QED
    BY <2>2, <2>3
<1>2. CASE ResponseCacheable(f)
  <2>1. fut'[f] \in FutureRecord
    BY <1>2, ZenonT(30) DEF MachineType, ResponseCacheable, FutureRecord, States, Verdicts
  <2>2. MachineType'
    BY <1>2, <2>1 DEF MachineType, ResponseCacheable
  <2>3. Keyed'
    BY <1>2 DEF MachineType, Keyed, ResponseCacheable, FutureRecord
  <2>4. QED
    BY <2>2, <2>3
<1>3. CASE ResponseNonCacheable(f)
  <2>1. fut'[f] \in FutureRecord
    BY <1>3, ZenonT(30) DEF MachineType, ResponseNonCacheable, FutureRecord, States, Verdicts
  <2>2. MachineType'
    BY <1>3, <2>1 DEF MachineType, ResponseNonCacheable
  <2>3. Keyed'
    BY <1>3 DEF MachineType, Keyed, ResponseNonCacheable, FutureRecord
  <2>4. QED
    BY <2>2, <2>3
<1>4. CASE UpdateCache(f)
  <2>1. MachineType'
    BY <1>4 DEF MachineType, UpdateCache, FutureRecord, States
  <2>2. Keyed'
    BY <1>4 DEF MachineType, Keyed, UpdateCache, FutureRecord
  <2>3. QED
    BY <2>1, <2>2
<1>5. CASE Respond(f)
  <2>1. fut'[f] \in FutureRecord
    BY <1>5, ZenonT(30) DEF MachineType, Respond, FutureRecord, States
  <2>2. MachineType'
    BY <1>5, <2>1 DEF MachineType, Respond
  <2>3. Keyed'
    BY <1>5 DEF MachineType, Keyed, Respond, FutureRecord
  <2>4. QED
    BY <2>2, <2>3
<1>6. QED
  BY <1>1, <1>2, <1>3, <1>4, <1>5 DEF FutureStep

LEMMA NextFInv == FInv /\ [Next]_vars => FInv'
<1> SUFFICES ASSUME FInv, [Next]_vars
             PROVE  FInv'
  OBVIOUS
<1>1. MP!IInv'
  <2>1. [MP!Next]_MP!managerVars
    BY StepMaps, SameNext DEF FInv, Manager!managerVars, MP!managerVars
  <2>2. QED
    BY <2>1, Assumed, MP!NextIInv DEF FInv
<1>2. MachineType' /\ Keyed'
  <2>1. CASE UNCHANGED vars
    BY <2>1 DEF FInv, vars, MachineType, Keyed
  <2>2. CASE \E r \in Requests : RequestStep(r)
    BY <2>2, RequestStepType
  <2>3. CASE \E f \in Futures : FutureStep(f)
    BY <2>3, FutureStepType
  <2>4. ASSUME NEW f \in Futures, Drop(f)
        PROVE  MachineType' /\ Keyed'
    BY <2>4 DEF FInv, MachineType, Keyed, Drop, FutureRecord, States
  <2>5. ASSUME NEW k \in Keys, Age(k)
        PROVE  MachineType' /\ Keyed'
    BY <2>5, AgesType DEF FInv, MachineType, Keyed, Age, CacheEntry
  <2>6. QED
    BY <2>1, <2>2, <2>3, <2>4, <2>5 DEF Next
<1>3. QED
  BY <1>1, <1>2 DEF FInv

LEMMA InitFInv == Init => FInv
<1> SUFFICES ASSUME Init
             PROVE  FInv
  OBVIOUS
<1>1. MP!IInv
  BY Assumed, SameInit, MP!InitIInv DEF Init
<1>2. MachineType
  BY DEF Init, MachineType, NewFuture, FutureRecord, States, CacheEntry, Futures
<1>3. Keyed
  BY DEF Init, Keyed, NewFuture, Futures
<1>4. QED
  BY <1>1, <1>2, <1>3 DEF FInv

(* The inductive invariant of the state machine and its manager. *)
THEOREM MachineInvariant == Spec => []FInv
<1>1. QED
  BY InitFInv, NextFInv, PTL DEF Spec

(* Every variable of the state machine and of its manager keeps its type,   *)
(* whatever the futures, keys, policies and faults.                         *)
THEOREM TypeCorrect == Spec => []TypeOK
<1>1. FInv => TypeOK
  BY DEF FInv, MachineType, TypeOK, MP!IInv, MP!TypeOK, Manager!TypeOK
<1>2. QED
  BY <1>1, MachineInvariant, PTL

(* The caching state machine uses the manager by the manager's protocol:    *)
(* check once, then resolve, cleanup or drop with the permit, or receive.   *)
THEOREM MachineImplementsManager == Spec => ImplementsManager
<1>1. Init => Manager!Init
  BY DEF Init
<1>2. FInv /\ [Next]_vars => [Manager!Next]_Manager!managerVars
  BY StepMaps DEF FInv
<1>3. QED
  BY <1>1, <1>2, MachineInvariant, PTL DEF Spec, ImplementsManager, Manager!Spec

-----------------------------------------------------------------------------
(* The manager knows a request by the key in its context, and a request     *)
(* that has not read the cache yet has not been to the manager.             *)
Protocol ==
    \A r \in Requests :
        /\ fut[r].state \in {"Initial", "CheckRequestCachePolicy", "PollCache",
                            "CacheAnswered"} => checked[r] = None
        /\ checked[r] # None => checked[r] = fut[r].key

GInv == FInv /\ PermitOnlyWhileFetching /\ Protocol

(* What a check leaves behind, by its outcome. *)
LEMMA CheckOutcome ==
    ASSUME MP!TypeOK, NEW r \in Requests, NEW k \in Keys, NEW n,
           Manager!Check(r, k, n), permit[r] = None, receiver[r] = None
    PROVE  /\ checked' = [checked EXCEPT ![r] = k]
           /\ \A q \in Requests \ {r} : permit'[q] = permit[q] /\ receiver'[q] = receiver[q]
           /\ permit'[r] # None => receiver'[r] = None
           /\ permit'[r] = None => receiver'[r] # None
<1> USE FutureAssumption DEF MP!TypeOK, Manager!Check, Futures
<1>1. CASE Manager!OpenChannel(r, k, n)
  BY <1>1 DEF Manager!OpenChannel
<1>2. CASE Manager!JoinHolders(r, k)
  BY <1>2 DEF Manager!JoinHolders
<1>3. CASE Manager!Subscribe(r, k)
  BY <1>3 DEF Manager!Subscribe
<1>4. QED
  BY <1>1, <1>2, <1>3

LEMMA ToUpstreamGInv ==
    ASSUME GInv, NEW r \in Requests, fut[r].state = "CacheAnswered", ToUpstream(r)
    PROVE  PermitOnlyWhileFetching' /\ Protocol'
<1>1. permit[r] = None /\ receiver[r] = None /\ fut[r].key \in Keys /\ r \in Futures
  BY DEF GInv, FInv, PermitOnlyWhileFetching, Keyed, Futures
<1>2. /\ \A q \in Requests \ {r} : fut'[q] = fut[q]
      /\ fut'[r].key = fut[r].key
      /\ fut'[r].state \in {"PollUpstream", "AwaitResponse"}
  <2>1. PICK s \in {"PollUpstream", "AwaitResponse"} :
            fut' = [fut EXCEPT ![r].state = s, ![r].status = "Miss", ![r].entry = None]
    BY DEF ToUpstream
  <2>2. \A q \in Requests \ {r} : fut'[q] = fut[q]
    BY <2>1, <1>1 DEF GInv, FInv, MachineType, Futures
  <2>3. fut'[r].key = fut[r].key /\ fut'[r].state = s
    BY <2>1, <1>1 DEF GInv, FInv, MachineType, FutureRecord
  <2>4. QED
    BY <2>2, <2>3
<1>3. CASE policy.concurrency = None
  <2>1. fut'[r].state = "PollUpstream" /\ UNCHANGED managerVars
    BY <1>1, <1>3 DEF ToUpstream, GInv, FInv, MachineType, FutureRecord
  <2>2. QED
    BY <1>1, <1>2, <2>1 DEF GInv, PermitOnlyWhileFetching, Protocol, managerVars
<1>4. CASE policy.concurrency # None
  <2>1. Manager!Check(r, fut[r].key, policy.concurrency)
    BY <1>4 DEF ToUpstream
  <2>2. fut'[r].state = IF permit'[r] # None THEN "PollUpstream" ELSE "AwaitResponse"
    BY <1>1, <1>4 DEF ToUpstream, GInv, FInv, MachineType, FutureRecord
  <2>3. MP!TypeOK
    BY DEF GInv, FInv, MP!IInv
  <2>4. /\ checked' = [checked EXCEPT ![r] = fut[r].key]
        /\ \A q \in Requests \ {r} : permit'[q] = permit[q] /\ receiver'[q] = receiver[q]
        /\ permit'[r] # None => receiver'[r] = None
        /\ permit'[r] = None => receiver'[r] # None
    BY <1>1, <2>1, <2>3, CheckOutcome
  <2>5. PermitOnlyWhileFetching'
    BY <1>2, <2>2, <2>4 DEF GInv, PermitOnlyWhileFetching
  <2>6. Protocol'
    BY <1>2, <2>3, <2>4 DEF GInv, Protocol, MP!TypeOK
  <2>7. QED
    BY <2>5, <2>6
<1>5. QED
  BY <1>3, <1>4

(* Steps of a request that do not go to the manager. *)
LEMMA LocalGInv ==
    ASSUME GInv, NEW f \in Futures, UNCHANGED managerVars,
           \A q \in Requests \ {f} : fut'[q].state = fut[q].state
                                     /\ fut'[q].key = fut[q].key,
           f \in Requests =>
             /\ fut'[f].state = "AwaitResponse" <=> fut[f].state = "AwaitResponse"
             /\ permit[f] # None =>
                    fut'[f].state \in {"PollUpstream", "CheckResponseCachePolicy"}
             /\ checked[f] # None =>
                    /\ fut'[f].key = fut[f].key
                    /\ fut'[f].state \notin {"Initial", "CheckRequestCachePolicy",
                                             "PollCache", "CacheAnswered"}
    PROVE  PermitOnlyWhileFetching' /\ Protocol'
BY DEF GInv, PermitOnlyWhileFetching, Protocol, managerVars

LEMMA NextGInv == GInv /\ [Next]_vars => GInv'
<1> SUFFICES ASSUME GInv, [Next]_vars
             PROVE  PermitOnlyWhileFetching' /\ Protocol'
  BY NextFInv DEF GInv
<1> USE DEF GInv, FInv
<1>1. CASE UNCHANGED vars
  BY <1>1 DEF vars, managerVars, PermitOnlyWhileFetching, Protocol
<1>2. ASSUME NEW r \in Requests, RequestStep(r)
      PROVE  PermitOnlyWhileFetching' /\ Protocol'
  <2> r \in Futures
    BY DEF Futures
  <2>1. CASE StartRequest(r) \/ CheckRequestCachePolicy(r) \/ BackendGet(r)
    <3>1. UNCHANGED managerVars
      BY <2>1 DEF StartRequest, CheckRequestCachePolicy, BackendGet
    <3>2. permit[r] = None /\ checked[r] = None
      BY <2>1 DEF StartRequest, CheckRequestCachePolicy, BackendGet, Protocol,
                  PermitOnlyWhileFetching
    <3>3. /\ fut[r].state # "AwaitResponse"
          /\ fut'[r].state # "AwaitResponse"
          /\ \A q \in Requests \ {r} : fut'[q] = fut[q]
      BY <2>1 DEF StartRequest, CheckRequestCachePolicy, BackendGet, MachineType,
                  FutureRecord, Futures
    <3>4. QED
      BY <3>1, <3>2, <3>3, LocalGInv
  <2>2. CASE PollCacheHit(r)
    <3>1. CASE ToUpstream(r)
      BY <2>2, <3>1, ToUpstreamGInv DEF PollCacheHit
    <3>2. CASE ~ToUpstream(r)
      <4>1. UNCHANGED managerVars
        BY <2>2, <3>2 DEF PollCacheHit
      <4>2. permit[r] = None /\ checked[r] = None /\ fut[r].state = "CacheAnswered"
        BY <2>2 DEF PollCacheHit, Protocol, PermitOnlyWhileFetching
      <4>3. /\ fut'[r].state # "AwaitResponse"
            /\ \A q \in Requests \ {r} : fut'[q] = fut[q]
        BY <2>2, <3>2 DEF PollCacheHit, MachineType, FutureRecord, Futures
      <4>4. QED
        BY <4>1, <4>2, <4>3, LocalGInv
    <3>3. QED
      BY <3>1, <3>2
  <2>3. CASE PollCacheMiss(r)
    BY <2>3, ToUpstreamGInv DEF PollCacheMiss
  <2>4. CASE ConvertResponse(r) \/ HandleStaleReturn(r) \/ HandleStaleRevalidate(r)
                \/ HandleStaleOffload(r)
    <3>1. UNCHANGED managerVars
      BY <2>4 DEF ConvertResponse, HandleStaleReturn, HandleStaleRevalidate,
                  HandleStaleOffload
    <3>2. permit[r] = None /\ fut[r].state \in {"ConvertResponse", "HandleStale"}
      BY <2>4 DEF ConvertResponse, HandleStaleReturn, HandleStaleRevalidate,
                  HandleStaleOffload, PermitOnlyWhileFetching
    <3>3. /\ fut'[r].state \in {"Response", "PollUpstream"}
          /\ fut'[r].key = fut[r].key
      <4>1. CASE ConvertResponse(r) \/ HandleStaleReturn(r)
        BY <4>1 DEF ConvertResponse, HandleStaleReturn, MachineType, FutureRecord
      <4>2. CASE HandleStaleRevalidate(r)
        BY <4>2 DEF HandleStaleRevalidate, MachineType, FutureRecord
      <4>3. CASE HandleStaleOffload(r)
        <5>1. CASE fut' = [fut EXCEPT ![r].state = "Response", ![r].status = "Stale"]
          BY <5>1 DEF MachineType, FutureRecord
        <5>2. ASSUME NEW t \in Tasks,
                     fut' = [fut EXCEPT ![r].state = "Response", ![r].status = "Stale",
                                        ![t].state = "PollUpstream",
                                        ![t].key = fut[r].key]
              PROVE  fut'[r].state = "Response" /\ fut'[r].key = fut[r].key
          <6>1. t # r
            BY FutureAssumption
          <6>2. fut'[r] = [fut[r] EXCEPT !.state = "Response", !.status = "Stale"]
            BY <5>2, <6>1 DEF MachineType
          <6>3. QED
            BY <6>2 DEF MachineType, FutureRecord
        <5>3. QED
          BY <4>3, <5>1, <5>2 DEF HandleStaleOffload
      <4>4. QED
        BY <2>4, <4>1, <4>2, <4>3
    <3>4. \A q \in Requests \ {r} : fut'[q] = fut[q]
      BY <2>4, FutureAssumption
      DEF ConvertResponse, HandleStaleReturn, HandleStaleRevalidate,
          HandleStaleOffload, MachineType, FutureRecord, Futures
    <3>5. QED
      BY <3>1, <3>2, <3>3, <3>4, LocalGInv
  <2>5. CASE AwaitOk(r) \/ AwaitError(r)
    <3>1. /\ receiver' = [receiver EXCEPT ![r] = None]
          /\ UNCHANGED <<permit, checked>>
      BY <2>5 DEF AwaitOk, AwaitError, Manager!Receive, Manager!ReceiveError
    <3>2. /\ fut'[r].state \in {"Response", "PollUpstream"}
          /\ fut'[r].key = fut[r].key
          /\ \A q \in Requests \ {r} : fut'[q] = fut[q]
      BY <2>5 DEF AwaitOk, AwaitError, MachineType, FutureRecord, Futures
    <3>3. permit[r] = None /\ fut[r].state = "AwaitResponse"
      BY <2>5 DEF AwaitOk, AwaitError, PermitOnlyWhileFetching
    <3>4. QED
      BY <3>1, <3>2, <3>3 DEF PermitOnlyWhileFetching, Protocol, MP!IInv, MP!TypeOK
  <2>6. QED
    BY <1>2, <2>1, <2>2, <2>3, <2>4, <2>5 DEF RequestStep
<1>3. ASSUME NEW f \in Futures, FutureStep(f)
      PROVE  PermitOnlyWhileFetching' /\ Protocol'
  <2>1. /\ \A q \in Requests \ {f} : fut'[q] = fut[q]
        /\ fut'[f].key = fut[f].key
    BY <1>3 DEF FutureStep, PollUpstream, ResponseCacheable, ResponseNonCacheable,
                UpdateCache, Respond, MachineType, FutureRecord, Futures
  <2>2. CASE PollUpstream(f) \/ UpdateCache(f) \/ Respond(f)
    <3>1. UNCHANGED managerVars
      BY <2>2 DEF PollUpstream, UpdateCache, Respond
    <3>2. /\ fut[f].state \in {"PollUpstream", "UpdateCache", "Response"}
          /\ fut'[f].state \in {"CheckResponseCachePolicy", "Response", "Ready"}
          /\ fut[f].state = "PollUpstream" /\ fut[f].key # None =>
                fut'[f].state = "CheckResponseCachePolicy"
      BY <2>2 DEF PollUpstream, UpdateCache, Respond, MachineType, FutureRecord
    <3>3. f \in Requests /\ permit[f] # None =>
              fut[f].state = "PollUpstream" /\ fut[f].key # None
      BY <3>2, Assumed DEF PermitOnlyWhileFetching, Protocol, MP!IInv, MP!PermitKeys
    <3>4. QED
      BY <2>1, <3>1, <3>2, <3>3, LocalGInv
  <2>3. CASE ResponseCacheable(f) \/ ResponseNonCacheable(f)
    <3>1. /\ fut[f].state = "CheckResponseCachePolicy"
          /\ fut'[f].state \in {"UpdateCache", "Response"}
      BY <2>3 DEF ResponseCacheable, ResponseNonCacheable, MachineType, FutureRecord
    <3>2. /\ UNCHANGED <<receiver, checked>>
          /\ \A q \in Requests : permit'[q] # None => q # f /\ permit[q] # None
      BY <2>3 DEF ResponseCacheable, ResponseNonCacheable, Manager!Resolve,
                  Manager!Cleanup, Manager!ReleasePermit, managerVars, MP!IInv, MP!TypeOK
    <3>3. QED
      BY <2>1, <3>1, <3>2 DEF PermitOnlyWhileFetching, Protocol
  <2>4. QED
    BY <1>3, <2>2, <2>3 DEF FutureStep
<1>4. ASSUME NEW f \in Futures, Drop(f)
      PROVE  PermitOnlyWhileFetching' /\ Protocol'
  <2>1. /\ \A q \in Requests \ {f} : fut'[q] = fut[q]
        /\ fut'[f].key = fut[f].key
        /\ fut'[f].state = "Dropped"
    BY <1>4 DEF Drop, MachineType, FutureRecord, Futures
  <2>2. /\ UNCHANGED checked
        /\ \A q \in Requests \ {f} : permit'[q] = permit[q] /\ receiver'[q] = receiver[q]
        /\ f \in Requests => permit'[f] = None /\ receiver'[f] = None
    BY <1>4 DEF Drop, Manager!Drop, Manager!ReleasePermit, managerVars, MP!IInv, MP!TypeOK
  <2>3. QED
    BY <2>1, <2>2 DEF PermitOnlyWhileFetching, Protocol
<1>5. ASSUME NEW k \in Keys, Age(k)
      PROVE  PermitOnlyWhileFetching' /\ Protocol'
  BY <1>5 DEF Age, managerVars, PermitOnlyWhileFetching, Protocol
<1>6. QED
  BY <1>1, <1>2, <1>3, <1>4, <1>5 DEF Next

LEMMA InitGInv == Init => GInv
<1> SUFFICES ASSUME Init
             PROVE  PermitOnlyWhileFetching /\ Protocol
  BY InitFInv DEF GInv
<1>1. \A r \in Requests : fut[r].state = "Initial" /\ fut[r].key = None
  BY DEF Init, NewFuture, Futures
<1>2. \A r \in Requests : permit[r] = None /\ receiver[r] = None /\ checked[r] = None
  BY DEF Init, Manager!Init
<1>3. QED
  BY <1>1, <1>2 DEF PermitOnlyWhileFetching, Protocol

THEOREM ProtocolInvariant == Spec => []GInv
BY InitGInv, NextGInv, PTL DEF Spec

(* A future that ended, by answering or by being dropped, holds no permit   *)
(* and waits on no channel.                                                 *)
THEOREM PermitsFollowFetches == Spec => []PermitOnlyWhileFetching
<1>1. GInv => PermitOnlyWhileFetching
  BY DEF GInv
<1>2. QED
  BY <1>1, ProtocolInvariant, PTL

(* Unless futures are dropped, whoever has to wait is waiting for a permit  *)
(* holder of the same key that is fetching or judging a response: the       *)
(* manager never lets a request wait for nobody.                            *)
THEOREM WaitersHaveFetchers == Spec => []WaiterHasFetcher
<1>1. GInv /\ MP!NoOrphanEntry => WaiterHasFetcher
  <2> SUFFICES ASSUME GInv, MP!NoOrphanEntry, "cancel" \notin Faults,
                      NEW r \in Requests, fut[r].state = "AwaitResponse",
                      Manager!RecvResult(r) = "Pending"
               PROVE  \E s \in Requests :
                         /\ permit[s] = receiver[r]
                         /\ fut[s].key = fut[r].key
                         /\ fut[s].state \in {"PollUpstream", "CheckResponseCachePolicy"}
    BY DEF WaiterHasFetcher
  <2>1. receiver[r] # None
    BY DEF GInv, PermitOnlyWhileFetching
  <2>2. PICK k \in Keys : inFlight[k] = receiver[r]
    BY DEF Manager!RecvResult, Manager!SenderAlive
  <2>3. PICK s \in Requests : permit[s] = receiver[r]
    BY <2>1, <2>2 DEF MP!NoOrphanEntry, MP!Holders
  <2>4. fut[s].state \in {"PollUpstream", "CheckResponseCachePolicy"}
    BY <2>1, <2>3 DEF GInv, PermitOnlyWhileFetching
  <2>5. checked[s] = checked[receiver[r]] /\ checked[r] = checked[receiver[r]]
    BY <2>1, <2>3 DEF GInv, FInv, MP!IInv, MP!PermitKeys, MP!ReceiverKeys
  <2>6. checked[s] = fut[s].key /\ checked[r] = fut[r].key
    BY <2>1, <2>3 DEF GInv, Protocol, FInv, MP!IInv, MP!PermitKeys, MP!ReceiverKeys
  <2>7. QED
    BY <2>3, <2>4, <2>5, <2>6
<1>2. Init => MP!NoOrphanEntry
  BY DEF Init, Manager!Init, MP!NoOrphanEntry
<1>3. GInv /\ MP!NoOrphanEntry /\ [Next]_vars => MP!NoOrphanEntry'
  <2> SUFFICES ASSUME GInv, MP!NoOrphanEntry, [Next]_vars
               PROVE  MP!NoOrphanEntry'
    OBVIOUS
  <2>1. [MP!Next]_MP!managerVars
    BY StepMaps, SameNext DEF GInv, FInv, Manager!managerVars, MP!managerVars
  <2>2. QED
    BY <2>1, Assumed, MP!NextOwners DEF GInv, FInv
<1>4. QED
  BY <1>1, <1>2, <1>3, ProtocolInvariant, PTL DEF Spec

-----------------------------------------------------------------------------
(* What a future carries in each state: what it will say of its response,   *)
(* the response in hand, and the calls of the upstream it took (n).  This   *)
(* is StatusMatchesOrigin with all the states before the last one.          *)
BeforeFetch == {"Initial", "NotSpawned", "CheckRequestCachePolicy", "PollCache",
                "CacheAnswered", "ConvertResponse", "HandleStale", "AwaitResponse"}
Judged == {"UpdateCache", "Response", "Ready", "Dropped"}

(* A future called the upstream at most once, and only to fetch. *)
CountsCalls(x, n) ==
    /\ x.state \in BeforeFetch => n = 0
    /\ x.state \in {"PollUpstream", "CheckResponseCachePolicy"} => n = 1

(* Before the lookup and while it fetches, a future holds no response. *)
EmptyHanded(x) ==
    /\ x.state \in {"Initial", "NotSpawned", "CheckRequestCachePolicy", "PollCache",
                    "AwaitResponse", "PollUpstream"} =>
            x.status = "Miss" /\ x.entry = None
    /\ x.state = "CacheAnswered" /\ x.entry = None => x.status = "Miss"
    /\ x.state \in {"Initial", "CheckRequestCachePolicy"} => x.key = None

(* What a lookup found is a hit on the backend, of the age its state says. *)
FromCache(x) ==
    /\ x.state \in {"CacheAnswered", "ConvertResponse", "HandleStale"} /\ x.entry # None =>
            x.status = "Hit" /\ x.source = "Backend"
    /\ x.state = "ConvertResponse" => x.entry # None /\ x.entry.age = "Actual"
    /\ x.state = "HandleStale" => x.entry # None /\ x.entry.age = "Stale"

(* From its response on: the four ways to have one, each told by the status. *)
Answers(f, x, n, stale) ==
    x.state \in {"CheckResponseCachePolicy", "UpdateCache", "Response", "Ready"} =>
        /\ x.entry # None
        /\ \/ x.status = "Miss" /\ x.entry.by = f /\ n = 1
           \/ /\ x.status = "Miss" /\ x.entry.by \in Requests \ {f} /\ n = 0
              /\ x.state \in {"Response", "Ready"}
           \/ /\ x.status = "Hit" /\ x.source = "Backend" /\ n = 0
              /\ x.entry.age = "Actual" /\ x.state # "CheckResponseCachePolicy"
           \/ /\ x.status = "Stale" /\ x.source = "Backend" /\ n = 0
              /\ x.entry.age = "Stale" /\ stale # "Revalidate"
              /\ x.state \in {"Response", "Ready"}

(* A response is judged on the way out, and stored only when cacheable. *)
Verdict(x) ==
    /\ x.verdict # None => x.state \in Judged
    /\ x.state = "UpdateCache" /\ x.status = "Miss" => x.verdict = "Cacheable"
    /\ x.state = "Ready" /\ x.status = "Miss" => x.source = "Upstream"

Carries(f, x, n, stale) ==
    /\ CountsCalls(x, n)
    /\ EmptyHanded(x)
    /\ FromCache(x)
    /\ Answers(f, x, n, stale)
    /\ Verdict(x)

AllCarry == \A f \in Futures : Carries(f, fut[f], calls[f], policy.stale)

(* SharedOnlyIfCacheable, with what futures and channels hold on the way.   *)
Shareable(f, k) == f = None \/ (fut[f].verdict = "Cacheable" /\ fut[f].key = k)

(* What is stored, what a future took from another, what waits in a channel. *)
KeyShareable(k) == store[k] # None => Shareable(store[k].by, k)

StoreShareable == \A k \in Keys : KeyShareable(k)

Borrowed(f, x) == x.entry # None /\ (x.status # "Miss" \/ x.entry.by # f)

EntriesShareable ==
    \A f \in Futures : Borrowed(f, fut[f]) => Shareable(fut[f].entry.by, fut[f].key)

MessagesShareable ==
    \A c \in Requests :
        broadcast[c] # <<>> => fut[broadcast[c][1]].verdict = "Cacheable"

CInv == /\ GInv
        /\ AllCarry
        /\ StoreShareable
        /\ EntriesShareable
        /\ MessagesShareable

-----------------------------------------------------------------------------
(* The types the steps below keep citing. *)
LEMMA FutTyped ==
    ASSUME GInv
    PROVE  /\ fut \in [Futures -> FutureRecord]
           /\ calls \in [Futures -> Nat]
           /\ \A f \in Futures : fut[f] \in FutureRecord
           /\ Requests \subseteq Futures /\ Tasks \subseteq Futures
  BY DEF GInv, FInv, MachineType, Futures

(* A step that writes to one future. *)
OnlyWrites(f, x) == fut' = [fut EXCEPT ![f] = x]

LEMMA Written ==
    ASSUME GInv, NEW f \in Futures, NEW x, OnlyWrites(f, x)
    PROVE  /\ fut'[f] = x
           /\ \A g \in Futures \ {f} : fut'[g] = fut[g]
  BY FutTyped DEF OnlyWrites

(* A call of the upstream is counted for the future that makes it. *)
LEMMA Called ==
    ASSUME GInv, NEW f \in Futures, CallUpstream(f)
    PROVE  /\ calls'[f] = calls[f] + 1
           /\ \A g \in Futures \ {f} : calls'[g] = calls[g]
  BY FutTyped DEF CallUpstream

(* A step of one future can only break what that future carries. *)
LEMMA OneCarries ==
    ASSUME CInv, UNCHANGED policy, NEW f \in Futures,
           \A g \in Futures \ {f} : fut'[g] = fut[g] /\ calls'[g] = calls[g],
           Carries(f, fut'[f], calls'[f], policy.stale)
    PROVE  AllCarry'
  BY DEF CInv, AllCarry

(* A step of one future that calls nobody, and one that calls the upstream. *)
LEMMA QuietCarries ==
    ASSUME CInv, UNCHANGED <<policy, calls>>, NEW f \in Futures, NEW x,
           OnlyWrites(f, x), Carries(f, x, calls[f], policy.stale)
    PROVE  AllCarry'
<1>1. GInv
  BY DEF CInv
<1>2. fut'[f] = x /\ \A g \in Futures \ {f} : fut'[g] = fut[g]
  BY <1>1, Written
<1>3. QED
  BY <1>2, OneCarries

(* What the invariant says of one future. *)
LEMMA Carrying ==
    ASSUME CInv, NEW f \in Futures
    PROVE  Carries(f, fut[f], calls[f], policy.stale)
  BY DEF CInv, AllCarry

(* A future that starts to fetch, or to wait, carries nothing. *)
LEMMA ReachUpstream ==
    ASSUME NEW f \in Futures, NEW x, NEW n \in Nat, NEW stale,
           x.state \in {"PollUpstream", "AwaitResponse"}, x.status = "Miss",
           x.entry = None, x.verdict = None,
           n = IF x.state = "PollUpstream" THEN 1 ELSE 0
    PROVE  Carries(f, x, n, stale)
  BY DEF Carries, CountsCalls, EmptyHanded, FromCache, Answers, Verdict, BeforeFetch, Judged

(* Before its response is judged a future has no verdict. *)
LEMMA NoVerdictYet ==
    ASSUME CInv, NEW f \in Futures, fut[f].state \notin Judged
    PROVE  fut[f].verdict = None
  BY Carrying DEF Carries, Verdict

(* Before it fetches a future has called nobody. *)
LEMMA NoCallYet ==
    ASSUME CInv, NEW f \in Futures, fut[f].state \in BeforeFetch
    PROVE  calls[f] = 0
  BY Carrying DEF Carries, CountsCalls

(* A fetch starts: the one call of this future. *)
LEMMA CallCarries ==
    ASSUME CInv, UNCHANGED policy, NEW f \in Futures, NEW x, OnlyWrites(f, x),
           CallUpstream(f), fut[f].state \in BeforeFetch,
           x.state = "PollUpstream", x.status = "Miss", x.entry = None,
           x.verdict = fut[f].verdict
    PROVE  AllCarry'
<1>1. GInv /\ calls[f] = 0 /\ fut[f].verdict = None
  BY NoCallYet, NoVerdictYet DEF CInv, BeforeFetch, Judged
<1>2. fut'[f] = x /\ \A g \in Futures \ {f} : fut'[g] = fut[g]
  BY <1>1, Written
<1>3. calls'[f] = 1 /\ \A g \in Futures \ {f} : calls'[g] = calls[g]
  BY <1>1, Called
<1>4. Carries(f, x, 1, policy.stale)
  BY <1>1, ReachUpstream
<1>5. QED
  BY <1>2, <1>3, <1>4, OneCarries

(* ToUpstream, from a lookup that found nothing or from a disabled cache. *)
LEMMA ToUpstreamCarries ==
    ASSUME CInv, NEW r \in Requests, fut[r].state = "CacheAnswered", ToUpstream(r),
           UNCHANGED policy
    PROVE  AllCarry'
<1> r \in Futures /\ GInv
  BY DEF Futures, CInv
<1>1. calls[r] = 0 /\ fut[r].verdict = None
  BY NoCallYet, NoVerdictYet DEF BeforeFetch, Judged
<1>2. PICK s \in {"PollUpstream", "AwaitResponse"} :
         /\ fut' = [fut EXCEPT ![r].state = s, ![r].status = "Miss", ![r].entry = None]
         /\ IF s = "PollUpstream" THEN CallUpstream(r) ELSE UNCHANGED calls
  BY DEF ToUpstream
<1> DEFINE x == [fut[r] EXCEPT !.state = s, !.status = "Miss", !.entry = None]
<1>3. /\ x.state = s /\ x.status = "Miss" /\ x.entry = None /\ x.verdict = None
  BY <1>1, FutTyped DEF FutureRecord
<1>4. OnlyWrites(r, x)
  BY <1>2 DEF OnlyWrites
<1>5. fut'[r] = x /\ \A g \in Futures \ {r} : fut'[g] = fut[g]
  BY <1>4, Written
<1>6. /\ \A g \in Futures \ {r} : calls'[g] = calls[g]
      /\ calls'[r] = IF s = "PollUpstream" THEN 1 ELSE 0
  BY <1>1, <1>2, Called
<1> HIDE DEF x
<1>7. Carries(r, x, calls'[r], policy.stale)
  BY <1>3, <1>6, ReachUpstream
<1>8. QED
  BY <1>5, <1>6, <1>7, OneCarries


(* A stale answer, and the background task it may spawn. *)
LEMMA OffloadCarries ==
    ASSUME CInv, NEW r \in Requests, HandleStaleOffload(r)
    PROVE  AllCarry'
<1> r \in Futures /\ GInv /\ fut[r].state = "HandleStale"
  BY DEF Futures, CInv, HandleStaleOffload
<1> DEFINE x == [fut[r] EXCEPT !.state = "Response", !.status = "Stale"]
<1>1. fut \in [Futures -> FutureRecord] /\ UNCHANGED policy
  BY FutTyped DEF HandleStaleOffload
<1>2. Carries(r, x, calls[r], policy.stale)
  BY <1>1, Carrying DEF HandleStaleOffload, FutureRecord, Carries, CountsCalls, EmptyHanded,
               FromCache, Answers, Verdict, BeforeFetch, Judged
<1>3. CASE /\ fut' = [fut EXCEPT ![r].state = "Response", ![r].status = "Stale"]
           /\ UNCHANGED calls
  BY <1>1, <1>2, <1>3, QuietCarries DEF OnlyWrites
<1>4. ASSUME NEW t \in Tasks, fut[t].state = "NotSpawned",
             fut' = [fut EXCEPT ![r].state = "Response", ![r].status = "Stale",
                                ![t].state = "PollUpstream", ![t].key = fut[r].key],
             CallUpstream(t)
      PROVE  AllCarry'
  <2> DEFINE y == [fut[t] EXCEPT !.state = "PollUpstream", !.key = fut[r].key]
  <2>1. t \in Futures /\ t # r
    BY FutureAssumption DEF Futures
  <2>2. /\ fut'[r] = x /\ fut'[t] = y
        /\ \A g \in Futures \ {r, t} : fut'[g] = fut[g]
    BY <1>1, <1>4, <2>1
  <2>3. calls[t] = 0 /\ fut[t].verdict = None
    BY <1>4, <2>1, NoCallYet, NoVerdictYet DEF BeforeFetch, Judged
  <2>4. calls'[t] = 1 /\ \A g \in Futures \ {t} : calls'[g] = calls[g]
    BY <1>4, <2>1, <2>3, Called
  <2>5. /\ y.state = "PollUpstream" /\ y.status = "Miss" /\ y.entry = None
        /\ y.verdict = None
    BY <1>1, <1>4, <2>1, <2>3, Carrying DEF FutureRecord, Carries, EmptyHanded
  <2> HIDE DEF x, y
  <2>6. Carries(t, y, 1, policy.stale)
    BY <2>1, <2>5, ReachUpstream
  <2>7. QED
    BY <1>1, <1>2, <2>1, <2>2, <2>4, <2>6 DEF CInv, AllCarry
<1>5. QED
  BY <1>3, <1>4 DEF HandleStaleOffload

(* What a waiter is given was sent by another request whose response is     *)
(* cacheable and fetched for the waiter's key.                              *)
LEMMA MessageFromOther ==
    ASSUME CInv, NEW r \in Requests, fut[r].state = "AwaitResponse", Manager!Receive(r)
    PROVE  LET s == broadcast[receiver[r]][1]
           IN  s \in Requests \ {r} /\ fut[s].verdict = "Cacheable" /\ fut[s].key = fut[r].key
<1> DEFINE c == receiver[r]
           s == broadcast[c][1]
<1>1. GInv /\ MP!IInv /\ r \in Futures
  BY DEF CInv, GInv, FInv, Futures
<1>2. s \in Requests
  BY <1>1, BroadcastType
<1>3. c \in Requests /\ c # None /\ broadcast[c] # <<>>
  <2>1. c \in Requests /\ c # None /\ broadcast[c] \in Seq(Requests)
    BY <1>1 DEF Manager!Receive, MP!IInv, MP!TypeOK
  <2>2. Len(broadcast[c]) = 1
    BY DEF Manager!Receive, Manager!RecvResult, Manager!CHANNEL_CAPACITY
  <2>3. broadcast[c] = <<>> => Len(broadcast[c]) = 0
    OBVIOUS
  <2>4. QED
    BY <2>1, <2>2, <2>3
<1>4. fut[s].verdict = "Cacheable"
  BY <1>3 DEF CInv, MessagesShareable
<1>5. fut[r].verdict = None
  BY <1>1, NoVerdictYet DEF Judged
<1>6. s # r
  BY <1>4, <1>5, FutureAssumption DEF Verdicts
<1>7. checked[s] = checked[c] /\ checked[c] # None /\ checked[r] = checked[c]
  BY <1>1, <1>3 DEF MP!IInv, MP!BroadcastKeys, MP!ReceiverKeys
<1>8. fut[s].key = fut[r].key
  BY <1>2, <1>7 DEF CInv, GInv, Protocol
<1>9. QED
  BY <1>2, <1>4, <1>6, <1>8

(* A waiter takes a response of another request. *)
LEMMA AwaitOkCarries ==
    ASSUME CInv, NEW r \in Requests, AwaitOk(r)
    PROVE  AllCarry'
<1> r \in Futures /\ GInv
  BY DEF Futures, CInv
<1> DEFINE s == broadcast[receiver[r]][1]
           x == [fut[r] EXCEPT !.state = "Response", !.entry = [by |-> s, age |-> "Actual"]]
<1>1. OnlyWrites(r, x) /\ UNCHANGED <<policy, calls>>
  BY DEF AwaitOk, OnlyWrites
<1>2. s \in Requests \ {r}
  BY MessageFromOther DEF AwaitOk
<1>3. /\ fut[r] \in FutureRecord
      /\ fut[r].status = "Miss" /\ fut[r].verdict = None /\ calls[r] = 0
  BY FutTyped, Carrying, NoCallYet, NoVerdictYet
  DEF AwaitOk, Carries, EmptyHanded, BeforeFetch, Judged
<1>4. /\ x.state = "Response" /\ x.status = "Miss" /\ x.verdict = None
      /\ x.entry = [by |-> s, age |-> "Actual"]
  BY <1>3 DEF FutureRecord
<1>5. x.entry.by = s /\ x.entry # None
  BY <1>2, <1>4, FutureAssumption DEF CacheEntry, Freshness, Futures
<1> HIDE DEF x, s
<1>6. Carries(r, x, calls[r], policy.stale)
  BY <1>2, <1>3, <1>4, <1>5 DEF Carries, CountsCalls, EmptyHanded,
                    FromCache, Answers, Verdict, BeforeFetch, Judged
<1>7. QED
  BY <1>1, <1>6, QuietCarries

(* Every step of a request up to its fetch, or to its answer without one. *)
LEMMA RequestCarries ==
    ASSUME CInv, NEW r \in Requests, RequestStep(r)
    PROVE  AllCarry'
<1> r \in Futures /\ GInv
  BY DEF Futures, CInv
<1>0. /\ fut[r] \in FutureRecord
      /\ Carries(r, fut[r], calls[r], policy.stale)
      /\ fut[r].state \in BeforeFetch => calls[r] = 0 /\ fut[r].verdict = None
  BY FutTyped, Carrying, NoCallYet, NoVerdictYet DEF BeforeFetch, Judged
<1> USE DEF FutureRecord
<1>1. CASE StartRequest(r)
  <2>1. CASE policy.enabled
    <3> DEFINE x == [fut[r] EXCEPT !.state = "CheckRequestCachePolicy"]
    <3>1. OnlyWrites(r, x) /\ UNCHANGED <<policy, calls>>
      BY <1>1, <2>1 DEF StartRequest, OnlyWrites
    <3>2. Carries(r, x, calls[r], policy.stale)
      BY <1>0, <1>1 DEF StartRequest, Carries, CountsCalls, EmptyHanded, FromCache,
                        Answers, Verdict, BeforeFetch, Judged
    <3>3. QED
      BY <3>1, <3>2, QuietCarries
  <2>2. CASE ~policy.enabled
    <3> DEFINE x == [fut[r] EXCEPT !.state = "PollUpstream"]
    <3>1. OnlyWrites(r, x) /\ UNCHANGED policy /\ CallUpstream(r)
      BY <1>1, <2>2 DEF StartRequest, OnlyWrites
    <3>2. /\ x.state = "PollUpstream" /\ x.status = "Miss" /\ x.entry = None
          /\ x.verdict = fut[r].verdict /\ fut[r].state \in BeforeFetch
      BY <1>0, <1>1 DEF StartRequest, Carries, EmptyHanded, BeforeFetch
    <3> HIDE DEF x
    <3>3. QED
      BY <3>1, <3>2, CallCarries
  <2>3. QED
    BY <2>1, <2>2
<1>2. CASE CheckRequestCachePolicy(r)
  <2>1. ASSUME NEW k \in Keys, UNCHANGED calls,
               fut' = [fut EXCEPT ![r].state = "PollCache", ![r].key = k]
        PROVE  AllCarry'
    <3> DEFINE x == [fut[r] EXCEPT !.state = "PollCache", !.key = k]
    <3>1. OnlyWrites(r, x) /\ UNCHANGED <<policy, calls>>
      BY <1>2, <2>1 DEF CheckRequestCachePolicy, OnlyWrites
    <3>2. Carries(r, x, calls[r], policy.stale)
      BY <1>0, <1>2 DEF CheckRequestCachePolicy, Carries, CountsCalls, EmptyHanded,
                        FromCache, Answers, Verdict, BeforeFetch, Judged
    <3>3. QED
      BY <3>1, <3>2, QuietCarries
  <2>2. CASE /\ fut' = [fut EXCEPT ![r].state = "PollUpstream"]
             /\ CallUpstream(r)
    <3> DEFINE x == [fut[r] EXCEPT !.state = "PollUpstream"]
    <3>1. OnlyWrites(r, x) /\ UNCHANGED policy
      BY <1>2, <2>2 DEF CheckRequestCachePolicy, OnlyWrites
    <3>2. /\ x.state = "PollUpstream" /\ x.status = "Miss" /\ x.entry = None
          /\ x.verdict = fut[r].verdict /\ fut[r].state \in BeforeFetch
      BY <1>0, <1>2 DEF CheckRequestCachePolicy, Carries, EmptyHanded, BeforeFetch
    <3> HIDE DEF x
    <3>3. QED
      BY <2>2, <3>1, <3>2, CallCarries
  <2>3. QED
    BY <1>2, <2>1, <2>2 DEF CheckRequestCachePolicy
<1>3. CASE BackendGet(r)
  <2>0. UNCHANGED <<policy, calls>>
    BY <1>3 DEF BackendGet
  <2>1. ASSUME NEW m \in ReadModes, store[fut[r].key] # None,
               fut' = [fut EXCEPT ![r].state = "CacheAnswered",
                                  ![r].entry = store[fut[r].key],
                                  ![r].status = "Hit",
                                  ![r].source = "Backend",
                                  ![r].mode = m]
        PROVE  AllCarry'
    <3> DEFINE x == [fut[r] EXCEPT !.state = "CacheAnswered", !.entry = store[fut[r].key],
                                   !.status = "Hit", !.source = "Backend", !.mode = m]
    <3>1. OnlyWrites(r, x)
      BY <2>1 DEF OnlyWrites
    <3>2. Carries(r, x, calls[r], policy.stale)
      BY <1>0, <1>3, <2>1 DEF BackendGet, Carries, CountsCalls, EmptyHanded,
                        FromCache, Answers, Verdict, BeforeFetch, Judged
    <3>3. QED
      BY <2>0, <3>1, <3>2, QuietCarries
  <2>2. CASE fut' = [fut EXCEPT ![r].state = "CacheAnswered"]
    <3> DEFINE x == [fut[r] EXCEPT !.state = "CacheAnswered"]
    <3>1. OnlyWrites(r, x)
      BY <2>2 DEF OnlyWrites
    <3>2. Carries(r, x, calls[r], policy.stale)
      BY <1>0, <1>3 DEF BackendGet, Carries, CountsCalls, EmptyHanded,
                        FromCache, Answers, Verdict, BeforeFetch, Judged
    <3>3. QED
      BY <2>0, <3>1, <3>2, QuietCarries
  <2>3. QED
    BY <1>3, <2>1, <2>2 DEF BackendGet
<1>4. CASE PollCacheHit(r)
  <2>0. fut[r].state = "CacheAnswered" /\ fut[r].entry # None /\ UNCHANGED policy
    BY <1>4 DEF PollCacheHit
  <2>1. fut[r].entry \in CacheEntry
    BY <1>0, <2>0
  <2>2. PICK age \in IF "age" \in Faults THEN AgesFrom(fut[r].entry.age)
                                         ELSE {fut[r].entry.age} :
        \/ /\ age = "Actual" /\ UNCHANGED calls
           /\ fut' = [fut EXCEPT ![r].state = IF fut[r].mode = "Refill"
                                              THEN "UpdateCache"
                                              ELSE "ConvertResponse"]
        \/ /\ age = "Stale" /\ UNCHANGED calls
           /\ fut' = [fut EXCEPT ![r].state = "HandleStale", ![r].entry.age = age]
        \/ ToUpstream(r)
    BY <1>4 DEF PollCacheHit
  <2>3. CASE /\ age = "Actual" /\ UNCHANGED calls
             /\ fut' = [fut EXCEPT ![r].state = IF fut[r].mode = "Refill"
                                                THEN "UpdateCache"
                                                ELSE "ConvertResponse"]
    <3> DEFINE x == [fut[r] EXCEPT !.state = IF fut[r].mode = "Refill"
                                             THEN "UpdateCache" ELSE "ConvertResponse"]
    <3>1. OnlyWrites(r, x)
      BY <2>3 DEF OnlyWrites
    <3>2. fut[r].entry.age = "Actual"
      BY <2>1, <2>2, <2>3 DEF AgesFrom, CacheEntry, Freshness
    <3>3. Carries(r, x, calls[r], policy.stale)
      BY <1>0, <2>0, <3>2 DEF Carries, CountsCalls, EmptyHanded,
                        FromCache, Answers, Verdict, BeforeFetch, Judged
    <3>4. QED
      BY <2>0, <2>3, <3>1, <3>3, QuietCarries
  <2>4. CASE /\ age = "Stale" /\ UNCHANGED calls
             /\ fut' = [fut EXCEPT ![r].state = "HandleStale", ![r].entry.age = age]
    <3> DEFINE x == [fut[r] EXCEPT !.state = "HandleStale", !.entry.age = age]
    <3>1. OnlyWrites(r, x)
      BY <2>4 DEF OnlyWrites
    <3>2. /\ x.state = "HandleStale" /\ x.status = fut[r].status
          /\ x.source = fut[r].source /\ x.verdict = fut[r].verdict
          /\ x.entry = [fut[r].entry EXCEPT !.age = age]
      BY <1>0
    <3>3. x.entry # None /\ x.entry.age = "Stale"
      <4>1. x.entry \in CacheEntry /\ x.entry.age = "Stale"
        BY <2>1, <2>4, <3>2 DEF CacheEntry, Freshness
      <4>2. None \notin CacheEntry
        BY FutureAssumption
      <4>3. QED
        BY <4>1, <4>2
    <3> HIDE DEF x
    <3>4. Carries(r, x, calls[r], policy.stale)
      BY <1>0, <2>0, <3>2, <3>3 DEF Carries, CountsCalls, EmptyHanded,
                        FromCache, Answers, Verdict, BeforeFetch, Judged
    <3>5. QED
      BY <2>0, <2>4, <3>1, <3>4, QuietCarries
  <2>5. QED
    BY <2>0, <2>2, <2>3, <2>4, ToUpstreamCarries
<1>5. CASE PollCacheMiss(r)
  BY <1>5, ToUpstreamCarries DEF PollCacheMiss
<1>6. CASE ConvertResponse(r)
  <2> DEFINE x == [fut[r] EXCEPT !.state = "Response"]
  <2>1. OnlyWrites(r, x) /\ UNCHANGED <<policy, calls>>
    BY <1>6 DEF ConvertResponse, OnlyWrites
  <2>2. Carries(r, x, calls[r], policy.stale)
    BY <1>0, <1>6 DEF ConvertResponse, Carries, CountsCalls, EmptyHanded,
                      FromCache, Answers, Verdict, BeforeFetch, Judged
  <2>3. QED
    BY <2>1, <2>2, QuietCarries
<1>7. CASE HandleStaleReturn(r)
  <2> DEFINE x == [fut[r] EXCEPT !.state = "Response", !.status = "Stale"]
  <2>1. OnlyWrites(r, x) /\ UNCHANGED <<policy, calls>>
    BY <1>7 DEF HandleStaleReturn, OnlyWrites
  <2>2. Carries(r, x, calls[r], policy.stale)
    BY <1>0, <1>7 DEF HandleStaleReturn, Carries, CountsCalls, EmptyHanded,
                      FromCache, Answers, Verdict, BeforeFetch, Judged
  <2>3. QED
    BY <2>1, <2>2, QuietCarries
<1>8. CASE HandleStaleRevalidate(r)
  <2> DEFINE x == [fut[r] EXCEPT !.state = "PollUpstream", !.status = "Miss",
                                 !.entry = None]
  <2>1. OnlyWrites(r, x) /\ UNCHANGED policy /\ CallUpstream(r)
    BY <1>8 DEF HandleStaleRevalidate, OnlyWrites
  <2>2. /\ x.state = "PollUpstream" /\ x.status = "Miss" /\ x.entry = None
        /\ x.verdict = fut[r].verdict /\ fut[r].state \in BeforeFetch
    BY <1>0, <1>8 DEF HandleStaleRevalidate, BeforeFetch
  <2> HIDE DEF x
  <2>3. QED
    BY <2>1, <2>2, CallCarries
<1>9. CASE HandleStaleOffload(r)
  BY <1>9, OffloadCarries
<1>10. CASE AwaitOk(r)
  BY <1>10, AwaitOkCarries
<1>11. CASE AwaitError(r)
  <2> DEFINE x == [fut[r] EXCEPT !.state = "PollUpstream"]
  <2>1. OnlyWrites(r, x) /\ UNCHANGED policy /\ CallUpstream(r)
    BY <1>11 DEF AwaitError, OnlyWrites
  <2>2. /\ x.state = "PollUpstream" /\ x.status = "Miss" /\ x.entry = None
        /\ x.verdict = fut[r].verdict /\ fut[r].state \in BeforeFetch
    BY <1>0, <1>11 DEF AwaitError, Carries, EmptyHanded, BeforeFetch
  <2> HIDE DEF x
  <2>3. QED
    BY <2>1, <2>2, CallCarries
<1>12. QED
  BY <1>1, <1>2, <1>3, <1>4, <1>5, <1>6, <1>7, <1>8, <1>9, <1>10, <1>11 DEF RequestStep

(* The end of a fetch, a task that is aborted, a request that is dropped. *)
LEMMA EndCarries ==
    ASSUME CInv, NEW f \in Futures, FutureStep(f) \/ Drop(f)
    PROVE  AllCarry'
<1> GInv
  BY DEF CInv
<1>0. /\ fut[f] \in FutureRecord
      /\ Carries(f, fut[f], calls[f], policy.stale)
  BY FutTyped, Carrying
<1> USE DEF FutureRecord
<1>1. CASE PollUpstream(f)
  <2> DEFINE x == [fut[f] EXCEPT !.state = IF fut[f].key = None
                                           THEN "Response"
                                           ELSE "CheckResponseCachePolicy",
                                 !.entry = [by |-> f, age |-> "Actual"]]
  <2>1. OnlyWrites(f, x) /\ UNCHANGED <<policy, calls>>
    BY <1>1 DEF PollUpstream, OnlyWrites
  <2>2. /\ x.state \in {"Response", "CheckResponseCachePolicy"}
        /\ x.status = "Miss" /\ x.verdict = None /\ calls[f] = 1
        /\ x.entry = [by |-> f, age |-> "Actual"]
    BY <1>0, <1>1 DEF PollUpstream, Carries, CountsCalls, EmptyHanded, Verdict, Judged
  <2>3. x.entry.by = f /\ x.entry # None
    BY <2>2, FutureAssumption DEF CacheEntry, Freshness
  <2> HIDE DEF x
  <2>4. Carries(f, x, calls[f], policy.stale)
    BY <2>2, <2>3 DEF Carries, CountsCalls, EmptyHanded,
                      FromCache, Answers, Verdict, BeforeFetch, Judged
  <2>5. QED
    BY <2>1, <2>4, QuietCarries
<1>2. CASE ResponseCacheable(f)
  <2> DEFINE x == [fut[f] EXCEPT !.state = "UpdateCache", !.verdict = "Cacheable"]
  <2>1. OnlyWrites(f, x) /\ UNCHANGED <<policy, calls>>
    BY <1>2 DEF ResponseCacheable, OnlyWrites
  <2>2. Carries(f, x, calls[f], policy.stale)
    BY <1>0, <1>2 DEF ResponseCacheable, Carries, CountsCalls, EmptyHanded,
                      FromCache, Answers, Verdict, BeforeFetch, Judged
  <2>3. QED
    BY <2>1, <2>2, QuietCarries
<1>3. CASE ResponseNonCacheable(f)
  <2> DEFINE x == [fut[f] EXCEPT !.state = "Response", !.verdict = "NonCacheable"]
  <2>1. OnlyWrites(f, x) /\ UNCHANGED <<policy, calls>>
    BY <1>3 DEF ResponseNonCacheable, OnlyWrites
  <2>2. Carries(f, x, calls[f], policy.stale)
    BY <1>0, <1>3 DEF ResponseNonCacheable, Carries, CountsCalls, EmptyHanded,
                      FromCache, Answers, Verdict, BeforeFetch, Judged
  <2>3. QED
    BY <2>1, <2>2, QuietCarries
<1>4. CASE UpdateCache(f)
  <2> DEFINE x == [fut[f] EXCEPT !.state = "Response"]
  <2>1. OnlyWrites(f, x) /\ UNCHANGED <<policy, calls>>
    BY <1>4 DEF UpdateCache, OnlyWrites
  <2>2. Carries(f, x, calls[f], policy.stale)
    BY <1>0, <1>4 DEF UpdateCache, Carries, CountsCalls, EmptyHanded,
                      FromCache, Answers, Verdict, BeforeFetch, Judged
  <2>3. QED
    BY <2>1, <2>2, QuietCarries
<1>5. CASE Respond(f)
  <2> DEFINE x == [fut[f] EXCEPT !.state = "Ready",
                                 !.source = IF fut[f].status = "Miss"
                                            THEN "Upstream" ELSE @]
  <2>1. OnlyWrites(f, x) /\ UNCHANGED <<policy, calls>>
    BY <1>5 DEF Respond, OnlyWrites
  <2>2. Carries(f, x, calls[f], policy.stale)
    BY <1>0, <1>5 DEF Respond, Carries, CountsCalls, EmptyHanded,
                      FromCache, Answers, Verdict, BeforeFetch, Judged
  <2>3. QED
    BY <2>1, <2>2, QuietCarries
<1>6. CASE Drop(f)
  <2> DEFINE x == [fut[f] EXCEPT !.state = "Dropped"]
  <2>1. OnlyWrites(f, x) /\ UNCHANGED <<policy, calls>>
    BY <1>6 DEF Drop, OnlyWrites
  <2>2. Carries(f, x, calls[f], policy.stale)
    BY <1>0, <1>6 DEF Drop, Carries, CountsCalls, EmptyHanded,
                      FromCache, Answers, Verdict, BeforeFetch, Judged
  <2>3. QED
    BY <2>1, <2>2, QuietCarries
<1>7. QED
  BY <1>1, <1>2, <1>3, <1>4, <1>5, <1>6 DEF FutureStep

-----------------------------------------------------------------------------
(* A verdict is final, and so is the key it is about. *)
LEMMA RequestTouches ==
    ASSUME CInv, NEW r \in Requests, RequestStep(r),
           NEW g \in Futures, fut[g].state \in Judged
    PROVE  fut'[g] = fut[g]
<1>1. fut \in [Futures -> FutureRecord] /\ r \in Futures
  BY FutTyped DEF CInv, Futures
<1>2. g # r
  BY DEF RequestStep, StartRequest, CheckRequestCachePolicy, BackendGet, PollCacheHit,
         PollCacheMiss, ConvertResponse, HandleStaleReturn, HandleStaleRevalidate,
         HandleStaleOffload, AwaitOk, AwaitError, Judged
<1>3. CASE HandleStaleOffload(r)
  BY <1>1, <1>2, <1>3 DEF HandleStaleOffload, Judged
<1>4. CASE PollCacheHit(r) \/ PollCacheMiss(r)
  BY <1>1, <1>2, <1>4 DEF PollCacheHit, PollCacheMiss, ToUpstream
<1>5. CASE \/ StartRequest(r) \/ CheckRequestCachePolicy(r) \/ BackendGet(r)
           \/ ConvertResponse(r) \/ HandleStaleReturn(r) \/ HandleStaleRevalidate(r)
           \/ AwaitOk(r) \/ AwaitError(r)
  BY <1>1, <1>2, <1>5 DEF StartRequest, CheckRequestCachePolicy, BackendGet,
         ConvertResponse, HandleStaleReturn, HandleStaleRevalidate, AwaitOk, AwaitError
<1>6. QED
  BY <1>3, <1>4, <1>5 DEF RequestStep

(* A verdict, once given, is never changed, nor is the key of its future. *)
LEMMA VerdictStays ==
    ASSUME CInv, [Next]_vars, NEW g \in Futures, fut[g].verdict # None
    PROVE  fut'[g].verdict = fut[g].verdict /\ fut'[g].key = fut[g].key
<1>0. /\ fut \in [Futures -> FutureRecord] /\ fut[g] \in FutureRecord
      /\ fut[g].state \in Judged
  BY FutTyped, Carrying DEF CInv, Carries, Verdict
<1>1. CASE UNCHANGED vars
  BY <1>1 DEF vars
<1>2. ASSUME NEW r \in Requests, RequestStep(r)
      PROVE  fut'[g].verdict = fut[g].verdict /\ fut'[g].key = fut[g].key
  BY <1>0, <1>2, RequestTouches
<1>3. ASSUME NEW f \in Futures, FutureStep(f)
      PROVE  fut'[g].verdict = fut[g].verdict /\ fut'[g].key = fut[g].key
  <2>1. CASE PollUpstream(f)
    BY <1>0, <2>1 DEF PollUpstream, Judged
  <2>2. CASE ResponseCacheable(f) \/ ResponseNonCacheable(f)
    BY <1>0, <2>2 DEF ResponseCacheable, ResponseNonCacheable, Judged
  <2>3. CASE UpdateCache(f)
    BY <1>0, <2>3 DEF UpdateCache, FutureRecord
  <2>4. CASE Respond(f)
    BY <1>0, <2>4 DEF Respond, FutureRecord
  <2>5. QED
    BY <1>3, <2>1, <2>2, <2>3, <2>4 DEF FutureStep
<1>4. ASSUME NEW f \in Futures, Drop(f)
      PROVE  fut'[g].verdict = fut[g].verdict /\ fut'[g].key = fut[g].key
  BY <1>0, <1>4 DEF Drop, FutureRecord
<1>5. ASSUME NEW k \in Keys, Age(k)
      PROVE  fut'[g].verdict = fut[g].verdict /\ fut'[g].key = fut[g].key
  BY <1>5 DEF Age
<1>6. QED
  BY <1>1, <1>2, <1>3, <1>4, <1>5 DEF Next

(* Hence what may be shared may be shared for good. *)
LEMMA ShareableStays ==
    ASSUME CInv, [Next]_vars, NEW b \in Futures \cup {None}, NEW k, Shareable(b, k)
    PROVE  Shareable(b, k)'
<1>1. CASE b = None
  BY <1>1 DEF Shareable
<1>2. CASE b # None
  <2>1. fut[b].verdict = "Cacheable" /\ fut[b].key = k /\ b \in Futures
    BY <1>2 DEF Shareable
  <2>2. "Cacheable" # None
    BY FutureAssumption DEF Verdicts
  <2>3. QED
    BY <2>1, <2>2, VerdictStays DEF Shareable
<1>3. QED
  BY <1>1, <1>2

-----------------------------------------------------------------------------
(* The entry a future has in hand, when it did not fetch it itself.         *)
EntryShareable(f) == Borrowed(f, fut[f]) => Shareable(fut[f].entry.by, fut[f].key)

(* The entry a future holds was fetched by a future. *)
LEMMA EntryType ==
    ASSUME GInv
    PROVE  /\ \A f \in Futures : fut[f].entry # None =>
                  fut[f].entry \in CacheEntry /\ fut[f].entry.by \in Futures \cup {None}
           /\ \A k \in Keys : store[k] # None =>
                  store[k] \in CacheEntry /\ store[k].by \in Futures \cup {None}
<1>1. \A f \in Futures : fut[f].entry \in CacheEntry \cup {None}
  BY FutTyped DEF FutureRecord
<1>2. \A k \in Keys : store[k] \in CacheEntry \cup {None}
  BY DEF GInv, FInv, MachineType
<1>3. \A e \in CacheEntry : e.by \in Futures \cup {None}
  BY DEF CacheEntry
<1>4. QED
  BY <1>1, <1>2, <1>3

(* It stays shareable when a step leaves it in hand ... *)
LEMMA EntryKept ==
    ASSUME CInv, [Next]_vars, NEW f \in Futures, Borrowed(f, fut[f]),
           fut'[f].entry.by = fut[f].entry.by, fut'[f].key = fut[f].key
    PROVE  EntryShareable(f)'
<1>1. Shareable(fut[f].entry.by, fut[f].key)
  BY DEF CInv, EntriesShareable
<1>2. fut[f].entry.by \in Futures \cup {None}
  BY EntryType DEF CInv, Borrowed
<1>3. Shareable(fut[f].entry.by, fut[f].key)'
  <2>1. \A b, k : b = fut[f].entry.by /\ k = fut[f].key => Shareable(b, k)'
    BY <1>1, <1>2, ShareableStays
  <2>2. QED
    BY <2>1 DEF Shareable
<1>4. QED
  BY <1>3 DEF EntryShareable, Shareable

(* ... and when a step leaves the future alone. *)
LEMMA EntryUntouched ==
    ASSUME CInv, [Next]_vars, NEW f \in Futures, fut'[f] = fut[f]
    PROVE  EntryShareable(f)'
<1>1. CASE Borrowed(f, fut[f])
  BY <1>1, EntryKept
<1>2. CASE ~Borrowed(f, fut[f])
  BY <1>2 DEF EntryShareable, Borrowed
<1>3. QED
  BY <1>1, <1>2

(* A value found in the cache was stored under the key it was asked for.    *)
LEMMA FoundShareable ==
    ASSUME CInv, [Next]_vars, NEW r \in Requests, BackendGet(r)
    PROVE  EntryShareable(r)'
<1>1. /\ r \in Futures /\ fut[r] \in FutureRecord /\ fut \in [Futures -> FutureRecord]
      /\ fut[r].state = "PollCache" /\ fut[r].entry = None
  BY FutTyped, Carrying DEF CInv, Futures, BackendGet, Carries, EmptyHanded
<1>2. CASE /\ store[fut[r].key] # None
           /\ fut'[r].entry = store[fut[r].key] /\ fut'[r].key = fut[r].key
  <2>1. fut[r].key \in Keys
    BY <1>1 DEF CInv, GInv, FInv, Keyed
  <2>2. /\ Shareable(store[fut[r].key].by, fut[r].key)
        /\ store[fut[r].key].by \in Futures \cup {None}
    BY <1>2, <2>1, EntryType DEF CInv, StoreShareable, KeyShareable
  <2>3. \A b, k : b = store[fut[r].key].by /\ k = fut[r].key => Shareable(b, k)'
    BY <2>2, ShareableStays
  <2>4. QED
    BY <1>2, <2>3 DEF EntryShareable, Shareable
<1>3. CASE fut'[r].entry = None
  BY <1>3 DEF EntryShareable, Borrowed
<1>4. QED
  BY <1>1, <1>2, <1>3 DEF BackendGet, FutureRecord

(* A value received from the channel was fetched for the same key. *)
LEMMA ReceivedShareable ==
    ASSUME CInv, [Next]_vars, NEW r \in Requests, AwaitOk(r)
    PROVE  EntryShareable(r)'
<1> DEFINE s == broadcast[receiver[r]][1]
<1>1. r \in Futures /\ fut[r] \in FutureRecord /\ fut \in [Futures -> FutureRecord]
  BY FutTyped DEF CInv, Futures
<1>2. fut'[r].entry = [by |-> s, age |-> "Actual"] /\ fut'[r].key = fut[r].key
  BY <1>1 DEF AwaitOk, FutureRecord
<1>3. s \in Futures /\ Shareable(s, fut[r].key)
  BY MessageFromOther DEF AwaitOk, Shareable, Futures
<1>4. \A b, k : b = s /\ k = fut[r].key => Shareable(b, k)'
  BY <1>3, ShareableStays
<1>5. fut'[r].entry.by = s
  BY <1>2
<1>6. QED
  BY <1>2, <1>4, <1>5 DEF EntryShareable, Shareable

(* A request on its way to the upstream has borrowed nothing. *)
LEMMA ToUpstreamEntry ==
    ASSUME CInv, NEW r \in Requests, ToUpstream(r)
    PROVE  EntryShareable(r)'
<1>1. r \in Futures /\ fut[r] \in FutureRecord /\ fut \in [Futures -> FutureRecord]
  BY FutTyped DEF CInv, Futures
<1>2. fut'[r].entry = None
  BY <1>1 DEF ToUpstream, FutureRecord
<1>3. QED
  BY <1>2 DEF EntryShareable, Borrowed

(* The two futures a stale answer writes to: the request and its task. *)
LEMMA OffloadWrites ==
    ASSUME GInv, NEW r \in Requests, HandleStaleOffload(r)
    PROVE  /\ fut'[r] = [fut[r] EXCEPT !.state = "Response", !.status = "Stale"]
           /\ \A f \in Futures \ {r} : fut'[f] # fut[f] =>
                  /\ f \in Tasks /\ fut[f].state = "NotSpawned"
                  /\ fut'[f] = [fut[f] EXCEPT !.state = "PollUpstream", !.key = fut[r].key]
<1>1. fut \in [Futures -> FutureRecord] /\ r \in Futures
  BY FutTyped DEF Futures
<1>2. CASE fut' = [fut EXCEPT ![r].state = "Response", ![r].status = "Stale"]
  BY <1>1, <1>2
<1>3. ASSUME NEW t \in Tasks, fut[t].state = "NotSpawned",
             fut' = [fut EXCEPT ![r].state = "Response", ![r].status = "Stale",
                                ![t].state = "PollUpstream", ![t].key = fut[r].key]
      PROVE  /\ fut'[r] = [fut[r] EXCEPT !.state = "Response", !.status = "Stale"]
             /\ fut'[t] = [fut[t] EXCEPT !.state = "PollUpstream", !.key = fut[r].key]
             /\ \A f \in Futures \ {r, t} : fut'[f] = fut[f]
  <2>1. t \in Futures /\ t # r
    BY FutureAssumption DEF Futures
  <2>2. QED
    BY <1>1, <1>3, <2>1
<1>4. QED
  BY <1>2, <1>3 DEF HandleStaleOffload

(* What a request borrows on each of its steps may be shared. *)
LEMMA RequestEntries ==
    ASSUME CInv, [Next]_vars, NEW r \in Requests, RequestStep(r), NEW f \in Futures
    PROVE  EntryShareable(f)'
<1>0. /\ r \in Futures /\ fut[r] \in FutureRecord /\ fut \in [Futures -> FutureRecord]
      /\ Carries(r, fut[r], calls[r], policy.stale)
  BY FutTyped, Carrying DEF CInv, Futures
<1>1. CASE f # r
  <2>1. CASE fut'[f] = fut[f]
    BY <2>1, EntryUntouched
  <2>2. CASE fut'[f] # fut[f]
    <3>1. HandleStaleOffload(r)
      BY <1>0, <1>1, <2>2
      DEF RequestStep, StartRequest, CheckRequestCachePolicy, BackendGet, PollCacheHit,
          PollCacheMiss, ToUpstream, ConvertResponse, HandleStaleReturn,
          HandleStaleRevalidate, AwaitOk, AwaitError
    <3>2. f \in Tasks /\ fut[f].state = "NotSpawned" /\ fut[f] \in FutureRecord
          /\ fut'[f] = [fut[f] EXCEPT !.state = "PollUpstream", !.key = fut[r].key]
      BY <1>0, <1>1, <2>2, <3>1, OffloadWrites DEF CInv
    <3>3. fut[f].entry = None
      BY <3>2, Carrying DEF Carries, EmptyHanded
    <3>4. fut'[f].entry = None
      BY <3>2, <3>3 DEF FutureRecord
    <3>5. QED
      BY <3>4 DEF EntryShareable, Borrowed
  <2>3. QED
    BY <2>1, <2>2
<1>2. CASE f = r
  <2>1. CASE StartRequest(r) \/ CheckRequestCachePolicy(r) \/ HandleStaleRevalidate(r)
                \/ AwaitError(r)
    <3>1. fut'[r].entry = None
      BY <1>0, <2>1
      DEF StartRequest, CheckRequestCachePolicy, HandleStaleRevalidate, AwaitError,
          FutureRecord, Carries, EmptyHanded
    <3>2. QED
      BY <1>2, <3>1 DEF EntryShareable, Borrowed
  <2>2. CASE BackendGet(r)
    BY <1>2, <2>2, FoundShareable
  <2>3. CASE PollCacheHit(r)
    <3>1. CASE ToUpstream(r)
      BY <1>2, <3>1, ToUpstreamEntry
    <3>2. CASE ~ToUpstream(r)
      <4>1. fut[r].entry # None /\ fut[r].state = "CacheAnswered"
        BY <2>3 DEF PollCacheHit
      <4>2. Borrowed(r, fut[r])
        BY <1>0, <4>1 DEF Borrowed, Carries, FromCache
      <4>3. fut[r].entry \in CacheEntry
        BY <1>0, <4>1, EntryType DEF CInv
      <4>4. fut'[r].entry.by = fut[r].entry.by /\ fut'[r].key = fut[r].key
        BY <1>0, <2>3, <3>2, <4>3 DEF PollCacheHit, FutureRecord, CacheEntry
      <4>5. QED
        BY <1>0, <1>2, <4>2, <4>4, EntryKept
    <3>3. QED
      BY <3>1, <3>2
  <2>4. CASE PollCacheMiss(r)
    BY <1>2, <2>4, ToUpstreamEntry DEF PollCacheMiss
  <2>5. CASE ConvertResponse(r) \/ HandleStaleReturn(r) \/ HandleStaleOffload(r)
    <3>1. fut[r].state \in {"ConvertResponse", "HandleStale"}
      BY <2>5 DEF ConvertResponse, HandleStaleReturn, HandleStaleOffload
    <3>2. Borrowed(r, fut[r])
      BY <1>0, <3>1 DEF Borrowed, Carries, FromCache
    <3>3. fut'[r].entry = fut[r].entry /\ fut'[r].key = fut[r].key
      <4>1. CASE ConvertResponse(r) \/ HandleStaleReturn(r)
        BY <1>0, <4>1 DEF ConvertResponse, HandleStaleReturn, FutureRecord
      <4>2. CASE HandleStaleOffload(r)
        <5>1. fut'[r] = [fut[r] EXCEPT !.state = "Response", !.status = "Stale"]
          BY <4>2, OffloadWrites DEF CInv
        <5>2. QED
          BY <1>0, <5>1 DEF FutureRecord
      <4>3. QED
        BY <2>5, <4>1, <4>2
    <3>4. QED
      BY <1>0, <1>2, <3>2, <3>3, EntryKept
  <2>6. CASE AwaitOk(r)
    BY <1>2, <2>6, ReceivedShareable
  <2>7. QED
    BY <2>1, <2>2, <2>3, <2>4, <2>5, <2>6 DEF RequestStep
<1>3. QED
  BY <1>1, <1>2

(* The other steps borrow nothing new. *)
LEMMA FutureEntries ==
    ASSUME CInv, [Next]_vars, NEW g \in Futures, FutureStep(g) \/ Drop(g), NEW f \in Futures
    PROVE  EntryShareable(f)'
<1>0. fut[g] \in FutureRecord /\ fut \in [Futures -> FutureRecord]
      /\ Carries(g, fut[g], calls[g], policy.stale)
  BY FutTyped, Carrying DEF CInv
<1>1. CASE f # g
  <2>1. fut'[f] = fut[f]
    BY <1>0, <1>1 DEF FutureStep, PollUpstream, ResponseCacheable, ResponseNonCacheable,
                      UpdateCache, Respond, Drop
  <2>2. QED
    BY <2>1, EntryUntouched
<1>2. CASE f = g /\ PollUpstream(g)
  <2>1. fut[g].status = "Miss" /\ fut[g].state = "PollUpstream"
    BY <1>0, <1>2 DEF PollUpstream, Carries, EmptyHanded
  <2>2. fut'[g].entry = [by |-> g, age |-> "Actual"] /\ fut'[g].status = "Miss"
    BY <1>0, <1>2, <2>1 DEF PollUpstream, FutureRecord
  <2>3. QED
    BY <1>2, <2>2 DEF EntryShareable, Borrowed
<1>3. CASE f = g /\ ~PollUpstream(g)
  <2>1. /\ fut'[g].entry = fut[g].entry /\ fut'[g].key = fut[g].key
        /\ fut'[g].status = fut[g].status
    BY <1>0, <1>3 DEF FutureStep, ResponseCacheable, ResponseNonCacheable,
                      UpdateCache, Respond, Drop, FutureRecord
  <2>2. CASE Borrowed(g, fut[g])
    BY <1>3, <2>1, <2>2, EntryKept
  <2>3. CASE ~Borrowed(g, fut[g])
    BY <1>3, <2>1, <2>3 DEF EntryShareable, Borrowed
  <2>4. QED
    BY <2>2, <2>3
<1>4. QED
  BY <1>1, <1>2, <1>3

(* The cache takes only what its future found there or fetched, and judged  *)
(* to be cacheable.                                                         *)
LEMMA StoreStep ==
    ASSUME CInv, [Next]_vars
    PROVE  StoreShareable'
<1>0. store \in [Keys -> CacheEntry \cup {None}] /\ GInv
  BY DEF CInv, GInv, FInv, MachineType
<1>1. ASSUME NEW k \in Keys, store'[k] # None,
             store[k] # None, store'[k].by = store[k].by
      PROVE  KeyShareable(k)'
  <2>1. Shareable(store[k].by, k) /\ store[k].by \in Futures \cup {None}
    BY <1>0, <1>1, EntryType DEF CInv, StoreShareable, KeyShareable
  <2>2. \A b : b = store[k].by => Shareable(b, k)'
    BY <2>1, ShareableStays
  <2>3. QED
    BY <1>1, <2>2 DEF KeyShareable, Shareable
<1>2. CASE UNCHANGED store
  BY <1>1, <1>2 DEF StoreShareable, KeyShareable
<1>3. ASSUME NEW f \in Futures, UpdateCache(f), NEW k \in Keys, store'[k] # None
      PROVE  KeyShareable(k)'
  <2>1. CASE store'[k] = store[k]
    BY <1>1, <1>3, <2>1
  <2>2. CASE store'[k] # store[k]
    <3>1. k = fut[f].key /\ store'[k] = fut[f].entry
      BY <1>0, <1>3, <2>2 DEF UpdateCache
    <3>2. Carries(f, fut[f], calls[f], policy.stale) /\ fut[f].state = "UpdateCache"
      BY <1>3, Carrying DEF UpdateCache
    <3>3. fut[f].entry # None /\ fut[f].entry.by \in Futures \cup {None}
      BY <1>0, <1>3, <3>1, EntryType
    <3>4. Shareable(fut[f].entry.by, fut[f].key)
      <4>1. CASE Borrowed(f, fut[f])
        BY <4>1 DEF CInv, EntriesShareable
      <4>2. CASE ~Borrowed(f, fut[f])
        BY <3>2, <3>3, <4>2 DEF Borrowed, Carries, Verdict, Shareable
      <4>3. QED
        BY <4>1, <4>2
    <3>5. \A b, n : b = fut[f].entry.by /\ n = fut[f].key => Shareable(b, n)'
      BY <3>3, <3>4, ShareableStays
    <3>6. QED
      BY <3>1, <3>5 DEF KeyShareable, Shareable
  <2>3. QED
    BY <2>1, <2>2
<1>4. ASSUME NEW j \in Keys, Age(j), NEW k \in Keys, store'[k] # None
      PROVE  KeyShareable(k)'
  <2>1. store[k] # None /\ store'[k].by = store[k].by
    <3>1. CASE k # j
      BY <1>0, <1>4, <3>1 DEF Age
    <3>2. CASE k = j
      BY <1>0, <1>4, <3>2, SMTT(30) DEF Age, CacheEntry
    <3>3. QED
      BY <3>1, <3>2
  <2>2. QED
    BY <1>1, <1>4, <2>1
<1>5. UNCHANGED store \/ (\E f \in Futures : UpdateCache(f)) \/ (\E j \in Keys : Age(j))
  BY ZenonT(30) DEF Next, vars, RequestStep, StartRequest, CheckRequestCachePolicy, BackendGet,
         PollCacheHit, PollCacheMiss, ConvertResponse, HandleStaleReturn,
         HandleStaleRevalidate, HandleStaleOffload, AwaitOk, AwaitError, FutureStep,
         PollUpstream, ResponseCacheable, ResponseNonCacheable, Respond, Drop
<1>6. QED
  BY <1>2, <1>3, <1>4, <1>5 DEF StoreShareable, KeyShareable

(* Only a future whose response has just been judged cacheable broadcasts.  *)
LEMMA BroadcastWrites ==
    ASSUME GInv, [Next]_vars, NEW c \in Requests, broadcast'[c] # broadcast[c]
    PROVE  \E f \in Requests : ResponseCacheable(f) /\ broadcast'[c][1] = f
<1>0. MP!IInv
  BY DEF GInv, FInv
<1>1. PICK f \in Requests : ResponseCacheable(f) /\ Manager!Resolve(f)
  <2>1. ASSUME NEW r \in Requests, RequestStep(r)
        PROVE  UNCHANGED broadcast
    BY <2>1 DEF RequestStep, StartRequest, CheckRequestCachePolicy, BackendGet,
         PollCacheHit, PollCacheMiss, ToUpstream, ConvertResponse, HandleStaleReturn,
         HandleStaleRevalidate, HandleStaleOffload, AwaitOk, AwaitError, managerVars,
         Manager!Check, Manager!OpenChannel, Manager!JoinHolders, Manager!Subscribe,
         Manager!Receive, Manager!ReceiveError
  <2>2. ASSUME NEW f \in Futures, FutureStep(f) \/ Drop(f)
        PROVE  UNCHANGED broadcast
               \/ (f \in Requests /\ ResponseCacheable(f) /\ Manager!Resolve(f))
    BY <2>2 DEF FutureStep, PollUpstream, ResponseCacheable, ResponseNonCacheable,
         UpdateCache, Respond, Drop, managerVars, Manager!Cleanup, Manager!Drop
  <2>3. QED
    BY <2>1, <2>2 DEF Next, vars, managerVars, Age
<1>2. /\ broadcast \in [Requests -> Seq(Requests)]
      /\ checked[f] \in Keys /\ inFlight \in [Keys -> Requests \cup {None}]
  BY <1>0, <1>1, Assumed DEF MP!IInv, MP!TypeOK, MP!PermitKeys, Manager!Resolve
<1>3. /\ inFlight[checked[f]] # None /\ c = inFlight[checked[f]]
      /\ broadcast'[c] = Append(broadcast[c], f)
  BY <1>1, <1>2 DEF Manager!Resolve
<1>4. broadcast[c] = <<>>
  BY <1>0, <1>2, <1>3 DEF MP!IInv, MP!LiveEntries
<1>5. broadcast'[c][1] = f
  BY <1>3, <1>4
<1>6. QED
  BY <1>1, <1>5

(* What a channel carries after a step may be shared. *)
LEMMA MessageStep ==
    ASSUME CInv, [Next]_vars
    PROVE  MessagesShareable'
<1>0. GInv /\ MP!IInv /\ Requests \subseteq Futures /\ "Cacheable" # None
  BY FutureAssumption DEF CInv, GInv, FInv, Futures, Verdicts
<1> SUFFICES ASSUME NEW c \in Requests, broadcast'[c] # <<>>
             PROVE  fut'[broadcast'[c][1]].verdict = "Cacheable"
  BY DEF MessagesShareable
<1>1. CASE broadcast'[c] = broadcast[c]
  <2>1. broadcast[c] \in Seq(Requests) /\ broadcast[c] # <<>>
    BY <1>0, <1>1 DEF MP!IInv, MP!TypeOK
  <2>2. Len(broadcast[c]) = 1
    BY <1>0, <2>1 DEF MP!IInv, MP!BroadcastKeys
  <2>3. broadcast[c][1] \in Futures
    BY <1>0, <2>1, <2>2
  <2>4. fut[broadcast[c][1]].verdict = "Cacheable"
    BY <2>1 DEF CInv, MessagesShareable
  <2>5. QED
    BY <1>0, <1>1, <2>3, <2>4, VerdictStays
<1>2. CASE broadcast'[c] # broadcast[c]
  <2>1. PICK f \in Requests : ResponseCacheable(f) /\ broadcast'[c][1] = f
    BY <1>0, <1>2, BroadcastWrites
  <2>2. fut[f] \in FutureRecord /\ fut \in [Futures -> FutureRecord]
    BY <1>0, FutTyped
  <2>3. fut'[f].verdict = "Cacheable"
    BY <1>0, <2>1, <2>2 DEF ResponseCacheable, FutureRecord
  <2>4. QED
    BY <2>1, <2>3
<1>3. QED
  BY <1>1, <1>2

(* The invariant is inductive. *)
LEMMA NextCInv == CInv /\ [Next]_vars => CInv'
<1> SUFFICES ASSUME CInv, [Next]_vars
             PROVE  CInv'
  OBVIOUS
<1>1. GInv'
  BY NextGInv DEF CInv
<1>2. AllCarry'
  <2>1. CASE UNCHANGED vars
    BY <2>1 DEF CInv, AllCarry, vars
  <2>2. ASSUME NEW k \in Keys, Age(k)
        PROVE  AllCarry'
    BY <2>2 DEF CInv, AllCarry, Age
  <2>3. QED
    BY <2>1, <2>2, RequestCarries, EndCarries DEF Next
<1>3. EntriesShareable'
  <2>1. CASE UNCHANGED fut
    BY <2>1, EntryUntouched DEF EntriesShareable, EntryShareable
  <2>2. CASE \E r \in Requests : RequestStep(r)
    BY <2>2, RequestEntries DEF EntriesShareable, EntryShareable
  <2>3. CASE \E g \in Futures : FutureStep(g) \/ Drop(g)
    BY <2>3, FutureEntries DEF EntriesShareable, EntryShareable
  <2>4. QED
    BY <2>1, <2>2, <2>3 DEF Next, vars, Age
<1>4. QED
  BY <1>1, <1>2, <1>3, StoreStep, MessageStep DEF CInv

(* It holds at the start. *)
LEMMA InitCInv == Init => CInv
<1> SUFFICES ASSUME Init
             PROVE  CInv
  OBVIOUS
<1>1. GInv
  BY InitGInv
<1>2. /\ \A f \in Futures : /\ fut[f].state \in {"Initial", "NotSpawned"}
                            /\ fut[f].status = "Miss" /\ fut[f].entry = None
                            /\ fut[f].verdict = None /\ fut[f].key = None
      /\ \A f \in Futures : calls[f] = 0
  BY DEF Init, NewFuture
<1>3. AllCarry
  BY <1>2 DEF AllCarry, Carries, CountsCalls, EmptyHanded, FromCache, Answers, Verdict,
              BeforeFetch, Judged
<1>4. StoreShareable
  BY DEF Init, StoreShareable, KeyShareable, Shareable
<1>5. EntriesShareable
  BY <1>2 DEF EntriesShareable, Borrowed
<1>6. MessagesShareable
  BY DEF Init, Manager!Init, MessagesShareable
<1>7. QED
  BY <1>1, <1>3, <1>4, <1>5, <1>6 DEF CInv

(* The inductive invariant about what futures carry and what they share. *)
THEOREM CarriedInvariant == Spec => []CInv
BY InitCInv, NextCInv, PTL DEF Spec

(* What a caller is told of its response is true of where it came from,     *)
(* whatever the other futures, the cache and the faults do: a miss cost the *)
(* one call of the upstream that this request made or another request of    *)
(* its channel, a hit or a stale answer none, and no expired value is ever  *)
(* handed out.                                                              *)
THEOREM CallersAreToldTheTruth == Spec => []StatusMatchesOrigin
<1>1. CInv => StatusMatchesOrigin
  <2> SUFFICES ASSUME CInv, NEW r \in Requests, fut[r].state = "Ready"
               PROVE
        \/ /\ fut[r].status = "Miss" /\ fut[r].source = "Upstream"
           /\ fut[r].entry.by = r => calls[r] = 1
           /\ fut[r].entry.by # r => calls[r] = 0 /\ fut[r].entry.by \in Requests
        \/ /\ fut[r].status = "Hit" /\ fut[r].source = "Backend" /\ calls[r] = 0
           /\ fut[r].entry.age = "Actual"
        \/ /\ fut[r].status = "Stale" /\ fut[r].source = "Backend" /\ calls[r] = 0
           /\ fut[r].entry.age = "Stale" /\ policy.stale # "Revalidate"
    BY DEF StatusMatchesOrigin
  <2>1. Carries(r, fut[r], calls[r], policy.stale)
    BY Carrying DEF Futures
  <2>2. QED
    BY <2>1 DEF Carries, Answers, Verdict
<1>2. QED
  BY <1>1, CarriedInvariant, PTL

(* A response reaches the cache or another caller only if the response      *)
(* predicates let it, and only under the key it was fetched for.            *)
THEOREM OnlyCacheableIsShared == Spec => []SharedOnlyIfCacheable
<1>1. CInv => SharedOnlyIfCacheable
  <2> SUFFICES ASSUME CInv
               PROVE  SharedOnlyIfCacheable
    OBVIOUS
  <2>1. \A k \in Keys : store[k] # None => Shareable(store[k].by, k)
    BY DEF CInv, StoreShareable, KeyShareable
  <2>2. ASSUME NEW r \in Requests, fut[r].state = "Ready", fut[r].entry.by # r
        PROVE  Shareable(fut[r].entry.by, fut[r].key)
    BY <2>2, Carrying DEF CInv, EntriesShareable, Borrowed, Carries, Answers, Futures
  <2>3. QED
    BY <2>1, <2>2 DEF SharedOnlyIfCacheable, Shareable
<1>2. QED
  BY <1>1, CarriedInvariant, PTL

-----------------------------------------------------------------------------
(* SingleFlight: what keeps the second request of a key out.                *)
OneByOne ==
    "cancel" \notin Faults /\ policy.concurrency = 1 /\ policy.stale # "Revalidate"

(* A request of the key had its response refused by the policy. *)
Refused(k) == \E r \in Requests : fut[r].key = k /\ fut[r].verdict = "NonCacheable"

(* Only a refused response leaves a channel closed without an answer. *)
WaiterIsServed(r) ==
    receiver[r] # None =>
        \/ broadcast[receiver[r]] # <<>>
        \/ inFlight[checked[r]] = receiver[r]
        \/ Refused(checked[r])

(* The entry of a permit holder is in the map until it resolves. *)
HolderIsCurrent(r) ==
    permit[r] # None => inFlight[checked[r]] = permit[r] \/ Refused(checked[r])

(* Nobody fetches without a permit, except after a refused response. *)
FetcherHolds(r) ==
    fut[r].state = "PollUpstream" /\ fut[r].key # None /\ permit[r] = None =>
        Refused(fut[r].key)

(* One permit per key, and what follows for those who hold it or wait. *)
InTurn == /\ MP!SmallSemaphores
          /\ \A r \in Requests : WaiterIsServed(r) /\ HolderIsCurrent(r) /\ FetcherHolds(r)

SInv == CInv /\ MP!PermitsConserved /\ (OneByOne => InTurn)

(* A refusal is for good. *)
LEMMA RefusedStays ==
    ASSUME CInv, [Next]_vars
    PROVE  \A k : Refused(k) => Refused(k)'
<1>1. "NonCacheable" # None
  BY FutureAssumption DEF Verdicts
<1>2. \A r \in Requests : fut[r].verdict = "NonCacheable" =>
         fut'[r].verdict = "NonCacheable" /\ fut'[r].key = fut[r].key
  BY <1>1, VerdictStays DEF Futures
<1>3. QED
  BY <1>2 DEF Refused


(* The key a holder or a waiter checked with is the key of its future.      *)
LEMMA CheckedKey ==
    ASSUME GInv, NEW r \in Requests, permit[r] # None \/ receiver[r] # None
    PROVE  checked[r] # None /\ checked[r] \in Keys /\ checked[r] = fut[r].key
  BY DEF GInv, FInv, Protocol, MP!IInv, MP!TypeOK, MP!PermitKeys, MP!ReceiverKeys

(* A step that leaves the manager alone and starts no fetch for a key.      *)
LEMMA LocalInTurn ==
    ASSUME SInv, [Next]_vars, InTurn, UNCHANGED managerVars,
           \A r \in Requests : fut'[r].state = "PollUpstream" /\ fut'[r].key # None =>
                fut[r].state = "PollUpstream" /\ fut[r].key = fut'[r].key
    PROVE  InTurn'
<1>1. \A k : Refused(k) => Refused(k)'
  BY RefusedStays DEF SInv
<1>2. UNCHANGED <<inFlight, capacity, available, broadcast, permit, receiver, checked>>
  BY DEF managerVars
<1>3. MP!SmallSemaphores'
  BY <1>2 DEF InTurn, MP!SmallSemaphores
<1>4. ASSUME NEW r \in Requests
      PROVE  WaiterIsServed(r)' /\ HolderIsCurrent(r)' /\ FetcherHolds(r)'
  <2>1. WaiterIsServed(r) /\ HolderIsCurrent(r) /\ FetcherHolds(r)
    BY DEF InTurn
  <2>2. WaiterIsServed(r)'
    BY <1>1, <1>2, <2>1 DEF WaiterIsServed
  <2>3. HolderIsCurrent(r)'
    BY <1>1, <1>2, <2>1 DEF HolderIsCurrent
  <2>4. FetcherHolds(r)'
    BY <1>1, <1>2, <2>1 DEF FetcherHolds
  <2>5. QED
    BY <2>2, <2>3, <2>4
<1>5. QED
  BY <1>3, <1>4 DEF InTurn

(* check(), with a limit of one.                                            *)
LEMMA CheckInTurn ==
    ASSUME SInv, [Next]_vars, InTurn, NEW r \in Requests, NEW k \in Keys,
           Manager!Check(r, k, 1), permit[r] = None, receiver[r] = None,
           \A q \in Requests \ {r} : fut'[q] = fut[q],
           fut'[r].state = "PollUpstream" => permit'[r] # None
    PROVE  InTurn'
<1>1. \A x : Refused(x) => Refused(x)'
  BY RefusedStays DEF SInv
<1>2. MP!TypeOK /\ MP!LiveEntries /\ MP!PermitKeys /\ MP!ReceiverKeys
  BY DEF SInv, CInv, GInv, FInv, MP!IInv
<1>3. /\ checked[r] = None /\ k # None /\ r # None
      /\ checked' = [checked EXCEPT ![r] = k]
      /\ broadcast' = broadcast
  <2>1. k # None /\ r # None
    BY FutureAssumption DEF Futures
  <2>2. checked[r] = None /\ checked' = [checked EXCEPT ![r] = k] /\ broadcast' = broadcast
    BY DEF Manager!Check, Manager!OpenChannel, Manager!JoinHolders, Manager!Subscribe
  <2>3. QED
    BY <2>1, <2>2
<1>4. /\ \A q \in Requests : permit[q] # r /\ receiver[q] # r
      /\ \A q \in Requests : permit[q] # None \/ receiver[q] # None =>
            q # r /\ checked'[q] = checked[q]
  BY <1>2, <1>3 DEF MP!TypeOK, MP!PermitKeys, MP!ReceiverKeys
<1>5. \A q \in Requests : WaiterIsServed(q) /\ HolderIsCurrent(q) /\ FetcherHolds(q)
  BY DEF InTurn
<1>6. CASE Manager!OpenChannel(r, k, 1)
  <2> USE <1>6 DEF Manager!OpenChannel
  <2>1. MP!SmallSemaphores'
    BY <1>2 DEF InTurn, MP!SmallSemaphores, MP!TypeOK
  <2>2. \A q \in Requests : WaiterIsServed(q)'
    BY <1>1, <1>2, <1>3, <1>4, <1>5 DEF WaiterIsServed, MP!TypeOK
  <2>3. \A q \in Requests : HolderIsCurrent(q)'
    BY <1>1, <1>2, <1>3, <1>4, <1>5 DEF HolderIsCurrent, MP!TypeOK
  <2>4. \A q \in Requests : FetcherHolds(q)'
    BY <1>1, <1>2, <1>5 DEF FetcherHolds, MP!TypeOK
  <2>5. QED
    BY <2>1, <2>2, <2>3, <2>4 DEF InTurn
<1>7. CASE Manager!JoinHolders(r, k)
  <2> USE <1>7 DEF Manager!JoinHolders
  <2>1. MP!SmallSemaphores'
    BY DEF InTurn, MP!SmallSemaphores
  <2>2. \A q \in Requests : WaiterIsServed(q)'
    BY <1>1, <1>2, <1>3, <1>4, <1>5 DEF WaiterIsServed, MP!TypeOK
  <2>3. \A q \in Requests : HolderIsCurrent(q)'
    BY <1>1, <1>2, <1>3, <1>4, <1>5 DEF HolderIsCurrent, MP!TypeOK
  <2>4. \A q \in Requests : FetcherHolds(q)'
    BY <1>1, <1>2, <1>5 DEF FetcherHolds, MP!TypeOK
  <2>5. QED
    BY <2>1, <2>2, <2>3, <2>4 DEF InTurn
<1>8. CASE Manager!Subscribe(r, k)
  <2> USE <1>8 DEF Manager!Subscribe
  <2>1. MP!SmallSemaphores'
    BY DEF InTurn, MP!SmallSemaphores
  <2>2. \A q \in Requests : WaiterIsServed(q)'
    BY <1>1, <1>2, <1>3, <1>4, <1>5 DEF WaiterIsServed, MP!TypeOK
  <2>3. \A q \in Requests : HolderIsCurrent(q)'
    BY <1>1, <1>2, <1>3, <1>4, <1>5 DEF HolderIsCurrent, MP!TypeOK
  <2>4. \A q \in Requests : FetcherHolds(q)'
    BY <1>1, <1>2, <1>5 DEF FetcherHolds, MP!TypeOK
  <2>5. QED
    BY <2>1, <2>2, <2>3, <2>4 DEF InTurn
<1>9. QED
  BY <1>6, <1>7, <1>8 DEF Manager!Check

(* A channel that was sent to is not empty. *)
LEMMA AppendNotEmpty ==
    ASSUME NEW S, NEW q \in Seq(S), NEW e \in S
    PROVE  Append(q, e) # <<>>
<1>1. Len(Append(q, e)) = Len(q) + 1 /\ Len(q) \in Nat
  OBVIOUS
<1>2. Append(q, e) = <<>> => Len(Append(q, e)) = 0
  OBVIOUS
<1>3. QED
  BY <1>1, <1>2

(* The two ways a permit holder ends.  It resolves the entry it opened, and *)
(* was its only holder; or its response is refused.                         *)
LEMMA EndInTurn ==
    ASSUME SInv, [Next]_vars, InTurn, NEW f \in Requests, permit[f] # None,
           ResponseCacheable(f) \/ ResponseNonCacheable(f)
    PROVE  InTurn'
<1> DEFINE k == checked[f]
           c == permit[f]
<1>0. GInv /\ MP!TypeOK /\ f \in Futures /\ fut \in [Futures -> FutureRecord]
      /\ fut[f] \in FutureRecord /\ "NonCacheable" # None
  BY FutTyped, FutureAssumption DEF SInv, CInv, GInv, FInv, MP!IInv, Futures, Verdicts
<1>1. \A x : Refused(x) => Refused(x)'
  BY RefusedStays DEF SInv
<1>2. k \in Keys /\ k = fut[f].key
  BY <1>0, CheckedKey
<1>3. /\ inFlight' = [inFlight EXCEPT ![k] = None]
      /\ permit' = [permit EXCEPT ![f] = None]
      /\ UNCHANGED <<capacity, receiver, checked>>
  BY DEF ResponseCacheable, ResponseNonCacheable, Manager!Resolve, Manager!Cleanup,
         Manager!RemoveEntry, Manager!ReleasePermit
<1>4. \A q \in Requests : WaiterIsServed(q) /\ HolderIsCurrent(q) /\ FetcherHolds(q)
  BY DEF InTurn
<1>5. \A d \in Requests : broadcast[d] # <<>> => broadcast'[d] # <<>>
  <2>1. broadcast \in [Requests -> Seq(Requests)]
    BY <1>0 DEF MP!TypeOK
  <2>2. CASE UNCHANGED broadcast
    BY <2>2
  <2>3. ASSUME broadcast' = [broadcast EXCEPT ![inFlight[k]] = Append(@, f)],
               NEW d \in Requests, broadcast[d] # <<>>
        PROVE  broadcast'[d] # <<>>
    BY <2>1, <2>3, AppendNotEmpty
  <2>4. QED
    BY <2>2, <2>3 DEF ResponseCacheable, ResponseNonCacheable, Manager!Resolve, Manager!Cleanup
<1>6. MP!SmallSemaphores'
  BY <1>3 DEF InTurn, MP!SmallSemaphores
<1>7. ASSUME NEW q \in Requests
      PROVE  FetcherHolds(q)'
  <2>1. CASE q = f
    <3>1. fut'[f].state # "PollUpstream"
      BY <1>0 DEF ResponseCacheable, ResponseNonCacheable, FutureRecord
    <3>2. QED
      BY <2>1, <3>1 DEF FetcherHolds
  <2>2. CASE q # f
    <3>1. fut'[q] = fut[q] /\ permit'[q] = permit[q]
      BY <1>0, <1>3, <2>2 DEF ResponseCacheable, ResponseNonCacheable, MP!TypeOK, Futures
    <3>2. QED
      BY <1>1, <1>4, <3>1 DEF FetcherHolds
  <2>3. QED
    BY <2>1, <2>2
<1>8. CASE Refused(k) \/ ResponseNonCacheable(f)
  <2>1. Refused(k)'
    <3>1. CASE Refused(k)
      <4>1. \A x : x = k => Refused(x)'
        BY <1>1, <3>1
      <4>2. QED
        BY <1>3, <4>1 DEF Refused
    <3>2. CASE ResponseNonCacheable(f)
      <4>1. fut'[f].verdict = "NonCacheable" /\ fut'[f].key = fut[f].key
        BY <1>0, <3>2 DEF ResponseNonCacheable, FutureRecord
      <4>2. QED
        BY <1>2, <1>3, <4>1 DEF Refused
    <3>3. QED
      BY <1>8, <3>1, <3>2
  <2>2. \A q \in Requests : WaiterIsServed(q)'
    BY <1>0, <1>1, <1>2, <1>3, <1>4, <1>5, <2>1 DEF WaiterIsServed, MP!TypeOK
  <2>3. \A q \in Requests : HolderIsCurrent(q)'
    BY <1>0, <1>1, <1>2, <1>3, <1>4, <2>1 DEF HolderIsCurrent, MP!TypeOK
  <2>4. QED
    BY <1>6, <1>7, <2>2, <2>3 DEF InTurn
<1>9. CASE ~Refused(k) /\ ResponseCacheable(f)
  <2>1. inFlight[k] = c
    BY <1>4, <1>9 DEF HolderIsCurrent
  <2>2. c \in Requests /\ broadcast'[c] # <<>>
    <3>1. c \in Requests /\ broadcast \in [Requests -> Seq(Requests)]
      BY <1>0 DEF MP!TypeOK
    <3>2. broadcast'[c] = Append(broadcast[c], f)
      BY <1>9, <2>1, <3>1 DEF ResponseCacheable, Manager!Resolve
    <3>3. QED
      BY <3>1, <3>2, AppendNotEmpty
  <2>3. \A q \in Requests : WaiterIsServed(q)'
    BY <1>0, <1>1, <1>2, <1>3, <1>4, <1>5, <2>1, <2>2 DEF WaiterIsServed, MP!TypeOK
  <2>4. ASSUME NEW q \in Requests
        PROVE  HolderIsCurrent(q)'
    <3>1. CASE checked[q] = k /\ permit[q] # None
      <4>1. permit[q] = c
        BY <1>4, <1>9, <2>1, <3>1 DEF HolderIsCurrent
      <4>2. q = f
        <5>1. MP!PermitsConserved /\ MP!SmallSemaphores
          BY DEF SInv, InTurn
        <5>2. QED
          BY <1>0, <3>1, <4>1, <5>1, Assumed, MP!OneHolder
      <4>3. QED
        BY <1>0, <1>3, <4>2 DEF HolderIsCurrent, MP!TypeOK
    <3>2. CASE ~(checked[q] = k /\ permit[q] # None)
      BY <1>0, <1>1, <1>2, <1>3, <1>4, <3>2 DEF HolderIsCurrent, MP!TypeOK
    <3>3. QED
      BY <3>1, <3>2
  <2>5. QED
    BY <1>6, <1>7, <2>3, <2>4 DEF InTurn
<1>10. QED
  BY <1>8, <1>9

(* A waiter whose channel is closed unanswered knows of a refused response. *)
LEMMA ErrorInTurn ==
    ASSUME SInv, [Next]_vars, InTurn, NEW r \in Requests, AwaitError(r)
    PROVE  InTurn'
<1> DEFINE k == checked[r]
           c == receiver[r]
<1>0. GInv /\ MP!TypeOK /\ MP!BroadcastKeys /\ r \in Futures
      /\ fut \in [Futures -> FutureRecord] /\ fut[r] \in FutureRecord
  BY FutTyped DEF SInv, CInv, GInv, FInv, MP!IInv, Futures
<1>1. \A x : Refused(x) => Refused(x)'
  BY RefusedStays DEF SInv
<1>2. receiver[r] # None /\ Manager!ReceiveError(r)
  BY DEF AwaitError, Manager!ReceiveError
<1>3. k \in Keys /\ k = fut[r].key /\ c \in Requests /\ broadcast[c] \in Seq(Requests)
  BY <1>0, <1>2, CheckedKey DEF MP!TypeOK
<1>4. \A q \in Requests : WaiterIsServed(q) /\ HolderIsCurrent(q) /\ FetcherHolds(q)
  BY DEF InTurn
<1>5. Manager!RecvResult(r) = "Closed"
  <2>1. Len(broadcast[c]) <= 1
    <3>1. CASE broadcast[c] = <<>>
      BY <3>1
    <3>2. CASE broadcast[c] # <<>>
      <4>1. Len(broadcast[c]) = 1
        BY <1>0, <1>3, <3>2 DEF MP!BroadcastKeys
      <4>2. QED
        BY <4>1
    <3>3. QED
      BY <3>1, <3>2
  <2>2. ~(Len(broadcast[c]) > 1)
    BY <1>3, <2>1
  <2>3. Manager!RecvResult(r) # "Lagged"
    BY <2>2 DEF Manager!RecvResult, Manager!CHANNEL_CAPACITY
  <2>4. QED
    BY <1>2, <2>3 DEF Manager!ReceiveError
<1>6. Refused(k)
  <2>1. Len(broadcast[c]) # 1 /\ ~Manager!SenderAlive(c) /\ ~(Len(broadcast[c]) > 1)
    BY <1>5 DEF Manager!RecvResult, Manager!CHANNEL_CAPACITY
  <2>2. inFlight[k] # c
    BY <1>3, <2>1 DEF Manager!SenderAlive
  <2>3. broadcast[c] = <<>>
    BY <1>0, <1>3, <2>1 DEF MP!BroadcastKeys
  <2>4. QED
    BY <1>2, <1>4, <2>2, <2>3 DEF WaiterIsServed
<1>7. /\ inFlight' = [inFlight EXCEPT ![k] = None]
      /\ receiver' = [receiver EXCEPT ![r] = None]
      /\ UNCHANGED <<capacity, broadcast, permit, checked>>
  BY <1>2, <1>5 DEF Manager!ReceiveError
<1>8. \A x : x = k => Refused(x)'
  BY <1>1, <1>6
<1>9. MP!SmallSemaphores'
  BY <1>7 DEF InTurn, MP!SmallSemaphores
<1>10. \A q \in Requests : WaiterIsServed(q)'
  BY <1>0, <1>1, <1>3, <1>4, <1>7, <1>8 DEF WaiterIsServed, MP!TypeOK
<1>11. \A q \in Requests : HolderIsCurrent(q)'
  BY <1>0, <1>1, <1>3, <1>4, <1>7, <1>8 DEF HolderIsCurrent, MP!TypeOK
<1>12. ASSUME NEW q \in Requests
       PROVE  FetcherHolds(q)'
  <2>1. CASE q = r
    <3>1. fut'[r].key = fut[r].key
      BY <1>0 DEF AwaitError, FutureRecord
    <3>2. QED
      BY <1>3, <1>8, <2>1, <3>1 DEF FetcherHolds
  <2>2. CASE q # r
    <3>1. fut'[q] = fut[q] /\ permit'[q] = permit[q]
      BY <1>0, <1>7, <2>2 DEF AwaitError, Futures
    <3>2. QED
      BY <1>1, <1>4, <3>1 DEF FetcherHolds
  <2>3. QED
    BY <2>1, <2>2
<1>13. QED
  BY <1>9, <1>10, <1>11, <1>12 DEF InTurn

(* A waiter that is answered stops waiting. *)
LEMMA OkInTurn ==
    ASSUME SInv, [Next]_vars, InTurn, NEW r \in Requests, AwaitOk(r)
    PROVE  InTurn'
<1>0. MP!TypeOK /\ r \in Futures
      /\ fut \in [Futures -> FutureRecord] /\ fut[r] \in FutureRecord
  BY FutTyped DEF SInv, CInv, GInv, FInv, MP!IInv, Futures
<1>1. \A x : Refused(x) => Refused(x)'
  BY RefusedStays DEF SInv
<1>2. /\ receiver' = [receiver EXCEPT ![r] = None]
      /\ UNCHANGED <<inFlight, capacity, broadcast, permit, checked>>
  BY DEF AwaitOk, Manager!Receive
<1>3. \A q \in Requests : WaiterIsServed(q) /\ HolderIsCurrent(q) /\ FetcherHolds(q)
  BY DEF InTurn
<1>4. MP!SmallSemaphores'
  BY <1>2 DEF InTurn, MP!SmallSemaphores
<1>5. \A q \in Requests : WaiterIsServed(q)'
  BY <1>0, <1>1, <1>2, <1>3 DEF WaiterIsServed, MP!TypeOK
<1>6. \A q \in Requests : HolderIsCurrent(q)'
  BY <1>1, <1>2, <1>3 DEF HolderIsCurrent
<1>7. ASSUME NEW q \in Requests
      PROVE  FetcherHolds(q)'
  <2>1. CASE q = r
    <3>1. fut'[r].state = "Response"
      BY <1>0 DEF AwaitOk, FutureRecord
    <3>2. QED
      BY <2>1, <3>1 DEF FetcherHolds
  <2>2. CASE q # r
    <3>1. fut'[q] = fut[q] /\ permit'[q] = permit[q]
      BY <1>0, <1>2, <2>2 DEF AwaitOk, Futures
    <3>2. QED
      BY <1>1, <1>3, <3>1 DEF FetcherHolds
  <2>3. QED
    BY <2>1, <2>2
<1>8. QED
  BY <1>4, <1>5, <1>6, <1>7 DEF InTurn

(* A request that fetches after a miss got the permit, or met a refusal. *)
LEMMA UpstreamInTurn ==
    ASSUME SInv, [Next]_vars, InTurn, OneByOne, NEW r \in Requests,
           fut[r].state = "CacheAnswered", ToUpstream(r)
    PROVE  InTurn'
<1>0. GInv /\ r \in Futures /\ policy.concurrency = 1
      /\ fut \in [Futures -> FutureRecord] /\ fut[r] \in FutureRecord
  BY FutTyped DEF SInv, CInv, Futures, OneByOne
<1>1. fut[r].key \in Keys /\ permit[r] = None /\ receiver[r] = None
  BY <1>0 DEF GInv, FInv, Keyed, PermitOnlyWhileFetching
<1>2. policy.concurrency # None
  BY <1>0, FutureAssumption
<1>3. Manager!Check(r, fut[r].key, 1)
  BY <1>0, <1>2 DEF ToUpstream
<1>4. \A q \in Requests \ {r} : fut'[q] = fut[q]
  BY <1>0 DEF ToUpstream, Futures
<1>5. fut'[r].state = "PollUpstream" => permit'[r] # None
  BY <1>0, <1>2, SMTT(30) DEF ToUpstream, FutureRecord
<1>6. QED
  BY <1>1, <1>3, <1>4, <1>5, CheckInTurn

(* The configuration never changes. *)
LEMMA PolicyStays == [Next]_vars => UNCHANGED policy
  BY DEF Next, vars, RequestStep, StartRequest, CheckRequestCachePolicy, BackendGet,
         PollCacheHit, PollCacheMiss, ConvertResponse, HandleStaleReturn,
         HandleStaleRevalidate, HandleStaleOffload, AwaitOk, AwaitError, FutureStep,
         PollUpstream, ResponseCacheable, ResponseNonCacheable, UpdateCache, Respond,
         Drop, Age

(* The steps of a request, and then those of any future. *)
LEMMA RequestInTurn ==
    ASSUME SInv, [Next]_vars, InTurn, OneByOne, NEW r \in Requests, RequestStep(r)
    PROVE  InTurn'
<1>0. GInv /\ r \in Futures /\ Requests \subseteq Futures
      /\ fut \in [Futures -> FutureRecord] /\ fut[r] \in FutureRecord
      /\ Carries(r, fut[r], calls[r], policy.stale)
  BY FutTyped, Carrying DEF SInv, CInv, Futures
<1>1. CASE StartRequest(r) \/ CheckRequestCachePolicy(r)
  <2>1. UNCHANGED managerVars /\ \A q \in Requests \ {r} : fut'[q] = fut[q]
    BY <1>0, <1>1 DEF StartRequest, CheckRequestCachePolicy
  <2>2. fut[r].key = None
    BY <1>0, <1>1 DEF StartRequest, CheckRequestCachePolicy, Carries, EmptyHanded
  <2>3. fut'[r].state # "PollUpstream" \/ fut'[r].key = None
    BY <1>0, <1>1, <2>2 DEF StartRequest, CheckRequestCachePolicy, FutureRecord
  <2>4. QED
    BY <2>1, <2>3, LocalInTurn
<1>2. CASE BackendGet(r) \/ ConvertResponse(r) \/ HandleStaleReturn(r)
  <2>1. UNCHANGED managerVars /\ \A q \in Requests \ {r} : fut'[q] = fut[q]
    BY <1>0, <1>2 DEF BackendGet, ConvertResponse, HandleStaleReturn
  <2>2. fut'[r].state # "PollUpstream"
    BY <1>0, <1>2 DEF BackendGet, ConvertResponse, HandleStaleReturn, FutureRecord
  <2>3. QED
    BY <2>1, <2>2, LocalInTurn
<1>3. CASE PollCacheHit(r)
  <2>1. CASE ToUpstream(r)
    BY <1>3, <2>1, UpstreamInTurn DEF PollCacheHit
  <2>2. CASE ~ToUpstream(r)
    <3>1. UNCHANGED managerVars /\ \A q \in Requests \ {r} : fut'[q] = fut[q]
      BY <1>0, <1>3, <2>2 DEF PollCacheHit
    <3>2. fut'[r].state # "PollUpstream"
      BY <1>0, <1>3, <2>2 DEF PollCacheHit, FutureRecord
    <3>3. QED
      BY <3>1, <3>2, LocalInTurn
  <2>3. QED
    BY <2>1, <2>2
<1>4. CASE PollCacheMiss(r)
  BY <1>4, UpstreamInTurn DEF PollCacheMiss
<1>5. CASE HandleStaleRevalidate(r)
  BY <1>5 DEF HandleStaleRevalidate, OneByOne
<1>6. CASE HandleStaleOffload(r)
  <2>1. UNCHANGED managerVars
    BY <1>6 DEF HandleStaleOffload
  <2>2. fut'[r].state = "Response"
    <3>1. fut'[r] = [fut[r] EXCEPT !.state = "Response", !.status = "Stale"]
      BY <1>0, <1>6, OffloadWrites
    <3>2. QED
      BY <1>0, <3>1 DEF FutureRecord
  <2>3. \A q \in Requests \ {r} : fut'[q] = fut[q]
    BY <1>0, <1>6, OffloadWrites, FutureAssumption
  <2>4. QED
    BY <2>1, <2>2, <2>3, LocalInTurn
<1>7. CASE AwaitOk(r)
  BY <1>7, OkInTurn
<1>8. CASE AwaitError(r)
  BY <1>8, ErrorInTurn
<1>9. QED
  BY <1>1, <1>2, <1>3, <1>4, <1>5, <1>6, <1>7, <1>8 DEF RequestStep

LEMMA FutureInTurn ==
    ASSUME SInv, [Next]_vars, InTurn, OneByOne, NEW f \in Futures, FutureStep(f)
    PROVE  InTurn'
<1>0. GInv /\ Requests \subseteq Futures
      /\ fut \in [Futures -> FutureRecord] /\ fut[f] \in FutureRecord
  BY FutTyped DEF SInv, CInv, Futures
<1>1. CASE /\ ResponseCacheable(f) \/ ResponseNonCacheable(f)
           /\ f \in Requests /\ permit[f] # None
  BY <1>1, EndInTurn
<1>2. CASE ~(/\ ResponseCacheable(f) \/ ResponseNonCacheable(f)
             /\ f \in Requests /\ permit[f] # None)
  <2>1. UNCHANGED managerVars /\ \A q \in Requests \ {f} : fut'[q] = fut[q]
    BY <1>0, <1>2 DEF FutureStep, PollUpstream, ResponseCacheable, ResponseNonCacheable,
                      UpdateCache, Respond
  <2>2. fut'[f].state # "PollUpstream"
    BY <1>0 DEF FutureStep, PollUpstream, ResponseCacheable, ResponseNonCacheable,
                UpdateCache, Respond, FutureRecord
  <2>3. QED
    BY <2>1, <2>2, LocalInTurn
<1>3. QED
  BY <1>1, <1>2

(* The invariant is inductive. *)
LEMMA NextSInv == SInv /\ [Next]_vars => SInv'
<1> SUFFICES ASSUME SInv, [Next]_vars
             PROVE  SInv'
  OBVIOUS
<1>1. CInv'
  BY NextCInv DEF SInv
<1>2. MP!PermitsConserved'
  <2>1. [MP!Next]_MP!managerVars
    BY StepMaps, SameNext DEF SInv, CInv, GInv, FInv, Manager!managerVars, MP!managerVars
  <2>2. QED
    BY <2>1, Assumed, MP!NextPermits DEF SInv, CInv, GInv, FInv
<1>3. ASSUME OneByOne'
      PROVE  InTurn'
  <2>1. OneByOne
    BY <1>3, PolicyStays DEF OneByOne
  <2>2. InTurn
    BY <2>1 DEF SInv
  <2>3. CASE UNCHANGED vars \/ \E k \in Keys : Age(k)
    BY <2>2, <2>3, LocalInTurn DEF vars, Age
  <2>4. ~(\E f \in Futures : Drop(f))
    BY <2>1 DEF OneByOne, Drop
  <2>5. QED
    BY <2>1, <2>2, <2>3, <2>4, RequestInTurn, FutureInTurn DEF Next
<1>4. QED
  BY <1>1, <1>2, <1>3 DEF SInv

(* It holds at the start. *)
LEMMA InitSInv == Init => SInv
<1> SUFFICES ASSUME Init
             PROVE  SInv
  OBVIOUS
<1>1. CInv /\ MP!PermitsConserved
  BY InitCInv, Assumed, SameInit, MP!InitPermits DEF Init
<1>2. \A r \in Requests : permit[r] = None /\ receiver[r] = None /\ capacity[r] = 0
                        /\ fut[r].state = "Initial"
  BY DEF Init, Manager!Init, NewFuture, Futures
<1>3. InTurn
  BY <1>2 DEF InTurn, MP!SmallSemaphores, WaiterIsServed, HolderIsCurrent, FetcherHolds
<1>4. QED
  BY <1>1, <1>3 DEF SInv

(* The inductive invariant of one fetch at a time. *)
THEOREM TurnInvariant == Spec => []SInv
BY InitSInv, NextSInv, PTL DEF Spec

(* With a limit of one, a policy that does not revalidate in the foreground *)
(* and nobody dropping futures, two requests of one key fetch at the same   *)
(* time only after a response of the key was refused.                       *)
THEOREM OnlyRefusalsBreakTurns == Spec => []SingleFlight
<1>1. SInv => SingleFlight
  <2> SUFFICES ASSUME SInv, OneByOne, NEW k \in Keys, ~Refused(k)
               PROVE  Cardinality(Fetching(k)) <= 1
    BY DEF SingleFlight, OneByOne, Refused
  <2>1. InTurn /\ MP!TypeOK /\ GInv /\ MP!PermitsConserved
    BY DEF SInv, CInv, GInv, FInv, MP!IInv
  <2>2. \A r \in Fetching(k) : r \in Requests /\ permit[r] # None /\ permit[r] = inFlight[k]
    <3> SUFFICES ASSUME NEW r \in Fetching(k)
                 PROVE  r \in Requests /\ permit[r] # None /\ permit[r] = inFlight[k]
      OBVIOUS
    <3>1. r \in Requests /\ fut[r].state = "PollUpstream" /\ fut[r].key = k /\ k # None
      BY FutureAssumption DEF Fetching
    <3>2. permit[r] # None
      BY <2>1, <3>1 DEF InTurn, FetcherHolds
    <3>3. checked[r] = k
      BY <2>1, <3>1, <3>2, CheckedKey
    <3>4. QED
      BY <2>1, <3>1, <3>2, <3>3 DEF InTurn, HolderIsCurrent
  <2>3. \A q, r \in Fetching(k) : q = r
    <3>1. MP!SmallSemaphores
      BY <2>1 DEF InTurn
    <3>2. QED
      BY <2>1, <2>2, <3>1, Assumed, MP!OneHolder
  <2>4. CASE Fetching(k) = {}
    BY <2>4, FS_EmptySet
  <2>5. CASE Fetching(k) # {}
    <3>1. PICK r : r \in Fetching(k)
      BY <2>5
    <3>2. Fetching(k) = {r}
      BY <2>3, <3>1
    <3>3. Cardinality(Fetching(k)) = 1
      BY <3>2, FS_Singleton
    <3>4. QED
      BY <3>3
  <2>6. QED
    BY <2>4, <2>5
<1>2. QED
  BY <1>1, TurnInvariant, PTL

-----------------------------------------------------------------------------
(* FutureLifecycle alone, with nothing said of Lives but that they change   *)
(* as it allows: a future calls its upstream at most once, stores only      *)
(* under a key, and holds a permit only while it fetches and judges.  The   *)
(* invariants are inductive together with one fact, that a future that      *)
(* looks into the cache has a key.                                          *)
KeyedByPollCache == \A f \in Lifecycle!Futures : Lives[f].stage = "PollCache" => Lives[f].keyed

LInv == /\ Lifecycle!TypeOK
        /\ Lifecycle!OneUpstreamCall
        /\ Lifecycle!StoredUnderAKey
        /\ Lifecycle!PermitWhileFetching
        /\ KeyedByPollCache

(* The invariant of a single future. *)
LifeInv(l) ==
    /\ l \in Lifecycle!Life
    /\ l.calls <= 1
    /\ l.stage \in Lifecycle!BeforeUpstream => l.calls = 0
    /\ l.stage \in {"PollUpstream", "CheckResponseCachePolicy"} => l.calls = 1
    /\ l.stage \in {"PollCache", "CheckResponseCachePolicy", "UpdateCache"} => l.keyed
    /\ l.permit => /\ l.stage \in {"PollUpstream", "CheckResponseCachePolicy"}
                   /\ l.keyed

LEMMA PerFuture ==
    LInv <=> /\ Lives \in [Lifecycle!Futures -> Lifecycle!Life]
             /\ \A f \in Lifecycle!Futures : LifeInv(Lives[f])
  BY DEF LInv, LifeInv, Lifecycle!TypeOK, Lifecycle!OneUpstreamCall, Lifecycle!StoredUnderAKey,
         Lifecycle!PermitWhileFetching, KeyedByPollCache

(* A step that changes one future, and leaves it with its invariant. *)
LEMMA OneFuture ==
    ASSUME LInv, NEW f \in Lifecycle!Futures, NEW l, LifeInv(l),
           Lives' = [Lives EXCEPT ![f] = l]
    PROVE  LInv'
<1>1. /\ Lives' \in [Lifecycle!Futures -> Lifecycle!Life]
      /\ \A g \in Lifecycle!Futures : LifeInv(Lives'[g])
  BY PerFuture DEF LifeInv
<1>2. QED
  BY <1>1, PerFuture
  DEF LInv, LifeInv, Lifecycle!TypeOK, Lifecycle!OneUpstreamCall, Lifecycle!StoredUnderAKey,
      Lifecycle!PermitWhileFetching, KeyedByPollCache

LEMMA FetchKeeps ==
    ASSUME NEW l, LifeInv(l), l.stage \in Lifecycle!BeforeUpstream,
           NEW keyed \in BOOLEAN, NEW b \in BOOLEAN, b => keyed
    PROVE  LifeInv(Lifecycle!Fetching(l, keyed, b))
  BY DEF LifeInv, Lifecycle!Fetching, Lifecycle!At, Lifecycle!Life, Lifecycle!Stages,
         Lifecycle!BeforeUpstream

LEMMA EnterKeeps ==
    ASSUME NEW l, LifeInv(l), NEW stage \in Lifecycle!Stages,
           stage \notin {"PollUpstream", "CheckResponseCachePolicy"},
           stage \in Lifecycle!BeforeUpstream => l.stage \in Lifecycle!BeforeUpstream,
           stage \in {"PollCache", "UpdateCache"} => l.keyed
    PROVE  LifeInv(Lifecycle!Entering(l, stage))
  BY DEF LifeInv, Lifecycle!Entering, Lifecycle!At, Lifecycle!Life, Lifecycle!Stages,
         Lifecycle!BeforeUpstream

LEMMA EnterStep ==
    ASSUME LInv, NEW f \in Lifecycle!Futures, NEW stage \in Lifecycle!Stages,
           stage \notin {"PollUpstream", "CheckResponseCachePolicy"},
           stage \in Lifecycle!BeforeUpstream => Lives[f].stage \in Lifecycle!BeforeUpstream,
           stage \in {"PollCache", "UpdateCache"} => Lives[f].keyed,
           Lifecycle!Enter(f, stage)
    PROVE  LInv'
<1> DEFINE l == Lifecycle!Entering(Lives[f], stage)
<1>1. LifeInv(Lives[f]) /\ Lives \in [Lifecycle!Futures -> Lifecycle!Life]
  BY PerFuture
<1>2. LifeInv(l)
  BY <1>1, EnterKeeps
<1>3. Lives' = [Lives EXCEPT ![f] = l]
  BY <1>1 DEF Lifecycle!Enter
<1> HIDE DEF l
<1>4. QED
  BY <1>2, <1>3, OneFuture

LEMMA FetchStep ==
    ASSUME LInv, NEW f \in Lifecycle!Futures, Lives[f].stage \in Lifecycle!BeforeUpstream,
           NEW b \in BOOLEAN, b => Lives[f].keyed, Lifecycle!Fetch(f, b)
    PROVE  LInv'
<1> DEFINE l == Lifecycle!Fetching(Lives[f], Lives[f].keyed, b)
<1>1. LifeInv(Lives[f]) /\ Lives[f].keyed \in BOOLEAN
  BY PerFuture DEF Lifecycle!Life
<1>2. LifeInv(l)
  BY <1>1, FetchKeeps
<1>3. Lives' = [Lives EXCEPT ![f] = l]
  BY DEF Lifecycle!Fetch
<1> HIDE DEF l
<1>4. QED
  BY <1>2, <1>3, OneFuture

LEMMA TransitionKeeps ==
    ASSUME LInv, NEW f \in Lifecycle!Futures, Lifecycle!Transition(f)
    PROVE  LInv'
<1>0. LifeInv(Lives[f]) /\ Lives \in [Lifecycle!Futures -> Lifecycle!Life]
  BY PerFuture
<1>1. CASE Lifecycle!InitialTransition(f)
  BY <1>1, EnterStep, FetchStep DEF Lifecycle!InitialTransition, Lifecycle!Stages,
                                    Lifecycle!BeforeUpstream
<1>2. CASE Lifecycle!CheckRequestCachePolicyTransition(f)
  <2>1. CASE Lifecycle!Fetch(f, FALSE)
    BY <1>2, <2>1, FetchStep DEF Lifecycle!CheckRequestCachePolicyTransition,
                                 Lifecycle!BeforeUpstream
  <2>2. CASE Lives' = [Lives EXCEPT ![f] = Lifecycle!At("PollCache", TRUE, FALSE, @.calls)]
    <3> DEFINE l == Lifecycle!At("PollCache", TRUE, FALSE, Lives[f].calls)
    <3>1. LifeInv(l)
      BY <1>0, <1>2
      DEF LifeInv, Lifecycle!At, Lifecycle!Life, Lifecycle!Stages,
          Lifecycle!BeforeUpstream, Lifecycle!CheckRequestCachePolicyTransition
    <3>2. Lives' = [Lives EXCEPT ![f] = l]
      BY <1>0, <2>2
    <3> HIDE DEF l
    <3>3. QED
      BY <3>1, <3>2, OneFuture
  <2>3. QED
    BY <1>2, <2>1, <2>2 DEF Lifecycle!CheckRequestCachePolicyTransition
<1>3. CASE Lifecycle!PollCacheTransition(f)
  <2>1. Lives[f].stage = "PollCache" /\ Lives[f].keyed
    BY <1>0, <1>3 DEF Lifecycle!PollCacheTransition, LifeInv
  <2>2. QED
    BY <1>3, <2>1, EnterStep, FetchStep DEF Lifecycle!PollCacheTransition,
                                            Lifecycle!Stages, Lifecycle!BeforeUpstream
<1>4. CASE Lifecycle!ConvertResponseTransition(f)
  BY <1>4, EnterStep DEF Lifecycle!ConvertResponseTransition, Lifecycle!Stages,
                         Lifecycle!BeforeUpstream
<1>5. CASE Lifecycle!HandleStaleTransition(f)
  <2>1. CASE Lifecycle!Enter(f, "Response") \/ Lifecycle!Fetch(f, FALSE)
    BY <1>5, <2>1, EnterStep, FetchStep
    DEF Lifecycle!HandleStaleTransition, Lifecycle!Stages, Lifecycle!BeforeUpstream
  <2>2. ASSUME NEW t \in Tasks, Lives[t].stage = "NotSpawned",
               Lives' = [Lives EXCEPT ![f] = Lifecycle!Entering(@, "Response"),
                                    ![t] = Lifecycle!Fetching(@, TRUE, FALSE)]
        PROVE  LInv'
    <3>1. t \in Lifecycle!Futures /\ t # f
      BY <1>5, <2>2 DEF Lifecycle!Futures, Lifecycle!HandleStaleTransition
    <3>2. LifeInv(Lives[t]) /\ Lives[t].stage \in Lifecycle!BeforeUpstream
      BY <2>2, <3>1, PerFuture DEF Lifecycle!BeforeUpstream
    <3>3. LifeInv(Lifecycle!Fetching(Lives[t], TRUE, FALSE))
      BY <3>2, FetchKeeps
    <3>4. LifeInv(Lifecycle!Entering(Lives[f], "Response"))
      BY <1>0, <1>5 DEF Lifecycle!HandleStaleTransition, LifeInv, Lifecycle!Entering,
                        Lifecycle!At, Lifecycle!Life, Lifecycle!Stages,
                        Lifecycle!BeforeUpstream
    <3>5. /\ Lives'[t] = Lifecycle!Fetching(Lives[t], TRUE, FALSE)
          /\ Lives'[f] = Lifecycle!Entering(Lives[f], "Response")
          /\ \A g \in Lifecycle!Futures \ {t, f} : Lives'[g] = Lives[g]
          /\ Lives' = [g \in Lifecycle!Futures |-> Lives'[g]]
      BY <1>0, <2>2, <3>1
    <3>6. \A g \in Lifecycle!Futures : LifeInv(Lives'[g])
      BY <3>3, <3>4, <3>5, PerFuture
    <3>7. Lives' \in [Lifecycle!Futures -> Lifecycle!Life]
      BY <3>5, <3>6 DEF LifeInv
    <3>8. QED
      BY <3>6, <3>7
      DEF LInv, LifeInv, Lifecycle!TypeOK, Lifecycle!OneUpstreamCall,
          Lifecycle!StoredUnderAKey,
          Lifecycle!PermitWhileFetching, KeyedByPollCache
  <2>3. QED
    BY <1>5, <2>1, <2>2 DEF Lifecycle!HandleStaleTransition
<1>6. CASE Lifecycle!AwaitResponseTransition(f)
  BY <1>6, EnterStep, FetchStep DEF Lifecycle!AwaitResponseTransition, Lifecycle!Stages,
                                    Lifecycle!BeforeUpstream
<1>7. CASE Lifecycle!PollUpstreamTransition(f)
  <2>1. CASE Lives[f].keyed
    <3> DEFINE l == Lifecycle!At("CheckResponseCachePolicy", TRUE, Lives[f].permit,
                              Lives[f].calls)
    <3>1. LifeInv(l)
      BY <1>0, <1>7, <2>1
      DEF LifeInv, Lifecycle!At, Lifecycle!Life, Lifecycle!Stages,
          Lifecycle!BeforeUpstream, Lifecycle!PollUpstreamTransition
    <3>2. Lives' = [Lives EXCEPT ![f] = l]
      BY <1>0, <1>7, <2>1 DEF Lifecycle!PollUpstreamTransition
    <3> HIDE DEF l
    <3>3. QED
      BY <3>1, <3>2, OneFuture
  <2>2. CASE ~Lives[f].keyed
    BY <1>7, <2>2, EnterStep DEF Lifecycle!PollUpstreamTransition, Lifecycle!Stages,
                                 Lifecycle!BeforeUpstream
  <2>3. QED
    BY <2>1, <2>2
<1>8. CASE Lifecycle!CheckResponseCachePolicyTransition(f)
  <2>1. Lives[f].keyed
    BY <1>0, <1>8 DEF LifeInv, Lifecycle!CheckResponseCachePolicyTransition
  <2>2. QED
    BY <1>8, <2>1, EnterStep
    DEF Lifecycle!CheckResponseCachePolicyTransition, Lifecycle!Stages,
        Lifecycle!BeforeUpstream
<1>9. CASE Lifecycle!UpdateCacheTransition(f) \/ Lifecycle!Answer(f) \/ Lifecycle!Dropped(f)
  BY <1>9, EnterStep DEF Lifecycle!UpdateCacheTransition, Lifecycle!Answer,
                         Lifecycle!Dropped, Lifecycle!Stages, Lifecycle!BeforeUpstream
<1>10. QED
  BY <1>1, <1>2, <1>3, <1>4, <1>5, <1>6, <1>7, <1>8, <1>9 DEF Lifecycle!Transition

-----------------------------------------------------------------------------
(* What transitions.rs lets a future do keeps the lifecycle's invariant.    *)
THEOREM LifecycleInvariant == Lifecycle!Spec => []LInv
<1>1. Lifecycle!Init => LInv
  <2> DEFINE new(f) == [stage |-> IF f \in Requests THEN "Initial" ELSE "NotSpawned",
                        keyed |-> FALSE, permit |-> FALSE, calls |-> 0]
  <2>1. \A f \in Lifecycle!Futures : LifeInv(new(f))
    BY DEF LifeInv, Lifecycle!Life, Lifecycle!Stages, Lifecycle!BeforeUpstream
  <2>2. ASSUME Lifecycle!Init
        PROVE  /\ Lives \in [Lifecycle!Futures -> Lifecycle!Life]
               /\ \A f \in Lifecycle!Futures : LifeInv(Lives[f])
    <3>1. Lives = [f \in Lifecycle!Futures |-> new(f)]
      BY <2>2 DEF Lifecycle!Init
    <3> HIDE DEF new
    <3>2. QED
      BY <2>1, <3>1 DEF LifeInv
  <2>3. QED
    BY <2>2, PerFuture
<1>2. LInv /\ [Lifecycle!Next]_Lives => LInv'
  <2> SUFFICES ASSUME LInv, [Lifecycle!Next]_Lives PROVE LInv'
    OBVIOUS
  <2>1. CASE UNCHANGED Lives
    BY <2>1 DEF LInv, Lifecycle!TypeOK, Lifecycle!OneUpstreamCall,
                Lifecycle!StoredUnderAKey, Lifecycle!PermitWhileFetching,
                KeyedByPollCache
  <2>2. CASE Lifecycle!Next
    BY <2>2, TransitionKeeps DEF Lifecycle!Next
  <2>3. QED
    BY <2>1, <2>2
<1>3. QED
  BY <1>1, <1>2, PTL DEF Lifecycle!Spec

-----------------------------------------------------------------------------
(* CacheFuture implements FutureLifecycle: whatever the other futures, the  *)
(* cache and the manager do, each future goes through the transitions of    *)
(* transitions.rs.  A step of the machine is a transition of the one future *)
(* that takes it (two, when a stale value is revalidated in the background) *)
(* or, when the backend answers, a stutter.  What was proved of the         *)
(* lifecycle alone then holds of the machine.                               *)

(* What the mapping needs of a state: a stale value was found under a key.  *)
StaleIsKeyed ==
    \A r \in Requests : fut[r].state = "HandleStale" => fut[r].key \in Keys

HInv == GInv /\ StaleIsKeyed

SameLife(g) == LifeOf(g)' = LifeOf(g)

-----------------------------------------------------------------------------
(* A step of one future is an update of its own life. *)
LEMMA OneLife ==
    ASSUME NEW f \in Futures, \A g \in Futures \ {f} : SameLife(g)
    PROVE  Lives' = [Lives EXCEPT ![f] = LifeOf(f)']
  BY DEF SameLife, Lives

LEMMA EnterMaps ==
    ASSUME NEW f \in Futures, NEW stage, \A g \in Futures \ {f} : SameLife(g),
           fut'[f].state = stage, stage # "CacheAnswered",
           fut'[f].key = fut[f].key, calls'[f] = calls[f],
           f \in Requests => permit'[f] = None
    PROVE  Lifecycle!Enter(f, stage)
<1>1. LifeOf(f)' = Lifecycle!Entering(LifeOf(f), stage)
  BY DEF LifeOf, Lifecycle!Entering, Lifecycle!At
<1>2. Lives[f] = LifeOf(f)
  BY DEF Lives
<1>3. Lives' = [Lives EXCEPT ![f] = Lifecycle!Entering(Lives[f], stage)]
  BY <1>1, <1>2, OneLife
<1>4. QED
  BY <1>3 DEF Lifecycle!Enter

LEMMA FetchMaps ==
    ASSUME NEW f \in Futures, NEW b \in BOOLEAN, \A g \in Futures \ {f} : SameLife(g),
           fut'[f].state = "PollUpstream", fut'[f].key = fut[f].key,
           calls'[f] = calls[f] + 1, (f \in Requests /\ permit'[f] # None) <=> b
    PROVE  Lifecycle!Fetch(f, b)
<1>1. LifeOf(f)' = Lifecycle!Fetching(LifeOf(f), LifeOf(f).keyed, b)
  BY DEF LifeOf, Lifecycle!Fetching, Lifecycle!At
<1>2. Lives[f] = LifeOf(f)
  BY DEF Lives
<1>3. Lives' = [Lives EXCEPT ![f] = Lifecycle!Fetching(Lives[f], Lives[f].keyed, b)]
  BY <1>1, <1>2, OneLife
<1>4. QED
  BY <1>3 DEF Lifecycle!Fetch

LEMMA NothingMaps ==
    ASSUME \A g \in Futures : SameLife(g)
    PROVE  UNCHANGED Lives
  BY DEF SameLife, Lives
-----------------------------------------------------------------------------
(* A step in the life of one future. *)
LifeStep == [Lifecycle!Next]_Lives

LEMMA Step ==
    ASSUME NEW f \in Futures, Lifecycle!Transition(f)
    PROVE  LifeStep
  BY DEF LifeStep, Lifecycle!Next, Lifecycle!Futures, Futures

(* The others are untouched when the machine writes to one future and the   *)
(* manager at most to that future's permit.                                 *)
LEMMA OthersLive ==
    ASSUME NEW f \in Futures,
           \A g \in Futures \ {f} : fut'[g] = fut[g] /\ calls'[g] = calls[g],
           \A q \in Requests \ {f} : permit'[q] = permit[q]
    PROVE  \A g \in Futures \ {f} : SameLife(g)
  BY DEF SameLife, LifeOf

(* What a step of one future may write. *)
LEMMA Writes ==
    ASSUME HInv, NEW f \in Futures, NEW n, NEW c,
           fut' = [fut EXCEPT ![f] = n], calls' = [calls EXCEPT ![f] = c],
           \A q \in Requests \ {f} : permit'[q] = permit[q]
    PROVE  /\ \A g \in Futures \ {f} : SameLife(g)
           /\ fut'[f] = n
           /\ calls'[f] = c
<1>1. fut \in [Futures -> FutureRecord] /\ calls \in [Futures -> Nat]
  BY DEF HInv, GInv, FInv, MachineType
<1>2. QED
  BY <1>1, OthersLive

LEMMA WritesOnlyFut ==
    ASSUME HInv, NEW f \in Futures, NEW n, UNCHANGED calls,
           fut' = [fut EXCEPT ![f] = n],
           \A q \in Requests \ {f} : permit'[q] = permit[q]
    PROVE  /\ \A g \in Futures \ {f} : SameLife(g)
           /\ fut'[f] = n
           /\ calls'[f] = calls[f]
<1>1. fut \in [Futures -> FutureRecord]
  BY DEF HInv, GInv, FInv, MachineType
<1>2. QED
  BY <1>1, OthersLive

LEMMA Entered ==
    ASSUME HInv, NEW f \in Futures, NEW n, NEW stage, stage # "CacheAnswered",
           fut' = [fut EXCEPT ![f] = n], n.state = stage, n.key = fut[f].key,
           UNCHANGED calls, \A q \in Requests \ {f} : permit'[q] = permit[q],
           f \in Requests => permit'[f] = None
    PROVE  Lifecycle!Enter(f, stage)
<1>1. /\ \A g \in Futures \ {f} : SameLife(g)
      /\ fut'[f] = n
      /\ calls'[f] = calls[f]
  BY WritesOnlyFut
<1>2. QED
  BY <1>1, EnterMaps

LEMMA Fetched ==
    ASSUME HInv, NEW f \in Futures, NEW n, NEW b \in BOOLEAN,
           fut' = [fut EXCEPT ![f] = n], n.state = "PollUpstream", n.key = fut[f].key,
           CallUpstream(f), \A q \in Requests \ {f} : permit'[q] = permit[q],
           (f \in Requests /\ permit'[f] # None) <=> b
    PROVE  Lifecycle!Fetch(f, b)
<1>1. calls' = [calls EXCEPT ![f] = calls[f] + 1]
  BY DEF CallUpstream
<1>2. /\ \A g \in Futures \ {f} : SameLife(g)
      /\ fut'[f] = n
      /\ calls'[f] = calls[f] + 1
  BY <1>1, Writes, ZenonT(30)
<1>3. QED
  BY <1>2, FetchMaps

LEMMA NoPermit ==
    ASSUME HInv, NEW r \in Requests,
           fut[r].state \notin {"PollUpstream", "CheckResponseCachePolicy"}
    PROVE  permit[r] = None
  BY DEF HInv, GInv, PermitOnlyWhileFetching

LEMMA Typed ==
    ASSUME HInv, NEW f \in Futures
    PROVE  fut[f] \in FutureRecord /\ fut \in [Futures -> FutureRecord]
  BY DEF HInv, GInv, FInv, MachineType

LEMMA Stage ==
    ASSUME NEW f \in Futures
    PROVE  /\ fut[f].state # "CacheAnswered" => Lives[f].stage = fut[f].state
           /\ fut[f].state = "CacheAnswered" => Lives[f].stage = "PollCache"
<1>1. Lives[f] = LifeOf(f)
  BY DEF Lives
<1>2. LifeOf(f).stage = IF fut[f].state = "CacheAnswered" THEN "PollCache"
                                                          ELSE fut[f].state
  BY DEF LifeOf
<1>3. QED
  BY <1>1, <1>2

LEMMA StartMaps ==
    ASSUME HInv, NEW r \in Requests, StartRequest(r)
    PROVE  LifeStep
<1> r \in Futures
  BY DEF Futures
<1>0. /\ permit[r] = None /\ permit' = permit
      /\ Lives[r].stage = "Initial"
  BY NoPermit, Stage DEF StartRequest, managerVars
<1>1. CASE policy.enabled
  <2> DEFINE n == [fut[r] EXCEPT !.state = "CheckRequestCachePolicy"]
  <2>1. n.state = "CheckRequestCachePolicy" /\ n.key = fut[r].key
    BY Typed DEF FutureRecord
  <2>2. fut' = [fut EXCEPT ![r] = n] /\ UNCHANGED calls
    BY <1>1 DEF StartRequest
  <2> HIDE DEF n
  <2>3. Lifecycle!Enter(r, "CheckRequestCachePolicy")
    BY <1>0, <2>1, <2>2, Entered
  <2>4. QED
    BY <1>0, <2>3, Step DEF Lifecycle!Transition, Lifecycle!InitialTransition
<1>2. CASE ~policy.enabled
  <2> DEFINE n == [fut[r] EXCEPT !.state = "PollUpstream"]
  <2>1. n.state = "PollUpstream" /\ n.key = fut[r].key
    BY Typed DEF FutureRecord
  <2>2. fut' = [fut EXCEPT ![r] = n] /\ CallUpstream(r)
    BY <1>2 DEF StartRequest
  <2> HIDE DEF n
  <2>3. Lifecycle!Fetch(r, FALSE)
    BY <1>0, <2>1, <2>2, Fetched
  <2>4. QED
    BY <1>0, <2>3, Step DEF Lifecycle!Transition, Lifecycle!InitialTransition
<1>3. QED
  BY <1>1, <1>2

LEMMA CheckRequestMaps ==
    ASSUME HInv, NEW r \in Requests, CheckRequestCachePolicy(r)
    PROVE  LifeStep
<1> r \in Futures
  BY DEF Futures
<1>0. /\ permit[r] = None /\ permit' = permit
      /\ Lives[r].stage = "CheckRequestCachePolicy"
      /\ fut[r] \in FutureRecord
  BY NoPermit, Typed, Stage DEF CheckRequestCachePolicy, managerVars
<1>1. ASSUME NEW k \in Keys, UNCHANGED calls,
             fut' = [fut EXCEPT ![r].state = "PollCache", ![r].key = k]
      PROVE  LifeStep
  <2> DEFINE n == [fut[r] EXCEPT !.state = "PollCache", !.key = k]
  <2>1. n.state = "PollCache" /\ n.key = k /\ k # None
    BY <1>0, FutureAssumption DEF FutureRecord
  <2>2. fut' = [fut EXCEPT ![r] = n] /\ calls' = [calls EXCEPT ![r] = calls[r]]
    BY <1>1 DEF HInv, GInv, FInv, MachineType
  <2> HIDE DEF n
  <2>3. /\ \A g \in Futures \ {r} : SameLife(g)
        /\ fut'[r] = n
        /\ calls'[r] = calls[r]
    BY <1>0, <2>2, Writes
  <2>4. LifeOf(r)' = Lifecycle!At("PollCache", TRUE, FALSE, LifeOf(r).calls)
    BY <1>0, <2>1, <2>3 DEF LifeOf, Lifecycle!At
  <2>5. Lives[r] = LifeOf(r)
    BY DEF Lives
  <2>6. Lives' = [Lives EXCEPT ![r] = Lifecycle!At("PollCache", TRUE, FALSE, @.calls)]
    BY <2>3, <2>4, <2>5, OneLife
  <2>7. QED
    BY <1>0, <2>6, Step
    DEF Lifecycle!Transition, Lifecycle!CheckRequestCachePolicyTransition
<1>2. ASSUME fut' = [fut EXCEPT ![r].state = "PollUpstream"], CallUpstream(r)
      PROVE  LifeStep
  <2> DEFINE n == [fut[r] EXCEPT !.state = "PollUpstream"]
  <2>1. n.state = "PollUpstream" /\ n.key = fut[r].key
    BY <1>0 DEF FutureRecord
  <2>2. fut' = [fut EXCEPT ![r] = n]
    BY <1>2
  <2> HIDE DEF n
  <2>3. Lifecycle!Fetch(r, FALSE)
    BY <1>0, <1>2, <2>1, <2>2, Fetched
  <2>4. QED
    BY <1>0, <2>3, Step
    DEF Lifecycle!Transition, Lifecycle!CheckRequestCachePolicyTransition
<1>3. QED
  BY <1>1, <1>2 DEF CheckRequestCachePolicy

(* The backend has answered: the future is still polling the cache. *)
LEMMA BackendGetMaps ==
    ASSUME HInv, NEW r \in Requests, BackendGet(r)
    PROVE  LifeStep
<1> r \in Futures
  BY DEF Futures
<1>1. /\ fut[r].state = "PollCache" /\ fut'[r].state = "CacheAnswered"
      /\ fut'[r].key = fut[r].key
      /\ \A g \in Futures \ {r} : fut'[g] = fut[g]
      /\ permit' = permit /\ calls' = calls
  BY Typed DEF BackendGet, managerVars, FutureRecord
<1>2. \A g \in Futures : LifeOf(g)' = LifeOf(g)
  BY <1>1 DEF LifeOf
<1>3. QED
  BY <1>2, NothingMaps DEF SameLife, LifeStep

LEMMA ToUpstreamMaps ==
    ASSUME HInv, NEW r \in Requests, fut[r].state = "CacheAnswered", ToUpstream(r)
    PROVE  LifeStep
<1> r \in Futures
  BY DEF Futures
<1>0. /\ permit[r] = None /\ receiver[r] = None /\ fut[r].key \in Keys
      /\ Lives[r].stage = "PollCache" /\ fut[r] \in FutureRecord
  BY NoPermit, Typed, Stage DEF HInv, GInv, FInv, Keyed, PermitOnlyWhileFetching
<1>1. /\ \A q \in Requests \ {r} : permit'[q] = permit[q]
      /\ policy.concurrency = None => permit'[r] = None
  <2>1. CASE policy.concurrency = None
    BY <1>0, <2>1 DEF ToUpstream, managerVars
  <2>2. CASE policy.concurrency # None
    <3>1. Manager!Check(r, fut[r].key, policy.concurrency) /\ MP!TypeOK
      BY <2>2 DEF ToUpstream, HInv, GInv, FInv, MP!IInv
    <3>2. QED
      BY <1>0, <2>2, <3>1, CheckOutcome
  <2>3. QED
    BY <2>1, <2>2
<1>2. ASSUME NEW s, s \in {"PollUpstream", "AwaitResponse"},
             fut' = [fut EXCEPT ![r].state = s, ![r].status = "Miss", ![r].entry = None],
             s = "PollUpstream" => CallUpstream(r),
             s = "AwaitResponse" => UNCHANGED calls /\ permit'[r] = None
      PROVE  LifeStep
  <2> DEFINE n == [fut[r] EXCEPT !.state = s, !.status = "Miss", !.entry = None]
  <2>1. n.state = s /\ n.key = fut[r].key
    BY <1>0 DEF FutureRecord
  <2>2. fut' = [fut EXCEPT ![r] = n]
    BY <1>2
  <2> HIDE DEF n
  <2>3. CASE s = "PollUpstream"
    <3> DEFINE b == permit'[r] # None
    <3>1. Lifecycle!Fetch(r, b)
      BY <1>1, <1>2, <2>1, <2>2, <2>3, Fetched
    <3>2. b \in BOOLEAN
      OBVIOUS
    <3> HIDE DEF b
    <3>3. QED
      BY <1>0, <3>1, <3>2, Step DEF Lifecycle!Transition, Lifecycle!PollCacheTransition
  <2>4. CASE s = "AwaitResponse"
    <3>1. Lifecycle!Enter(r, "AwaitResponse")
      BY <1>1, <1>2, <2>1, <2>2, <2>4, Entered
    <3>2. QED
      BY <1>0, <3>1, Step DEF Lifecycle!Transition, Lifecycle!PollCacheTransition
  <2>5. QED
    BY <1>2, <2>3, <2>4
<1>3. QED
  BY <1>2 DEF ToUpstream

LEMMA PollCacheHitMaps ==
    ASSUME HInv, NEW r \in Requests, PollCacheHit(r)
    PROVE  LifeStep
<1> r \in Futures
  BY DEF Futures
<1>0. /\ permit[r] = None /\ fut[r].state = "CacheAnswered"
      /\ Lives[r].stage = "PollCache" /\ fut[r] \in FutureRecord
  BY NoPermit, Typed, Stage DEF PollCacheHit
<1>1. CASE ToUpstream(r)
  BY <1>0, <1>1, ToUpstreamMaps
<1>2. ASSUME NEW s \in {"UpdateCache", "ConvertResponse"}, UNCHANGED <<permit, calls>>,
             fut' = [fut EXCEPT ![r].state = s]
      PROVE  LifeStep
  <2> DEFINE n == [fut[r] EXCEPT !.state = s]
  <2>1. n.state = s /\ n.key = fut[r].key
    BY <1>0 DEF FutureRecord
  <2>2. fut' = [fut EXCEPT ![r] = n]
    BY <1>2
  <2> HIDE DEF n
  <2>3. Lifecycle!Enter(r, s)
    BY <1>0, <1>2, <2>1, <2>2, Entered
  <2>4. QED
    BY <1>0, <2>3, Step DEF Lifecycle!Transition, Lifecycle!PollCacheTransition
<1>3. ASSUME NEW age, UNCHANGED <<permit, calls>>,
             fut' = [fut EXCEPT ![r].state = "HandleStale", ![r].entry.age = age]
      PROVE  LifeStep
  <2> DEFINE n == [fut[r] EXCEPT !.state = "HandleStale", !.entry.age = age]
  <2>1. n.state = "HandleStale" /\ n.key = fut[r].key
    BY <1>0 DEF FutureRecord
  <2>2. fut' = [fut EXCEPT ![r] = n]
    BY <1>3
  <2> HIDE DEF n
  <2>3. Lifecycle!Enter(r, "HandleStale")
    BY <1>0, <1>3, <2>1, <2>2, Entered
  <2>4. QED
    BY <1>0, <2>3, Step DEF Lifecycle!Transition, Lifecycle!PollCacheTransition
<1>4. QED
  BY <1>1, <1>2, <1>3 DEF PollCacheHit, managerVars

(* Actions that leave the permit alone and enter a state, or fetch.         *)
LEMMA EnterAction ==
    ASSUME HInv, NEW f \in Futures, NEW n, UNCHANGED <<permit, calls>>,
           f \in Requests => permit[f] = None,
           fut' = [fut EXCEPT ![f] = n], n.key = fut[f].key, n.state # "CacheAnswered"
    PROVE  Lifecycle!Enter(f, n.state)
  BY Entered

LEMMA FetchAction ==
    ASSUME HInv, NEW f \in Futures, NEW n, UNCHANGED permit, CallUpstream(f),
           f \in Requests => permit[f] = None,
           fut' = [fut EXCEPT ![f] = n], n.key = fut[f].key, n.state = "PollUpstream"
    PROVE  Lifecycle!Fetch(f, FALSE)
  BY Fetched

LEMMA HandleStaleMaps ==
    ASSUME HInv, NEW r \in Requests,
           ConvertResponse(r) \/ HandleStaleReturn(r) \/ HandleStaleRevalidate(r)
    PROVE  LifeStep
<1> r \in Futures
  BY DEF Futures
<1>0. fut[r] \in FutureRecord
  BY Typed
<1>1. CASE ConvertResponse(r)
  <2> DEFINE n == [fut[r] EXCEPT !.state = "Response"]
  <2>1. /\ permit[r] = None /\ Lives[r].stage = "ConvertResponse"
        /\ n.state = "Response" /\ n.key = fut[r].key
    BY <1>0, <1>1, NoPermit, Stage DEF ConvertResponse, FutureRecord
  <2>2. fut' = [fut EXCEPT ![r] = n] /\ UNCHANGED <<permit, calls>>
    BY <1>1 DEF ConvertResponse, managerVars
  <2> HIDE DEF n
  <2>3. Lifecycle!Enter(r, "Response")
    BY <2>1, <2>2, EnterAction
  <2>4. QED
    BY <2>1, <2>3, Step DEF Lifecycle!Transition, Lifecycle!ConvertResponseTransition
<1>2. CASE HandleStaleReturn(r)
  <2> DEFINE n == [fut[r] EXCEPT !.state = "Response", !.status = "Stale"]
  <2>1. /\ permit[r] = None /\ Lives[r].stage = "HandleStale"
        /\ n.state = "Response" /\ n.key = fut[r].key
    BY <1>0, <1>2, NoPermit, Stage DEF HandleStaleReturn, FutureRecord
  <2>2. fut' = [fut EXCEPT ![r] = n] /\ UNCHANGED <<permit, calls>>
    BY <1>2 DEF HandleStaleReturn, managerVars
  <2> HIDE DEF n
  <2>3. Lifecycle!Enter(r, "Response")
    BY <2>1, <2>2, EnterAction
  <2>4. QED
    BY <2>1, <2>3, Step DEF Lifecycle!Transition, Lifecycle!HandleStaleTransition
<1>3. CASE HandleStaleRevalidate(r)
  <2> DEFINE n == [fut[r] EXCEPT !.state = "PollUpstream", !.status = "Miss",
                                 !.entry = None]
  <2>1. /\ permit[r] = None /\ Lives[r].stage = "HandleStale"
        /\ n.state = "PollUpstream" /\ n.key = fut[r].key
    BY <1>0, <1>3, NoPermit, Stage DEF HandleStaleRevalidate, FutureRecord
  <2>2. fut' = [fut EXCEPT ![r] = n] /\ UNCHANGED permit /\ CallUpstream(r)
    BY <1>3 DEF HandleStaleRevalidate, managerVars
  <2> HIDE DEF n
  <2>3. Lifecycle!Fetch(r, FALSE)
    BY <2>1, <2>2, FetchAction
  <2>4. QED
    BY <2>1, <2>3, Step DEF Lifecycle!Transition, Lifecycle!HandleStaleTransition
<1>4. QED
  BY <1>1, <1>2, <1>3

LEMMA AwaitMaps ==
    ASSUME HInv, NEW r \in Requests, AwaitOk(r) \/ AwaitError(r)
    PROVE  LifeStep
<1> r \in Futures
  BY DEF Futures
<1>0. /\ permit[r] = None /\ fut[r] \in FutureRecord
      /\ Lives[r].stage = "AwaitResponse"
  BY NoPermit, Typed, Stage DEF AwaitOk, AwaitError
<1>1. CASE AwaitOk(r)
  <2> DEFINE n == [fut[r] EXCEPT !.state = "Response",
                                 !.entry = [by  |-> broadcast[receiver[r]][1],
                                            age |-> "Actual"]]
  <2>1. n.state = "Response" /\ n.key = fut[r].key
    BY <1>0 DEF FutureRecord
  <2>2. fut' = [fut EXCEPT ![r] = n] /\ UNCHANGED <<permit, calls>>
    BY <1>1 DEF AwaitOk, Manager!Receive
  <2> HIDE DEF n
  <2>3. Lifecycle!Enter(r, "Response")
    BY <1>0, <2>1, <2>2, EnterAction
  <2>4. QED
    BY <1>0, <2>3, Step DEF Lifecycle!Transition, Lifecycle!AwaitResponseTransition
<1>2. CASE AwaitError(r)
  <2> DEFINE n == [fut[r] EXCEPT !.state = "PollUpstream"]
  <2>1. n.state = "PollUpstream" /\ n.key = fut[r].key
    BY <1>0 DEF FutureRecord
  <2>2. fut' = [fut EXCEPT ![r] = n] /\ UNCHANGED permit /\ CallUpstream(r)
    BY <1>2 DEF AwaitError, Manager!ReceiveError
  <2> HIDE DEF n
  <2>3. Lifecycle!Fetch(r, FALSE)
    BY <1>0, <2>1, <2>2, FetchAction
  <2>4. QED
    BY <1>0, <2>3, Step DEF Lifecycle!Transition, Lifecycle!AwaitResponseTransition
<1>3. QED
  BY <1>1, <1>2

(* Two lives change at once: the answered request's and the task's.         *)
LEMMA OffloadMaps ==
    ASSUME HInv, NEW r \in Requests, HandleStaleOffload(r)
    PROVE  LifeStep
<1> r \in Futures
  BY DEF Futures
<1>0. /\ permit[r] = None /\ fut[r] \in FutureRecord /\ permit' = permit
      /\ Lives[r].stage = "HandleStale" /\ fut[r].key # None
  BY NoPermit, Typed, Stage, FutureAssumption
  DEF HandleStaleOffload, managerVars, HInv, StaleIsKeyed
<1>1. ASSUME UNCHANGED calls,
             fut' = [fut EXCEPT ![r].state = "Response", ![r].status = "Stale"]
      PROVE  LifeStep
  <2> DEFINE n == [fut[r] EXCEPT !.state = "Response", !.status = "Stale"]
  <2>1. n.state = "Response" /\ n.key = fut[r].key
    BY <1>0 DEF FutureRecord
  <2>2. fut' = [fut EXCEPT ![r] = n] /\ UNCHANGED <<permit, calls>>
    BY <1>0, <1>1
  <2> HIDE DEF n
  <2>3. Lifecycle!Enter(r, "Response")
    BY <1>0, <2>1, <2>2, EnterAction
  <2>4. QED
    BY <1>0, <2>3, Step DEF Lifecycle!Transition, Lifecycle!HandleStaleTransition
<1>2. ASSUME NEW t \in Tasks, fut[t].state = "NotSpawned", CallUpstream(t),
             fut' = [fut EXCEPT ![r].state = "Response", ![r].status = "Stale",
                                ![t].state = "PollUpstream", ![t].key = fut[r].key]
      PROVE  LifeStep
  <2>1. t \in Futures /\ t \notin Requests /\ t # r
    BY FutureAssumption DEF Futures
  <2>2. fut[t] \in FutureRecord /\ fut \in [Futures -> FutureRecord]
        /\ calls \in [Futures -> Nat]
    BY <2>1, Typed DEF HInv, GInv, FInv, MachineType
  <2>3. /\ fut'[r].state = "Response" /\ fut'[r].key = fut[r].key
        /\ fut'[t].state = "PollUpstream" /\ fut'[t].key = fut[r].key
        /\ \A g \in Futures \ {r, t} : fut'[g] = fut[g]
    <3>1. /\ fut'[r] = [fut[r] EXCEPT !.state = "Response", !.status = "Stale"]
          /\ fut'[t] = [fut[t] EXCEPT !.state = "PollUpstream", !.key = fut[r].key]
          /\ \A g \in Futures \ {r, t} : fut'[g] = fut[g]
      BY <1>2, <2>1, <2>2
    <3>2. QED
      BY <1>0, <2>2, <3>1 DEF FutureRecord
  <2>4. /\ calls'[t] = calls[t] + 1
        /\ \A g \in Futures \ {t} : calls'[g] = calls[g]
    BY <1>2, <2>1, <2>2 DEF CallUpstream
  <2>5. LifeOf(r)' = Lifecycle!Entering(LifeOf(r), "Response")
    BY <1>0, <2>1, <2>3, <2>4 DEF LifeOf, Lifecycle!Entering, Lifecycle!At
  <2>6. LifeOf(t)' = Lifecycle!Fetching(LifeOf(t), TRUE, FALSE)
    BY <1>0, <2>1, <2>3, <2>4 DEF LifeOf, Lifecycle!Fetching, Lifecycle!At
  <2>7. \A g \in Futures \ {r, t} : LifeOf(g)' = LifeOf(g)
    BY <1>0, <2>3, <2>4 DEF LifeOf
  <2>8. Lives[r] = LifeOf(r) /\ Lives[t] = LifeOf(t)
    BY <2>1 DEF Lives
  <2>9. Lives' = [Lives EXCEPT ![r] = Lifecycle!Entering(@, "Response"),
                               ![t] = Lifecycle!Fetching(@, TRUE, FALSE)]
    BY <2>1, <2>5, <2>6, <2>7, <2>8 DEF Lives
  <2>10. Lives[t].stage = "NotSpawned"
    BY <1>2, <2>1, Stage
  <2>11. Lifecycle!HandleStaleTransition(r)
    BY <1>0, <2>9, <2>10 DEF Lifecycle!HandleStaleTransition
  <2>12. QED
    BY <2>11, Step DEF Lifecycle!Transition
<1>3. QED
  BY <1>1, <1>2 DEF HandleStaleOffload

LEMMA PollUpstreamMaps ==
    ASSUME HInv, NEW f \in Futures, PollUpstream(f)
    PROVE  LifeStep
<1>0. /\ fut[f] \in FutureRecord /\ Lives[f].stage = "PollUpstream"
      /\ UNCHANGED <<permit, calls>>
      /\ Lives[f] = LifeOf(f) /\ calls \in [Futures -> Nat]
  BY Typed, Stage DEF PollUpstream, managerVars, Lives, HInv, GInv, FInv, MachineType
<1>1. CASE fut[f].key = None
  <2> DEFINE n == [fut[f] EXCEPT !.state = "Response",
                                 !.entry = [by |-> f, age |-> "Actual"]]
  <2>1. n.state = "Response" /\ n.key = fut[f].key
    BY <1>0 DEF FutureRecord
  <2>2. fut' = [fut EXCEPT ![f] = n]
    BY <1>1 DEF PollUpstream
  <2> HIDE DEF n
  <2>3. f \in Requests => permit[f] = None
    BY <1>1, Assumed DEF HInv, GInv, FInv, MP!IInv, MP!PermitKeys, Protocol
  <2>4. Lifecycle!Enter(f, "Response")
    BY <1>0, <2>1, <2>2, <2>3, EnterAction
  <2>5. ~Lives[f].keyed
    <3>1. LifeOf(f).keyed = (fut[f].key # None)
      BY DEF LifeOf
    <3>2. QED
      BY <1>0, <1>1, <3>1
  <2>6. QED
    BY <1>0, <2>4, <2>5, Step DEF Lifecycle!Transition, Lifecycle!PollUpstreamTransition
<1>2. CASE fut[f].key # None
  <2> DEFINE n == [fut[f] EXCEPT !.state = "CheckResponseCachePolicy",
                                 !.entry = [by |-> f, age |-> "Actual"]]
  <2>1. n.state = "CheckResponseCachePolicy" /\ n.key = fut[f].key
    BY <1>0 DEF FutureRecord
  <2>2. fut' = [fut EXCEPT ![f] = n]
    BY <1>2 DEF PollUpstream
  <2> HIDE DEF n
  <2>3. /\ \A g \in Futures \ {f} : SameLife(g)
        /\ fut'[f] = n
        /\ calls'[f] = calls[f]
    BY <1>0, <2>2, WritesOnlyFut
  <2>4. /\ LifeOf(f)' = Lifecycle!At("CheckResponseCachePolicy", TRUE,
                                     LifeOf(f).permit, LifeOf(f).calls)
        /\ LifeOf(f).keyed
    BY <1>0, <1>2, <2>1, <2>3 DEF LifeOf, Lifecycle!At
  <2>5. Lives' = [Lives EXCEPT ![f] =
                    Lifecycle!At("CheckResponseCachePolicy", TRUE, @.permit, @.calls)]
    BY <1>0, <2>3, <2>4, OneLife
  <2>6. QED
    BY <1>0, <2>4, <2>5, Step DEF Lifecycle!Transition, Lifecycle!PollUpstreamTransition
<1>3. QED
  BY <1>1, <1>2

LEMMA ResponseMaps ==
    ASSUME HInv, NEW f \in Futures, ResponseCacheable(f) \/ ResponseNonCacheable(f)
    PROVE  LifeStep
<1>0. fut[f] \in FutureRecord /\ Lives[f].stage = "CheckResponseCachePolicy"
  BY Typed, Stage DEF ResponseCacheable, ResponseNonCacheable
<1>1. /\ UNCHANGED calls
      /\ \A q \in Requests \ {f} : permit'[q] = permit[q]
      /\ f \in Requests => permit'[f] = None
  BY DEF ResponseCacheable, ResponseNonCacheable, Manager!Resolve, Manager!Cleanup,
         Manager!ReleasePermit, managerVars, HInv, GInv, FInv, MP!IInv, MP!TypeOK
<1>2. PICK s \in {"UpdateCache", "Response"}, v \in {"Cacheable", "NonCacheable"} :
          fut' = [fut EXCEPT ![f].state = s, ![f].verdict = v]
  BY DEF ResponseCacheable, ResponseNonCacheable
<1> DEFINE n == [fut[f] EXCEPT !.state = s, !.verdict = v]
<1>3. n.state = s /\ n.key = fut[f].key /\ s # "CacheAnswered"
  BY <1>0 DEF FutureRecord
<1>4. fut' = [fut EXCEPT ![f] = n]
  BY <1>2
<1> HIDE DEF n
<1>5. Lifecycle!Enter(f, s)
  BY <1>1, <1>3, <1>4, Entered
<1>6. QED
  BY <1>0, <1>5, Step
  DEF Lifecycle!Transition, Lifecycle!CheckResponseCachePolicyTransition

LEMMA EndMaps ==
    ASSUME HInv, NEW f \in Futures, UpdateCache(f) \/ Respond(f) \/ Drop(f)
    PROVE  LifeStep
<1>0. fut[f] \in FutureRecord
  BY Typed
<1>1. CASE UpdateCache(f)
  <2> DEFINE n == [fut[f] EXCEPT !.state = "Response"]
  <2>1. /\ n.state = "Response" /\ n.key = fut[f].key
        /\ f \in Requests => permit[f] = None
        /\ Lives[f].stage = "UpdateCache"
    BY <1>0, <1>1, NoPermit, Stage DEF UpdateCache, FutureRecord
  <2>2. fut' = [fut EXCEPT ![f] = n] /\ UNCHANGED <<permit, calls>>
    BY <1>1 DEF UpdateCache, managerVars
  <2> HIDE DEF n
  <2>3. Lifecycle!Enter(f, "Response")
    BY <2>1, <2>2, EnterAction
  <2>4. QED
    BY <2>1, <2>3, Step DEF Lifecycle!Transition, Lifecycle!UpdateCacheTransition
<1>2. CASE Respond(f)
  <2> DEFINE n == [fut[f] EXCEPT !.state = "Ready",
                                 !.source = IF fut[f].status = "Miss"
                                            THEN "Upstream" ELSE @]
  <2>1. /\ n.state = "Ready" /\ n.key = fut[f].key
        /\ f \in Requests => permit[f] = None
        /\ Lives[f].stage = "Response"
    BY <1>0, <1>2, NoPermit, Stage DEF Respond, FutureRecord
  <2>2. fut' = [fut EXCEPT ![f] = n] /\ UNCHANGED <<permit, calls>>
    BY <1>2 DEF Respond, managerVars
  <2> HIDE DEF n
  <2>3. Lifecycle!Enter(f, "Ready")
    BY <2>1, <2>2, EnterAction
  <2>4. QED
    BY <2>1, <2>3, Step DEF Lifecycle!Transition, Lifecycle!Answer
<1>3. CASE Drop(f)
  <2> DEFINE n == [fut[f] EXCEPT !.state = "Dropped"]
  <2>1. n.state = "Dropped" /\ n.key = fut[f].key
    BY <1>0 DEF FutureRecord
  <2>2. fut' = [fut EXCEPT ![f] = n]
    BY <1>3 DEF Drop
  <2>3. /\ UNCHANGED calls
        /\ \A q \in Requests \ {f} : permit'[q] = permit[q]
        /\ f \in Requests => permit'[f] = None
    BY <1>3 DEF Drop, Manager!Drop, Manager!ReleasePermit, managerVars,
                HInv, GInv, FInv, MP!IInv, MP!TypeOK
  <2> HIDE DEF n
  <2>4. Lifecycle!Enter(f, "Dropped")
    BY <2>1, <2>2, <2>3, Entered
  <2>5. Lives[f].stage \notin {"Ready", "Dropped", "NotSpawned"}
    BY <1>3, Stage DEF Drop
  <2>6. QED
    BY <2>4, <2>5, Step DEF Lifecycle!Transition, Lifecycle!Dropped
<1>4. QED
  BY <1>1, <1>2, <1>3

LEMMA StepIsLife == HInv /\ [Next]_vars => LifeStep
<1> SUFFICES ASSUME HInv, [Next]_vars
             PROVE  LifeStep
  OBVIOUS
<1>1. CASE UNCHANGED vars
  BY <1>1, NothingMaps DEF vars, managerVars, LifeStep, SameLife, LifeOf
<1>2. ASSUME NEW r \in Requests, RequestStep(r)
      PROVE  LifeStep
  <2>1. CASE PollCacheMiss(r)
    BY <2>1, ToUpstreamMaps DEF PollCacheMiss
  <2>2. QED
    BY <1>2, <2>1, StartMaps, CheckRequestMaps, BackendGetMaps, PollCacheHitMaps,
       HandleStaleMaps, OffloadMaps, AwaitMaps DEF RequestStep
<1>3. ASSUME NEW f \in Futures, FutureStep(f) \/ Drop(f)
      PROVE  LifeStep
  BY <1>3, PollUpstreamMaps, ResponseMaps, EndMaps DEF FutureStep
<1>4. ASSUME NEW k \in Keys, Age(k)
      PROVE  LifeStep
  BY <1>4, NothingMaps DEF Age, managerVars, LifeStep, SameLife, LifeOf
<1>5. QED
  BY <1>1, <1>2, <1>3, <1>4 DEF Next

-----------------------------------------------------------------------------
(* A future only gets to HandleStale from the cache, with its key. *)
LEMMA StaleFromCache ==
    ASSUME HInv, [Next]_vars, NEW r \in Requests, fut'[r].state = "HandleStale"
    PROVE  /\ fut[r].state \in {"CacheAnswered", "HandleStale"}
           /\ fut'[r].key = fut[r].key
<1> /\ fut \in [Futures -> FutureRecord] /\ r \in Futures /\ r \notin Tasks
  BY FutureAssumption DEF HInv, GInv, FInv, MachineType, Futures
<1>1. CASE UNCHANGED vars
  BY <1>1 DEF vars
<1>2. ASSUME NEW q \in Requests, RequestStep(q)
      PROVE  /\ fut[r].state \in {"CacheAnswered", "HandleStale"}
             /\ fut'[r].key = fut[r].key
  <2> q \in Futures
    BY DEF Futures
  <2>1. CASE PollCacheHit(q) \/ PollCacheMiss(q)
    BY <2>1 DEF PollCacheHit, PollCacheMiss, ToUpstream, FutureRecord
  <2>2. CASE StartRequest(q) \/ CheckRequestCachePolicy(q) \/ BackendGet(q)
                \/ ConvertResponse(q) \/ HandleStaleReturn(q)
                \/ HandleStaleRevalidate(q)
    BY <2>2 DEF StartRequest, CheckRequestCachePolicy, BackendGet, ConvertResponse,
                HandleStaleReturn, HandleStaleRevalidate, FutureRecord
  <2>3. CASE HandleStaleOffload(q)
    BY <2>3 DEF HandleStaleOffload, FutureRecord
  <2>4. CASE AwaitOk(q) \/ AwaitError(q)
    BY <2>4 DEF AwaitOk, AwaitError, FutureRecord
  <2>5. QED
    BY <1>2, <2>1, <2>2, <2>3, <2>4 DEF RequestStep
<1>3. ASSUME NEW f \in Futures, FutureStep(f) \/ Drop(f)
      PROVE  /\ fut[r].state \in {"CacheAnswered", "HandleStale"}
             /\ fut'[r].key = fut[r].key
  BY <1>3 DEF FutureStep, PollUpstream, ResponseCacheable, ResponseNonCacheable,
              UpdateCache, Respond, Drop, FutureRecord
<1>4. ASSUME NEW k \in Keys, Age(k)
      PROVE  /\ fut[r].state \in {"CacheAnswered", "HandleStale"}
             /\ fut'[r].key = fut[r].key
  BY <1>4 DEF Age
<1>5. QED
  BY <1>1, <1>2, <1>3, <1>4 DEF Next

LEMMA NextHInv == HInv /\ [Next]_vars => HInv'
<1> SUFFICES ASSUME HInv, [Next]_vars
             PROVE  StaleIsKeyed'
  BY NextGInv DEF HInv
<1> SUFFICES ASSUME NEW r \in Requests, fut'[r].state = "HandleStale"
             PROVE  fut'[r].key \in Keys
  BY DEF StaleIsKeyed
<1>1. /\ fut[r].state \in {"CacheAnswered", "HandleStale"}
      /\ fut'[r].key = fut[r].key
  BY StaleFromCache
<1>2. QED
  BY <1>1 DEF HInv, StaleIsKeyed, GInv, FInv, Keyed, Futures

LEMMA InitHInv == Init => HInv
<1> SUFFICES ASSUME Init
             PROVE  StaleIsKeyed
  BY InitGInv DEF HInv
<1>1. QED
  BY DEF Init, NewFuture, Futures, StaleIsKeyed

LEMMA InitMaps == Init => Lifecycle!Init
<1> SUFFICES ASSUME Init
             PROVE  \A f \in Futures :
                       LifeOf(f) = [stage |-> IF f \in Requests THEN "Initial"
                                                               ELSE "NotSpawned",
                                    keyed |-> FALSE, permit |-> FALSE, calls |-> 0]
  BY DEF Lifecycle!Init, Lives, Lifecycle!Futures, Futures
<1> TAKE f \in Futures
<1>1. /\ fut[f].state = IF f \in Requests THEN "Initial" ELSE "NotSpawned"
      /\ fut[f].key = None /\ calls[f] = 0
  BY DEF Init, NewFuture
<1>2. f \in Requests => permit[f] = None
  BY DEF Init, Manager!Init
<1>3. QED
  BY <1>1, <1>2 DEF LifeOf

(* Each future of the machine goes through the transitions transitions.rs   *)
(* gives it, with the key, the permit and the upstream call they hand on.   *)
THEOREM MachineImplementsLifecycle == Spec => ImplementsLifecycle
<1>1. Spec => []HInv
  BY InitHInv, NextHInv, PTL DEF Spec
<1>2. HInv /\ [Next]_vars => [Lifecycle!Next]_Lives
  BY StepIsLife DEF LifeStep
<1>3. QED
  BY <1>1, <1>2, InitMaps, PTL DEF Spec, ImplementsLifecycle, Lifecycle!Spec

(* Whatever way a request comes to its answer, it calls the upstream at     *)
(* most once: what was proved of the lifecycle holds of the machine.        *)
THEOREM MachineCallsOnce == Spec => []AtMostOneCall
<1>1. LInv => AtMostOneCall
  BY DEF LInv, AtMostOneCall
<1>2. QED
  BY <1>1, LifecycleInvariant, MachineImplementsLifecycle, PTL DEF ImplementsLifecycle
=============================================================================
