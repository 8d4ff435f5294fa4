---------------------- MODULE ConcurrencyManagerProofs ----------------------
(***************************************************************************)
(* Proofs about ConcurrencyManager, for every set of requests and keys and *)
(* every set of limits.                                                    *)
(***************************************************************************)
EXTENDS ConcurrencyManager, FiniteSetTheorems, SequenceTheorems, TLAPS

(* An entry of the map belongs to the key its creator checked with, and     *)
(* nothing has been sent on its channel.                                    *)
LiveEntries ==
    \A k \in Keys : inFlight[k] # None =>
        /\ checked[inFlight[k]] = k
        /\ broadcast[inFlight[k]] = <<>>

(* Holders and waiters have called check, for the key of their channel. *)
PermitKeys ==
    \A r \in Requests : permit[r] # None =>
        checked[r] # None /\ checked[permit[r]] = checked[r]

ReceiverKeys ==
    \A r \in Requests : receiver[r] # None =>
        checked[r] # None /\ checked[receiver[r]] = checked[r]

(* What was sent on a channel was sent by a request of the channel's key. *)
BroadcastKeys ==
    \A c \in Requests : broadcast[c] # <<>> =>
        /\ checked[c] # None
        /\ Len(broadcast[c]) = 1
        /\ checked[broadcast[c][1]] = checked[c]

(* The inductive invariant.  TypeOK alone is not inductive: that Resolve    *)
(* removes the entry of a key, and not of None, needs PermitKeys.           *)
IInv ==
    /\ TypeOK
    /\ LiveEntries
    /\ PermitKeys
    /\ ReceiverKeys
    /\ BroadcastKeys

-----------------------------------------------------------------------------
LEMMA InitIInv == Init => IInv
  BY DEF Init, IInv, TypeOK, LiveEntries, PermitKeys, ReceiverKeys, BroadcastKeys

(* Giving a permit back keeps the semaphores well-typed. *)
LEMMA ReleaseType ==
    ASSUME TypeOK, NEW r \in Requests, ReleasePermit(r)
    PROVE  /\ permit' = [permit EXCEPT ![r] = None]
           /\ permit' \in [Requests -> Requests \cup {None}]
           /\ available' \in [Requests -> Nat]
  BY ManagerAssumption DEF ReleasePermit, TypeOK

LEMMA CheckIInv ==
    ASSUME IInv, NEW r \in Requests, NEW k \in Keys, NEW n \in Limits,
           Check(r, k, n)
    PROVE  IInv'
<1> USE ManagerAssumption
<1>1. k # None /\ r # None
  OBVIOUS
<1>2. /\ checked[r] = None
      /\ checked' = [checked EXCEPT ![r] = k]
  BY DEF Check
<1>3. \A q \in Requests : checked[q] # None => q # r /\ checked'[q] = checked[q]
  BY <1>2 DEF IInv, TypeOK
<1>4. CASE OpenChannel(r, k, n)
  <2> USE <1>4 DEF OpenChannel
  <2>1. TypeOK'
    BY <1>2 DEF IInv, TypeOK
  <2>2. broadcast[r] = <<>>
    BY <1>2 DEF IInv, BroadcastKeys
  <2>3. LiveEntries'
    BY <1>1, <1>2, <1>3, <2>2 DEF IInv, TypeOK, LiveEntries
  <2>4. PermitKeys'
    BY <1>1, <1>2, <1>3 DEF IInv, TypeOK, PermitKeys
  <2>5. ReceiverKeys'
    BY <1>1, <1>2, <1>3 DEF IInv, TypeOK, ReceiverKeys
  <2>6. BroadcastKeys'
    BY <1>2, <1>3 DEF IInv, TypeOK, BroadcastKeys
  <2>7. QED
    BY <2>1, <2>3, <2>4, <2>5, <2>6 DEF IInv
<1>5. CASE JoinHolders(r, k)
  <2> USE <1>5 DEF JoinHolders
  <2>1. TypeOK'
    BY <1>2 DEF IInv, TypeOK
  <2>2. LiveEntries'
    BY <1>1, <1>2, <1>3 DEF IInv, TypeOK, LiveEntries
  <2>3. PermitKeys'
    BY <1>1, <1>2, <1>3 DEF IInv, TypeOK, PermitKeys, LiveEntries
  <2>4. ReceiverKeys'
    BY <1>1, <1>2, <1>3 DEF IInv, TypeOK, ReceiverKeys
  <2>5. BroadcastKeys'
    BY <1>2, <1>3 DEF IInv, TypeOK, BroadcastKeys
  <2>6. QED
    BY <2>1, <2>2, <2>3, <2>4, <2>5 DEF IInv
<1>6. CASE Subscribe(r, k)
  <2> USE <1>6 DEF Subscribe
  <2>1. TypeOK'
    BY <1>2 DEF IInv, TypeOK
  <2>2. LiveEntries'
    BY <1>1, <1>2, <1>3 DEF IInv, TypeOK, LiveEntries
  <2>3. PermitKeys'
    BY <1>1, <1>2, <1>3 DEF IInv, TypeOK, PermitKeys
  <2>4. ReceiverKeys'
    BY <1>1, <1>2, <1>3 DEF IInv, TypeOK, ReceiverKeys, LiveEntries
  <2>5. BroadcastKeys'
    BY <1>2, <1>3 DEF IInv, TypeOK, BroadcastKeys
  <2>6. QED
    BY <2>1, <2>2, <2>3, <2>4, <2>5 DEF IInv
<1>7. QED
  BY <1>4, <1>5, <1>6 DEF Check

LEMMA ResolveIInv ==
    ASSUME IInv, NEW r \in Requests, Resolve(r)
    PROVE  IInv'
<1> USE ManagerAssumption
<1> DEFINE k == checked[r]
           c == inFlight[k]
<1>1. permit[r] # None /\ k \in Keys /\ c \in Requests \cup {None}
  BY DEF Resolve, IInv, TypeOK, PermitKeys
<1>2. /\ inFlight' = [inFlight EXCEPT ![k] = None]
      /\ ReleasePermit(r)
      /\ UNCHANGED <<capacity, receiver, checked>>
  BY DEF Resolve, RemoveEntry
<1>3. c # None => broadcast[c] = <<>> /\ checked[c] = k
  BY <1>1 DEF IInv, LiveEntries
<1>4. broadcast' = IF c = None THEN broadcast
                               ELSE [broadcast EXCEPT ![c] = <<r>>]
  <2>1. Append(<<>>, r) = <<r>>
    OBVIOUS
  <2>2. c # None => Append(broadcast[c], r) = <<r>>
    BY <1>3, <2>1
  <2>3. QED
    BY <2>2 DEF Resolve
<1>5. TypeOK'
  BY <1>1, <1>2, <1>4, ReleaseType DEF IInv, TypeOK
<1>6. LiveEntries'
  BY <1>1, <1>2, <1>3, <1>4 DEF IInv, TypeOK, LiveEntries
<1>7. PermitKeys'
  BY <1>2, ReleaseType DEF IInv, TypeOK, PermitKeys
<1>8. ReceiverKeys'
  BY <1>2 DEF IInv, ReceiverKeys
<1>9. BroadcastKeys'
  BY <1>1, <1>2, <1>3, <1>4 DEF IInv, TypeOK, BroadcastKeys
<1>10. QED
  BY <1>5, <1>6, <1>7, <1>8, <1>9 DEF IInv

LEMMA CleanupIInv ==
    ASSUME IInv, NEW r \in Requests, Cleanup(r)
    PROVE  IInv'
<1> USE ManagerAssumption
<1>1. /\ inFlight' = [inFlight EXCEPT ![checked[r]] = None]
      /\ ReleasePermit(r)
      /\ UNCHANGED <<capacity, broadcast, receiver, checked>>
  BY DEF Cleanup, RemoveEntry
<1>2. TypeOK'
  BY <1>1, ReleaseType DEF IInv, TypeOK
<1>3. LiveEntries'
  BY <1>1 DEF IInv, TypeOK, LiveEntries
<1>4. PermitKeys'
  BY <1>1, ReleaseType DEF IInv, TypeOK, PermitKeys
<1>5. ReceiverKeys' /\ BroadcastKeys'
  BY <1>1 DEF IInv, ReceiverKeys, BroadcastKeys
<1>6. QED
  BY <1>2, <1>3, <1>4, <1>5 DEF IInv

LEMMA ReceiveIInv ==
    ASSUME IInv, NEW r \in Requests, Receive(r) \/ ReceiveError(r)
    PROVE  IInv'
<1> USE ManagerAssumption
<1>1. /\ receiver' = [receiver EXCEPT ![r] = None]
      /\ UNCHANGED <<capacity, available, broadcast, permit, checked>>
      /\ \/ inFlight' = inFlight
         \/ inFlight' = [inFlight EXCEPT ![checked[r]] = None]
  BY DEF Receive, ReceiveError
<1>2. TypeOK'
  BY <1>1 DEF IInv, TypeOK
<1>3. LiveEntries'
  BY <1>1 DEF IInv, TypeOK, LiveEntries
<1>4. PermitKeys' /\ BroadcastKeys'
  BY <1>1 DEF IInv, PermitKeys, BroadcastKeys
<1>5. ReceiverKeys'
  BY <1>1 DEF IInv, TypeOK, ReceiverKeys
<1>6. QED
  BY <1>2, <1>3, <1>4, <1>5 DEF IInv

LEMMA DropIInv ==
    ASSUME IInv, NEW r \in Requests, DropBusy(r)
    PROVE  IInv'
<1> USE ManagerAssumption
<1>1. /\ receiver' = [receiver EXCEPT ![r] = None]
      /\ ReleasePermit(r)
      /\ UNCHANGED <<inFlight, capacity, broadcast, checked>>
  BY DEF DropBusy, Drop
<1>2. TypeOK'
  BY <1>1, ReleaseType DEF IInv, TypeOK
<1>3. LiveEntries' /\ BroadcastKeys'
  BY <1>1 DEF IInv, LiveEntries, BroadcastKeys
<1>4. PermitKeys'
  BY <1>1, ReleaseType DEF IInv, TypeOK, PermitKeys
<1>5. ReceiverKeys'
  BY <1>1 DEF IInv, TypeOK, ReceiverKeys
<1>6. QED
  BY <1>2, <1>3, <1>4, <1>5 DEF IInv

LEMMA NextIInv == IInv /\ [Next]_managerVars => IInv'
<1> SUFFICES ASSUME IInv, [Next]_managerVars PROVE IInv'
  OBVIOUS
<1>1. CASE Next
  BY <1>1, CheckIInv, ResolveIInv, CleanupIInv, ReceiveIInv, DropIInv DEF Next
<1>2. CASE UNCHANGED managerVars
  BY <1>2 DEF managerVars, IInv, TypeOK, LiveEntries, PermitKeys,
              ReceiverKeys, BroadcastKeys
<1>3. QED
  BY <1>1, <1>2

(* The inductive invariant holds in every behaviour of the manager. *)
THEOREM Invariant == Spec => []IInv
  BY InitIInv, NextIInv, PTL DEF Spec

(* The manager's variables keep their types in every behaviour, whatever    *)
(* the number of requests and keys and however they interleave.             *)
THEOREM TypeCorrect == Spec => []TypeOK
<1>1. IInv => TypeOK
  BY DEF IInv
<1>2. QED
  BY <1>1, Invariant, PTL

-----------------------------------------------------------------------------
(* No interleaving of holders of old and new generations sends twice on one *)
(* channel, so recv never yields Lagged (concurrency.rs:24).                *)
THEOREM OneMessage == Spec => []OneMessagePerChannel
<1>1. IInv => OneMessagePerChannel
  <2> SUFFICES ASSUME IInv, NEW c \in Requests
               PROVE  Len(broadcast[c]) <= 1
    BY DEF OneMessagePerChannel, CHANNEL_CAPACITY
  <2>1. CASE broadcast[c] = <<>>
    <3>1. broadcast[c] \in Seq(Requests)
      BY DEF IInv, TypeOK
    <3>2. Len(broadcast[c]) = 0
      BY <2>1, <3>1, EmptySeq
    <3>3. QED
      BY <3>2
  <2>2. CASE broadcast[c] # <<>>
    <3>1. Len(broadcast[c]) = 1
      BY <2>2 DEF IInv, BroadcastKeys
    <3>2. QED
      BY <3>1
  <2>3. QED
    BY <2>1, <2>2
<1>2. QED
  BY <1>1, Invariant, PTL

(* A channel that a request can still subscribe to has not been answered,   *)
(* so no subscriber comes too late for the only message.                    *)
THEOREM NoLateSubscriber == Spec => []LiveChannelIsEmpty
<1>1. IInv => LiveChannelIsEmpty
  BY DEF IInv, LiveEntries, LiveChannelIsEmpty
<1>2. QED
  BY <1>1, Invariant, PTL

(* Entries, permits, subscriptions and messages never cross from one cache  *)
(* key to another.                                                          *)
THEOREM KeysAreSeparate == Spec => []OneKeyPerChannel
<1>1. IInv => OneKeyPerChannel
  <2> SUFFICES ASSUME IInv PROVE OneKeyPerChannel
    OBVIOUS
  <2>1. ASSUME NEW c \in Requests, NEW i \in 1..Len(broadcast[c])
        PROVE  checked[broadcast[c][i]] = checked[c]
    <3>1. broadcast[c] # <<>>
      BY <2>1
    <3>2. Len(broadcast[c]) = 1 /\ checked[broadcast[c][1]] = checked[c]
      BY <3>1 DEF IInv, BroadcastKeys
    <3>3. i = 1
      BY <2>1, <3>2
    <3>4. QED
      BY <3>2, <3>3
  <2>2. QED
    BY <2>1 DEF IInv, LiveEntries, PermitKeys, ReceiverKeys, OneKeyPerChannel
<1>2. QED
  BY <1>1, Invariant, PTL

-----------------------------------------------------------------------------
(* Permit accounting: how the set of holders of a channel changes. *)
LEMMA HoldersFinite ==
    ASSUME NEW c \in Requests
    PROVE  IsFiniteSet(Holders(c)) /\ Cardinality(Holders(c)) \in Nat
<1>1. Holders(c) \subseteq Requests
  BY DEF Holders
<1>2. QED
  BY <1>1, ManagerAssumption, FS_Subset, FS_CardinalityType

(* A request without permit that takes one joins the holders of exactly one *)
(* channel.                                                                 *)
LEMMA AcquireHolders ==
    ASSUME TypeOK, NEW r \in Requests, NEW d \in Requests, permit[r] = None,
           permit' = [permit EXCEPT ![r] = d], NEW c \in Requests
    PROVE  Cardinality(Holders(c)') =
             IF c = d THEN Cardinality(Holders(c)) + 1 ELSE Cardinality(Holders(c))
<1>1. r \notin Holders(c)
  BY ManagerAssumption DEF Holders
<1>2. CASE c = d
  <2>1. Holders(c)' = Holders(c) \cup {r}
    BY <1>2 DEF Holders, TypeOK
  <2>2. QED
    BY <1>1, <1>2, <2>1, HoldersFinite, FS_AddElement
<1>3. CASE c # d
  <2>1. Holders(c)' = Holders(c)
    BY <1>1, <1>3 DEF Holders, TypeOK
  <2>2. QED
    BY <1>3, <2>1
<1>4. QED
  BY <1>2, <1>3

(* A permit that is dropped goes back to the semaphore it came from. *)
LEMMA ReleaseConserves ==
    ASSUME TypeOK, NEW r \in Requests, ReleasePermit(r), NEW c \in Requests
    PROVE  available'[c] + Cardinality(Holders(c)') =
             available[c] + Cardinality(Holders(c))
<1>1. permit' = [permit EXCEPT ![r] = None]
  BY DEF ReleasePermit
<1>2. CASE permit[r] = c
  <2>1. Holders(c)' = Holders(c) \ {r} /\ r \in Holders(c)
    BY <1>1, <1>2, ManagerAssumption DEF Holders, TypeOK
  <2>2. Cardinality(Holders(c)') = Cardinality(Holders(c)) - 1
    BY <2>1, HoldersFinite, FS_RemoveElement
  <2>3. available'[c] = available[c] + 1
    BY <1>2, ManagerAssumption DEF ReleasePermit, TypeOK
  <2>4. available[c] \in Nat
    BY DEF TypeOK
  <2>5. QED
    BY <2>2, <2>3, <2>4, HoldersFinite
<1>3. CASE permit[r] # c
  <2>1. Holders(c)' = Holders(c)
    BY <1>1, <1>3, ManagerAssumption DEF Holders, TypeOK
  <2>2. available'[c] = available[c]
    BY <1>3 DEF ReleasePermit, TypeOK
  <2>3. QED
    BY <2>1, <2>2
<1>4. QED
  BY <1>2, <1>3

(* A semaphore of one permit has one holder. *)
SmallSemaphores == \A c \in Requests : capacity[c] <= 1

LEMMA OneHolder ==
    ASSUME TypeOK, PermitsConserved, SmallSemaphores, NEW q \in Requests, NEW r \in Requests,
           permit[q] # None, permit[q] = permit[r]
    PROVE  q = r
<1> DEFINE c == permit[q]
           S == Holders(c)
<1>1. c \in Requests /\ q \in S /\ r \in S
  BY DEF TypeOK, Holders
<1>2. IsFiniteSet(S) /\ Cardinality(S) \in Nat
  BY <1>1, HoldersFinite
<1>3. Cardinality(S) <= 1
  <2>1. available[c] + Cardinality(S) = capacity[c]
    BY <1>1 DEF PermitsConserved
  <2>2. available[c] \in Nat /\ capacity[c] <= 1
    BY <1>1 DEF TypeOK, SmallSemaphores
  <2>3. QED
    BY <1>2, <2>1, <2>2
<1>4. S # {}
  BY <1>1
<1>5. Cardinality(S) = 1
  BY <1>2, <1>3, <1>4, FS_EmptySet
<1>6. PICK x : S = {x}
  BY <1>2, <1>5, FS_Singleton
<1>7. QED
  BY <1>1, <1>6

LEMMA InitPermits == Init => PermitsConserved
<1> SUFFICES ASSUME Init, NEW c \in Requests
             PROVE  available[c] + Cardinality(Holders(c)) = capacity[c]
  BY DEF PermitsConserved
<1>1. Holders(c) = {}
  BY ManagerAssumption DEF Init, Holders
<1>2. QED
  BY <1>1, FS_EmptySet DEF Init

(* A request holds no permit before it called check. *)
LEMMA CheckPermits ==
    ASSUME IInv, PermitsConserved, NEW r \in Requests, NEW k \in Keys,
           NEW n \in Limits, Check(r, k, n)
    PROVE  PermitsConserved'
<1> SUFFICES ASSUME NEW c \in Requests
             PROVE  available'[c] + Cardinality(Holders(c)') = capacity'[c]
  BY DEF PermitsConserved
<1>1. checked[r] = None /\ permit[r] = None
  BY DEF Check, IInv, PermitKeys
<1>2. available[c] + Cardinality(Holders(c)) = capacity[c] /\ available[c] \in Nat
  BY DEF PermitsConserved, IInv, TypeOK
<1>3. CASE OpenChannel(r, k, n)
  <2>1. permit' = [permit EXCEPT ![r] = r] /\ n \in Nat
    BY <1>3, ManagerAssumption DEF OpenChannel
  <2>2. CASE c = r
    <3>1. Holders(c) = {}
      BY <1>1, <2>2, ManagerAssumption DEF Holders, IInv, PermitKeys
    <3>2. Cardinality(Holders(c)') = Cardinality(Holders(c)) + 1
      BY <1>1, <2>1, <2>2, AcquireHolders DEF IInv
    <3>3. available'[c] = n - 1 /\ capacity'[c] = n
      BY <1>3, <2>2 DEF OpenChannel, IInv, TypeOK
    <3>4. QED
      BY <2>1, <3>1, <3>2, <3>3, FS_EmptySet
  <2>3. CASE c # r
    <3>1. Cardinality(Holders(c)') = Cardinality(Holders(c))
      BY <1>1, <2>1, <2>3, AcquireHolders DEF IInv
    <3>2. available'[c] = available[c] /\ capacity'[c] = capacity[c]
      BY <1>3, <2>3 DEF OpenChannel, IInv, TypeOK
    <3>3. QED
      BY <1>2, <3>1, <3>2
  <2>4. QED
    BY <2>2, <2>3
<1>4. CASE JoinHolders(r, k)
  <2> DEFINE d == inFlight[k]
  <2>1. d \in Requests /\ permit' = [permit EXCEPT ![r] = d]
    BY <1>4 DEF JoinHolders, IInv, TypeOK
  <2>2. available' = [available EXCEPT ![d] = available[d] - 1] /\ capacity' = capacity
    BY <1>4 DEF JoinHolders
  <2>3. CASE c = d
    <3>1. Cardinality(Holders(c)') = Cardinality(Holders(c)) + 1
      BY <1>1, <2>1, <2>3, AcquireHolders DEF IInv
    <3>2. available'[c] = available[c] - 1
      BY <2>2, <2>3 DEF IInv, TypeOK
    <3>3. QED
      BY <1>2, <2>2, <3>1, <3>2, HoldersFinite
  <2>4. CASE c # d
    <3>1. Cardinality(Holders(c)') = Cardinality(Holders(c))
      BY <1>1, <2>1, <2>4, AcquireHolders DEF IInv
    <3>2. available'[c] = available[c]
      BY <2>2, <2>4 DEF IInv, TypeOK
    <3>3. QED
      BY <1>2, <2>2, <3>1, <3>2
  <2>5. QED
    BY <2>3, <2>4
<1>5. CASE Subscribe(r, k)
  BY <1>2, <1>5 DEF Subscribe, Holders
<1>6. QED
  BY <1>3, <1>4, <1>5 DEF Check

LEMMA NextPermits == IInv /\ PermitsConserved /\ [Next]_managerVars => PermitsConserved'
<1> SUFFICES ASSUME IInv, PermitsConserved, [Next]_managerVars
             PROVE  PermitsConserved'
  OBVIOUS
<1>1. ASSUME NEW r \in Requests, Resolve(r) \/ Cleanup(r) \/ DropBusy(r)
      PROVE  PermitsConserved'
  <2>1. ReleasePermit(r) /\ capacity' = capacity
    BY <1>1 DEF Resolve, Cleanup, DropBusy, Drop
  <2>2. QED
    BY <2>1, ReleaseConserves DEF PermitsConserved, IInv
<1>2. ASSUME NEW r \in Requests, Receive(r) \/ ReceiveError(r)
      PROVE  PermitsConserved'
  BY <1>2 DEF Receive, ReceiveError, PermitsConserved, Holders
<1>3. CASE UNCHANGED managerVars
  BY <1>3 DEF managerVars, PermitsConserved, Holders
<1>4. QED
  BY <1>1, <1>2, <1>3, CheckPermits DEF Next

(* Every generation's free permits and holders always add up to the limit   *)
(* it was created with, whoever resolves, cleans up or is dropped in which  *)
(* order, and also after the generation left the map.                       *)
THEOREM PermitAccounting == Spec => []PermitsConserved
  BY InitPermits, NextPermits, Invariant, PTL DEF Spec

-----------------------------------------------------------------------------
(* A request that gives up its permit takes the key's entry with it, so the *)
(* holders of the entries of all other keys are untouched.                  *)
LEMMA FinishKeepsOwners ==
    ASSUME IInv, NoOrphanEntry, NEW r \in Requests, Resolve(r) \/ Cleanup(r)
    PROVE  NoOrphanEntry'
<1> SUFFICES ASSUME ~CanCancel, NEW k \in Keys, inFlight'[k] # None
             PROVE  Holders(inFlight[k])' # {}
  BY DEF NoOrphanEntry
<1>1. /\ permit[r] # None
      /\ inFlight' = [inFlight EXCEPT ![checked[r]] = None]
      /\ permit' = [permit EXCEPT ![r] = None]
  BY DEF Resolve, Cleanup, RemoveEntry, ReleasePermit
<1>2. k # checked[r] /\ inFlight'[k] = inFlight[k]
  BY <1>1 DEF IInv, TypeOK
<1>3. PICK h \in Requests : permit[h] = inFlight[k]
  BY <1>2 DEF NoOrphanEntry, Holders
<1>4. h # r
  BY <1>2, <1>3 DEF IInv, LiveEntries, PermitKeys
<1>5. permit'[h] = inFlight'[k]
  BY <1>1, <1>2, <1>3, <1>4 DEF IInv, TypeOK
<1>6. QED
  BY <1>5 DEF Holders

LEMMA CheckKeepsOwners ==
    ASSUME IInv, NoOrphanEntry, NEW r \in Requests, NEW k \in Keys,
           NEW n \in Limits, Check(r, k, n)
    PROVE  NoOrphanEntry'
<1> SUFFICES ASSUME ~CanCancel, NEW j \in Keys, inFlight'[j] # None
             PROVE  \E h \in Requests : permit'[h] = inFlight'[j]
  BY DEF NoOrphanEntry, Holders
<1>1. permit[r] = None
  BY DEF Check, IInv, PermitKeys
<1>2. ASSUME inFlight[j] # None, inFlight'[j] = inFlight[j],
             \A q \in Requests : q # r => permit'[q] = permit[q]
      PROVE  \E h \in Requests : permit'[h] = inFlight'[j]
  <2>1. PICK h \in Requests : permit[h] = inFlight[j]
    BY <1>2 DEF NoOrphanEntry, Holders
  <2>2. QED
    BY <1>1, <1>2, <2>1
<1>3. CASE OpenChannel(r, k, n)
  <2>1. CASE j = k
    BY <1>3, <2>1 DEF OpenChannel, IInv, TypeOK
  <2>2. CASE j # k
    BY <1>2, <1>3, <2>2 DEF OpenChannel, IInv, TypeOK
  <2>3. QED
    BY <2>1, <2>2
<1>4. CASE JoinHolders(r, k)
  BY <1>2, <1>4 DEF JoinHolders, IInv, TypeOK
<1>5. CASE Subscribe(r, k)
  BY <1>2, <1>5 DEF Subscribe
<1>6. QED
  BY <1>3, <1>4, <1>5 DEF Check

LEMMA NextOwners == IInv /\ NoOrphanEntry /\ [Next]_managerVars => NoOrphanEntry'
<1> SUFFICES ASSUME IInv, NoOrphanEntry, [Next]_managerVars
             PROVE  NoOrphanEntry'
  OBVIOUS
<1>1. ASSUME NEW r \in Requests, Receive(r) \/ ReceiveError(r)
      PROVE  NoOrphanEntry'
  <2>1. /\ permit' = permit
        /\ \/ inFlight' = inFlight
           \/ inFlight' = [inFlight EXCEPT ![checked[r]] = None]
    BY <1>1 DEF Receive, ReceiveError
  <2>2. \A k \in Keys : inFlight'[k] # None => inFlight'[k] = inFlight[k]
    BY <2>1 DEF IInv, TypeOK
  <2>3. QED
    BY <2>1, <2>2 DEF NoOrphanEntry, Holders
<1>2. ASSUME NEW r \in Requests, DropBusy(r)
      PROVE  NoOrphanEntry'
  BY <1>2 DEF DropBusy, Drop, NoOrphanEntry
<1>3. CASE UNCHANGED managerVars
  BY <1>3 DEF managerVars, NoOrphanEntry, Holders
<1>4. QED
  BY <1>1, <1>2, <1>3, CheckKeepsOwners, FinishKeepsOwners DEF Next

(* As long as no future is dropped, every entry of the in-flight map has a  *)
(* permit holder that will remove it: requests that wait do not wait for    *)
(* nobody.                                                                  *)
THEOREM EntriesAreOwned == Spec => []NoOrphanEntry
<1>1. Init => NoOrphanEntry
  BY DEF Init, NoOrphanEntry
<1>2. QED
  BY <1>1, NextOwners, Invariant, PTL DEF Spec

(* check() never replaces an entry other requests are waiting on: an entry  *)
(* leaves the map before the next generation of its key enters it.          *)
THEOREM NoReplacement == Spec => EntryNeverReplaced
<1>1. IInv /\ [Next]_managerVars =>
        [\A k \in Keys : inFlight[k] # None =>
                            inFlight'[k] \in {inFlight[k], None}]_managerVars
  <2> SUFFICES ASSUME IInv, Next, NEW k \in Keys, inFlight[k] # None
               PROVE  inFlight'[k] \in {inFlight[k], None}
    OBVIOUS
  <2>1. ASSUME NEW r \in Requests, NEW j \in Keys, NEW n \in Limits, Check(r, j, n)
        PROVE  inFlight'[k] = inFlight[k]
    BY <2>1 DEF Check, OpenChannel, JoinHolders, Subscribe, IInv, TypeOK
  <2>2. ASSUME NEW r \in Requests, Resolve(r) \/ Cleanup(r) \/ ReceiveError(r)
        PROVE  inFlight'[k] \in {inFlight[k], None}
    BY <2>2 DEF Resolve, Cleanup, RemoveEntry, ReceiveError, IInv, TypeOK
  <2>3. ASSUME NEW r \in Requests, Receive(r) \/ DropBusy(r)
        PROVE  inFlight'[k] = inFlight[k]
    BY <2>3 DEF Receive, DropBusy, Drop
  <2>4. QED
    BY <2>1, <2>2, <2>3 DEF Next
<1>2. QED
  BY <1>1, Invariant, PTL DEF Spec, EntryNeverReplaced

(* Whoever subscribes to a channel gets one message, in time and of its own *)
(* key, for every number of requests and keys.                              *)
THEOREM ChannelsAnswer == Spec => []ChannelsAnswerOnce
<1>1. OneMessagePerChannel /\ LiveChannelIsEmpty /\ OneKeyPerChannel => ChannelsAnswerOnce
  BY DEF ChannelsAnswerOnce
<1>2. QED
  BY <1>1, OneMessage, NoLateSubscriber, KeysAreSeparate, PTL
=============================================================================
