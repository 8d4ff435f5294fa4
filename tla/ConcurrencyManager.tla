------------------------- MODULE ConcurrencyManager -------------------------
(***************************************************************************)
(* BroadcastConcurrencyManager (hitbox/src/concurrency.rs): dogpile        *)
(* prevention.  The manager maps a cache key to one in-flight entry, a     *)
(* broadcast sender together with a semaphore.  A request that misses the  *)
(* cache calls `check`: it either takes a permit and goes to the upstream, *)
(* or it subscribes to the entry's channel and waits.  A permit holder     *)
(* ends with `resolve` (the response was cacheable) or `cleanup` (it was   *)
(* not); either one removes whatever entry the key has at that moment.     *)
(*                                                                         *)
(* A request calls `check` at most once in its life, so the channel and    *)
(* the semaphore that a request creates are named by the request itself:   *)
(* "channel c" is the generation that request c inserted.                  *)
(***************************************************************************)
EXTENDS Naturals, Sequences, FiniteSets

CONSTANTS
    Requests,   \* the futures that may call the manager
    Keys,       \* cache keys
    Limits,     \* the concurrency limits a policy may pass to `check`
    CanCancel,  \* whether the caller of a future may drop it before it ends
    None        \* Option::None

ASSUME ManagerAssumption ==
    /\ IsFiniteSet(Requests)
    /\ Limits \subseteq 1..255          \* BoundedU8<1, 255>
    /\ CanCancel \in BOOLEAN
    /\ None \notin Requests
    /\ None \notin Keys

VARIABLES
    inFlight,   \* key -> the channel in the DashMap, or None
    capacity,   \* channel -> permits its semaphore was created with
    available,  \* channel -> permits left in its semaphore
    broadcast,  \* channel -> the values sent on it (each value is its producer)
    permit,     \* request -> the channel whose permit it holds, or None
    receiver,   \* request -> the channel it is subscribed to, or None
    checked     \* request -> the key it called `check` with, or None

managerVars ==
    <<inFlight, capacity, available, broadcast, permit, receiver, checked>>

CHANNEL_CAPACITY == 1

TypeOK ==
    /\ inFlight  \in [Keys -> Requests \cup {None}]
    /\ capacity  \in [Requests -> Limits \cup {0}]
    /\ available \in [Requests -> Nat]
    /\ broadcast \in [Requests -> Seq(Requests)]
    /\ permit    \in [Requests -> Requests \cup {None}]
    /\ receiver  \in [Requests -> Requests \cup {None}]
    /\ checked   \in [Requests -> Keys \cup {None}]

Init ==
    /\ inFlight  = [k \in Keys |-> None]
    /\ capacity  = [c \in Requests |-> 0]
    /\ available = [c \in Requests |-> 0]
    /\ broadcast = [c \in Requests |-> <<>>]
    /\ permit    = [r \in Requests |-> None]
    /\ receiver  = [r \in Requests |-> None]
    /\ checked   = [r \in Requests |-> None]

-----------------------------------------------------------------------------
(* The sender of a channel lives in the map and nowhere else. *)
SenderAlive(c) == \E k \in Keys : inFlight[k] = c

Holders(c) == {r \in Requests : permit[r] = c}

RemoveEntry(k) == inFlight' = [inFlight EXCEPT ![k] = None]

(* Mutant of ReleasePermit: the permit is forgotten instead of dropped. *)
ForgetPermit(r) ==
    /\ permit' = [permit EXCEPT ![r] = None]
    /\ UNCHANGED available

(* Dropping an OwnedSemaphorePermit gives the permit back to its semaphore, *)
(* whether or not the semaphore is still in the map.                        *)
ReleasePermit(r) ==
    /\ permit' = [permit EXCEPT ![r] = None]
    /\ available' = IF permit[r] = None
                    THEN available
                    ELSE [available EXCEPT ![permit[r]] = @ + 1]

-----------------------------------------------------------------------------
(* Mutant of OpenChannel: the entry is looked up and inserted in two steps, *)
(* so another request's entry may be there by the time of the insertion.    *)
OpenChannelUnchecked(r, k, n) ==
    /\ inFlight'  = [inFlight EXCEPT ![k] = r]
    /\ capacity'  = [capacity EXCEPT ![r] = n]
    /\ available' = [available EXCEPT ![r] = n - 1]
    /\ permit'    = [permit EXCEPT ![r] = r]
    /\ UNCHANGED <<broadcast, receiver>>

(* check(), Entry::Vacant: a new channel and a semaphore of n permits, the  *)
(* first of which r takes, are inserted atomically.                         *)
OpenChannel(r, k, n) ==
    /\ inFlight[k] = None
    /\ inFlight'  = [inFlight EXCEPT ![k] = r]
    /\ capacity'  = [capacity EXCEPT ![r] = n]
    /\ available' = [available EXCEPT ![r] = n - 1]
    /\ permit'    = [permit EXCEPT ![r] = r]
    /\ UNCHANGED <<broadcast, receiver>>

(* Mutant of JoinHolders: nobody looks whether a permit is left. *)
JoinHoldersUnchecked(r, k) ==
    /\ inFlight[k] # None
    /\ available' = [available EXCEPT ![inFlight[k]] = @ - 1]
    /\ permit'    = [permit EXCEPT ![r] = inFlight[k]]
    /\ UNCHANGED <<inFlight, capacity, broadcast, receiver>>

(* check(), Entry::Occupied and try_acquire_owned succeeds. *)
JoinHolders(r, k) ==
    /\ inFlight[k] # None
    /\ available[inFlight[k]] > 0
    /\ available' = [available EXCEPT ![inFlight[k]] = @ - 1]
    /\ permit'    = [permit EXCEPT ![r] = inFlight[k]]
    /\ UNCHANGED <<inFlight, capacity, broadcast, receiver>>

(* check(), Entry::Occupied and no permit is left: subscribe and wait. *)
Subscribe(r, k) ==
    /\ inFlight[k] # None
    /\ available[inFlight[k]] = 0
    /\ receiver' = [receiver EXCEPT ![r] = inFlight[k]]
    /\ UNCHANGED <<inFlight, capacity, available, broadcast, permit>>

Check(r, k, n) ==
    /\ checked[r] = None
    /\ checked' = [checked EXCEPT ![r] = k]
    /\ \/ OpenChannel(r, k, n)
       \/ JoinHolders(r, k)
       \/ Subscribe(r, k)

(* Mutant of Resolve: the sender is taken from the entry with get(), and    *)
(* the entry stays in the map.                                              *)
ResolveKeepsEntry(r) ==
    /\ permit[r] # None
    /\ broadcast' = IF inFlight[checked[r]] = None
                    THEN broadcast
                    ELSE [broadcast EXCEPT ![inFlight[checked[r]]] = Append(@, r)]
    /\ ReleasePermit(r)
    /\ UNCHANGED <<inFlight, capacity, receiver, checked>>

(* resolve(): remove the key's entry and broadcast the value to whoever is  *)
(* subscribed to it; the caller then drops its permit.                      *)
Resolve(r) ==
    /\ permit[r] # None
    /\ RemoveEntry(checked[r])
    /\ broadcast' = IF inFlight[checked[r]] = None
                    THEN broadcast
                    ELSE [broadcast EXCEPT ![inFlight[checked[r]]] = Append(@, r)]
    /\ ReleasePermit(r)
    /\ UNCHANGED <<capacity, receiver, checked>>

(* Mutant of Cleanup: a refused response only gives its permit back. *)
CleanupKeepsEntry(r) ==
    /\ permit[r] # None
    /\ ReleasePermit(r)
    /\ UNCHANGED <<inFlight, capacity, broadcast, receiver, checked>>

(* cleanup() by a permit holder whose response is not cacheable: the entry  *)
(* goes, its sender is dropped with it, and the permit is released.         *)
Cleanup(r) ==
    /\ permit[r] # None
    /\ RemoveEntry(checked[r])
    /\ ReleasePermit(r)
    /\ UNCHANGED <<capacity, broadcast, receiver, checked>>

(* What receiver.recv() yields.  A live channel is always empty (see        *)
(* LiveChannelIsEmpty), so everything on the channel was sent after r       *)
(* subscribed.                                                              *)
RecvResult(r) ==
    LET sent == Len(broadcast[receiver[r]]) IN
    IF sent > CHANNEL_CAPACITY THEN "Lagged"
    ELSE IF sent = CHANNEL_CAPACITY THEN "Ok"
    ELSE IF SenderAlive(receiver[r]) THEN "Pending"
    ELSE "Closed"

Receive(r) ==
    /\ receiver[r] # None
    /\ RecvResult(r) = "Ok"
    /\ receiver' = [receiver EXCEPT ![r] = None]
    /\ UNCHANGED <<inFlight, capacity, available, broadcast, permit, checked>>

(* The error arm of AwaitResponse: on Closed the waiter calls cleanup(key). *)
ReceiveError(r) ==
    /\ receiver[r] # None
    /\ RecvResult(r) \in {"Lagged", "Closed"}
    /\ inFlight' = IF RecvResult(r) = "Closed"
                   THEN [inFlight EXCEPT ![checked[r]] = None]
                   ELSE inFlight
    /\ receiver' = [receiver EXCEPT ![r] = None]
    /\ UNCHANGED <<capacity, available, broadcast, permit, checked>>

(* The future is dropped before it ended (its caller goes away, or the      *)
(* upstream call panics): the permit and the receiver go with it, and no    *)
(* destructor touches the map.                                              *)
Drop(r) ==
    /\ CanCancel
    /\ ReleasePermit(r)
    /\ receiver' = [receiver EXCEPT ![r] = None]
    /\ UNCHANGED <<inFlight, capacity, broadcast, checked>>

DropBusy(r) == (permit[r] # None \/ receiver[r] # None) /\ Drop(r)

Next ==
    \E r \in Requests :
        \/ \E k \in Keys, n \in Limits : Check(r, k, n)
        \/ Resolve(r)
        \/ Cleanup(r)
        \/ Receive(r)
        \/ ReceiveError(r)
        \/ DropBusy(r)

Spec == Init /\ [][Next]_managerVars

-----------------------------------------------------------------------------
(* "Only one message is ever sent per channel" (concurrency.rs:24): no      *)
(* interleaving of holders of old and new generations sends two values on   *)
(* one channel, so a receiver can never lag.                                *)
OneMessagePerChannel == \A c \in Requests : Len(broadcast[c]) <= CHANNEL_CAPACITY

(* An entry that can still be found in the map has not been answered: a     *)
(* request that subscribes to it is never late for its message.             *)
LiveChannelIsEmpty ==
    \A k \in Keys : inFlight[k] # None => broadcast[inFlight[k]] = <<>>

(* Permits are neither lost nor duplicated by resolve, cleanup and dropped  *)
(* futures: each generation's semaphore plus the requests that hold one of  *)
(* its permits always add up to its capacity, even after the generation     *)
(* left the map.                                                            *)
PermitsConserved ==
    \A c \in Requests : available[c] + Cardinality(Holders(c)) = capacity[c]

(* Keys do not leak into each other: a channel, its waiters and holders,    *)
(* and the producers of what was sent on it belong to one key.              *)
OneKeyPerChannel ==
    /\ \A k \in Keys : inFlight[k] # None => checked[inFlight[k]] = k
    /\ \A r \in Requests :
        /\ permit[r]   # None => checked[permit[r]]   = checked[r]
        /\ receiver[r] # None => checked[receiver[r]] = checked[r]
    /\ \A c \in Requests : \A i \in 1..Len(broadcast[c]) :
            checked[broadcast[c][i]] = checked[c]

(* A request that subscribes to a channel gets one answer, in time and of   *)
(* its own key, whichever generations of the key overlap.                   *)
ChannelsAnswerOnce == OneMessagePerChannel /\ LiveChannelIsEmpty /\ OneKeyPerChannel

(* Unless futures are dropped, an entry of the map always has a permit      *)
(* holder that will remove it; so nobody waits on an entry without owner.   *)
NoOrphanEntry ==
    ~CanCancel => \A k \in Keys : inFlight[k] # None => Holders(inFlight[k]) # {}

(* An in-flight entry leaves the map before another generation takes its    *)
(* key: check() never replaces a live entry, whose waiters would be closed. *)
EntryNeverReplaced ==
    [][\A k \in Keys : inFlight[k] # None => inFlight'[k] \in {inFlight[k], None}]_managerVars
=============================================================================
