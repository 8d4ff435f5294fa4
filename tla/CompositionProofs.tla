-------------------------- MODULE CompositionProofs -------------------------
(***************************************************************************)
(* Proofs about Composition, for every set of clients, configurations and  *)
(* faults, every length of a second, and every bound.  Two invariants:     *)
(*   - IInv, the types and that every value anywhere came from a response  *)
(*     and expires no later than that one;                                 *)
(*   - JInv, on top of it, how far the writes under way have come and how  *)
(*     what they leave relates to what has been offered, set and read.     *)
(* A step is of one of few kinds (the section after JInv says which), and  *)
(* the parts of JInv are shown kind by kind.                               *)
(***************************************************************************)
EXTENDS Composition, SequenceTheorems, TLAPS

-----------------------------------------------------------------------------
(* Times and stores. *)
LEMMA Division ==
    ASSUME NEW a \in Nat, NEW s \in Nat \ {0}
    PROVE  /\ a \div s \in Nat
           /\ s * (a \div s) <= a
           /\ a < s * (a \div s) + s
  OBVIOUS

LEMMA TtlFact ==
    ASSUME NEW value \in CacheValues, NEW t \in Nat
    PROVE  /\ Ttl(value, t) \in Times
           /\ Ttl(value, t) # None =>
                  /\ value.expire \in Nat
                  /\ Ttl(value, t) \in Nat
                  /\ t + SECOND * Ttl(value, t) <= value.expire
                  /\ value.expire < t + SECOND * Ttl(value, t) + SECOND
<1>1. value.expire \in Nat \cup {None} /\ SECOND \in Nat \ {0} /\ None \notin Nat
  BY CacheValueAssumption DEF CacheValues, Times
<1>2. CASE Ttl(value, t) = None
  BY <1>2 DEF Times
<1>3. CASE Ttl(value, t) # None
  <2> DEFINE d == value.expire - t
  <2>1. value.expire \in Nat /\ d \in Nat /\ Ttl(value, t) = d \div SECOND
    BY <1>1, <1>3 DEF Ttl
  <2> HIDE DEF d
  <2>2. /\ d \div SECOND \in Nat
        /\ SECOND * (d \div SECOND) <= d
        /\ d < SECOND * (d \div SECOND) + SECOND
    BY <1>1, <2>1, Division
  <2> DEFINE p == SECOND * (d \div SECOND)
  <2>3. p \in Nat /\ p <= d /\ d < p + SECOND
    BY <1>1, <2>2
  <2> HIDE DEF p
  <2>4. t + p <= value.expire /\ value.expire < t + p + SECOND
    BY <1>1, <2>1, <2>3 DEF d
  <2>5. QED
    BY <1>1, <2>1, <2>2, <2>4 DEF p, Times
<1>4. QED
  BY <1>2, <1>3

(* A store that keeps a value for its ttl() drops it before it expires. *)
LEMMA WholeSecondsFact ==
    ASSUME NEW value \in CacheValues, NEW t \in Nat
    PROVE  /\ WholeSeconds(value, t) \in Times
           /\ Ttl(value, t) # None =>
                  /\ WholeSeconds(value, t) \in Nat
                  /\ value.expire \in Nat
                  /\ WholeSeconds(value, t) <= value.expire
<1>1. CASE Ttl(value, t) = None
  BY <1>1 DEF WholeSeconds, Times
<1>2. CASE Ttl(value, t) # None
  <2>1. /\ value.expire \in Nat /\ Ttl(value, t) \in Nat
        /\ t + SECOND * Ttl(value, t) <= value.expire
    BY <1>2, TtlFact
  <2>2. SECOND * Ttl(value, t) \in Nat
    BY <2>1, CacheValueAssumption
  <2>3. QED
    BY <1>2, <2>1, <2>2 DEF WholeSeconds, Times
<1>3. QED
  BY <1>1, <1>2

(* What a store reads back is the data it was given, and expires no later - *)
(* whatever the entry had been before, save for the writes that Immortal    *)
(* names.                                                                   *)
LEMMA WriteFact ==
    ASSUME NEW store \in Stores, NEW old \in Entries \cup {None},
           NEW value \in CacheValues, NEW t \in Nat
    PROVE  /\ Write(store, old, value, t) \in Entries \cup {None}
           /\ Write(store, old, value, t) # None =>
                  /\ Write(store, old, value, t).data = value.data
                  /\ \/ Immortal(store, value, t)
                     \/ value.expire = None
                     \/ /\ Write(store, old, value, t).expire \in Nat
                        /\ Write(store, old, value, t).expire <= value.expire
<1>1. /\ value.data \in Nat /\ value.expire \in Times /\ value.stale \in Times
  BY DEF CacheValues
<1>2. WholeSeconds(value, t) \in Times
  BY WholeSecondsFact
<1>3. CASE store = "Moka"
  <2>1. MokaWrite(value) \in Entries
    BY <1>1 DEF MokaWrite, Entries
  <2>2. Write(store, old, value, t) = KeptAt(MokaWrite(value), t)
    BY <1>3 DEF Write
  <2>3. QED
    BY <1>1, <2>1, <2>2 DEF KeptAt, MokaWrite, Times
<1>4. CASE store = "FeOxDb"
  <2>1. FeOxDbWrite(value, t) \in Entries
    BY <1>1, <1>2 DEF FeOxDbWrite, Entries
  <2>2. Write(store, old, value, t) = KeptAt(FeOxDbWrite(value, t), t)
    BY <1>4 DEF Write
  <2>3. QED
    BY <1>1, <2>1, <2>2 DEF KeptAt, FeOxDbWrite, Times
<1>5. CASE store = "Redis"
  <2> DEFINE w == RedisWrite(old, value, t)
  <2>1. OldField(old, "until") \in Times /\ OldField(old, "stale") \in Times
    BY DEF OldField, Entries, Times
  <2>2. w \in Entries
    BY <1>1, <1>2, <2>1 DEF RedisWrite, Entries
  <2>3. /\ w.data = value.data
        /\ Ttl(value, t) # None => w.expire = WholeSeconds(value, t)
    BY DEF RedisWrite
  <2>4. Write(store, old, value, t) = KeptAt(w, t)
    BY <1>5 DEF Write
  <2>5. Ttl(value, t) = None => value.expire = None \/ Immortal(store, value, t)
    BY <1>5 DEF Immortal
  <2> HIDE DEF w
  <2>6. QED
    BY <2>2, <2>3, <2>4, <2>5, WholeSecondsFact DEF KeptAt
<1>6. QED
  BY <1>3, <1>4, <1>5 DEF Stores

LEMMA ReadFact ==
    ASSUME NEW store \in Stores, NEW entry \in Entries \cup {None}, NEW t \in Nat
    PROVE  /\ Read(store, entry, t) \in CacheValues \cup {None}
           /\ Read(store, entry, t) # None =>
                  /\ entry # None
                  /\ Read(store, entry, t).data = entry.data
                  /\ Read(store, entry, t).expire = entry.expire
  BY DEF Read, Entries, CacheValues

LEMMA KeptAtFact ==
    ASSUME NEW entry, NEW t
    PROVE  KeptAt(entry, t) \in {entry, None}
  BY DEF KeptAt

-----------------------------------------------------------------------------
(* A value that came from a response of the upstream and expires no later   *)
(* than that response - unless Redis was given a value with less than a     *)
(* second to live, or a trait object dropped the times of one.              *)
Honest(value, offers, blame) ==
    /\ value.data \in 1..Len(offers)
    /\ \/ "immortal" \in blame \/ "untimed" \in blame
       \/ offers[value.data] = None
       \/ value.expire \in Nat /\ value.expire <= offers[value.data]

HonestOp(op, offers, blame) ==
    /\ op.value # None => Honest(op.value, offers, blame)
    /\ \A l \in Layers : op.read[l].status = "Hit" =>
           op.read[l].value # None /\ Honest(op.read[l].value, offers, blame)

(* Values are honest wherever they are: in a store, on their way from one,  *)
(* on their way to one, or on their way with nobody waiting for them.       *)
HonestEverywhere ==
    /\ \A l \in Layers : layers[l] # None => Honest(layers[l], offered, causes)
    /\ \A c \in Clients : HonestOp(ops[c], offered, causes)
    /\ \A w \in late : Honest(w.value, offered, causes)

(* The inductive invariant. *)
IInv == TypeOK /\ HonestEverywhere

OpOK(op) ==
    /\ op \in Operation
    /\ op.pc = "Idle" => op.write = Unwritten
    /\ op.pc # "Getting" => op.read = Unstarted
    /\ op.pc = "Setting" <=> op.value # None

Causes == {"fault", "overlap", "late", "evicted", "skipped", "untimed", "immortal"}

LEMMA ConfigOK == TypeOK => config \in CompositionConfig
  BY CompositionAssumption DEF TypeOK

(* A response that is offered, and a cause that is added, leave an honest   *)
(* value honest.                                                            *)
LEMMA HonestStays ==
    ASSUME NEW value, NEW offers \in Seq(Times), NEW blame, NEW blame2,
           NEW offers2 \in Seq(Times),
           offers2 = offers \/ (\E t \in Times : offers2 = Append(offers, t)),
           blame \subseteq blame2, Honest(value, offers, blame)
    PROVE  Honest(value, offers2, blame2)
<1>1. /\ value.data \in 1..Len(offers2)
      /\ offers2[value.data] = offers[value.data]
  BY DEF Honest
<1>2. QED
  BY <1>1 DEF Honest

(* What every step of a client, and every step of a store, has to show. *)
LEMMA StepIInv ==
    ASSUME IInv,
           UNCHANGED config,
           now' \in 0..MAX_TIME, calls' \in 0..MAX_CALLS, faults' \in 0..MAX_FAULTS,
           floor' \in 0..MAX_FETCHES + 1,
           offered' \in Seq(Times), Len(offered') <= MAX_FETCHES,
           offered' = offered \/ (\E t \in Times : offered' = Append(offered, t)),
           causes \subseteq causes', causes' \subseteq Causes,
           layers' \in [Layers -> Entries \cup {None}],
           \A l \in Layers : layers'[l] # None =>
               layers'[l] = layers[l] \/ Honest(layers'[l], offered', causes'),
           \/ UNCHANGED ops
           \/ \E c \in Clients, op \in Operation :
                  Put(c, op) /\ OpOK(op) /\ HonestOp(op, offered', causes'),
           \A w \in late' \ late :
               /\ w \in LateWrite /\ Honest(w.value, offered', causes')
               /\ w.offloaded => config.write = "RaceOffload"
    PROVE  IInv'
<1>1. offered \in Seq(Times) /\ TypeOK /\ HonestEverywhere
  BY DEF IInv, TypeOK
<1>2. \A value : Honest(value, offered, causes) => Honest(value, offered', causes')
  BY <1>1, HonestStays
<1>3. \A c \in Clients : OpOK(ops'[c]) /\ HonestOp(ops'[c], offered', causes')
  <2>1. \A c \in Clients : OpOK(ops[c]) /\ HonestOp(ops[c], offered', causes')
    BY <1>1, <1>2 DEF TypeOK, HonestEverywhere, OpOK, HonestOp
  <2>2. CASE UNCHANGED ops
    BY <2>1, <2>2
  <2>3. ASSUME NEW c \in Clients, NEW op \in Operation, Put(c, op),
               OpOK(op), HonestOp(op, offered', causes')
        PROVE  \A d \in Clients : OpOK(ops'[d]) /\ HonestOp(ops'[d], offered', causes')
    <3>1. \A d \in Clients : ops'[d] = IF d = c THEN op ELSE ops[d]
      BY <1>1, <2>3 DEF Put, TypeOK
    <3>2. QED
      BY <2>1, <2>3, <3>1
  <2>4. QED
    BY <2>2, <2>3
<1>4. ops' \in [Clients -> Operation]
  BY <1>1 DEF TypeOK, Put
<1>5. TypeOK'
  BY <1>1, <1>3, <1>4 DEF TypeOK, OpOK, Causes
<1>6. HonestEverywhere'
  BY <1>1, <1>2, <1>3 DEF HonestEverywhere
<1>7. QED
  BY <1>5, <1>6 DEF IInv

-----------------------------------------------------------------------------
Reads == [Layers -> [status : {"Unstarted", "Pending", "Hit", "Miss", "Error"},
                     value  : CacheValues \cup {None}]]

LEMMA StartFact ==
    /\ Unstarted \in Reads
    /\ Unwritten \in [Layers -> {"Unstarted", "Pending", "Ok", "Error"}]
    /\ StartRead \in Reads
    /\ \A l \in Layers : Unstarted[l].status # "Hit" /\ StartRead[l].status # "Hit"
  BY DEF Reads, Unstarted, Unwritten, StartRead

(* An operation without a value, that has found none yet. *)
LEMMA NoValueFact ==
    ASSUME NEW op, op.value = None, \A l \in Layers : op.read[l].status # "Hit"
    PROVE  \A offers, blame : HonestOp(op, offers, blame)
  BY DEF HonestOp

LEMMA IdleFact ==
    /\ Idle \in Operation /\ OpOK(Idle)
    /\ \A offers, blame : HonestOp(Idle, offers, blame)
    /\ \A offers, blame : HonestOp(Idle, offers, blame)
    /\ \A pc \in {"Idle", "Fetching"}, ctx \in {"Direct", "Refill"} :
           LET op == [Idle EXCEPT !.pc = pc, !.ctx = ctx]
           IN  /\ op \in Operation /\ OpOK(op)
               /\ \A offers, blame : HonestOp(op, offers, blame)
<1>1. Idle \in Operation /\ OpOK(Idle)
  BY StartFact DEF Idle, Operation, OpOK, Reads
<1>2. \A offers, blame : HonestOp(Idle, offers, blame)
  BY StartFact, NoValueFact DEF Idle
<1>3. ASSUME NEW pc \in {"Idle", "Fetching"}, NEW ctx \in {"Direct", "Refill"}
      PROVE  LET op == [Idle EXCEPT !.pc = pc, !.ctx = ctx]
             IN  /\ op \in Operation /\ OpOK(op)
                 /\ \A offers, blame : HonestOp(op, offers, blame)
  <2> DEFINE op == [Idle EXCEPT !.pc = pc, !.ctx = ctx]
  <2>1. op.value = None /\ op.read = Unstarted
    BY DEF Idle
  <2>2. op \in Operation /\ OpOK(op)
    BY StartFact DEF Idle, Operation, OpOK, Reads
  <2> HIDE DEF op
  <2>3. \A offers, blame : HonestOp(op, offers, blame)
    BY <2>1, StartFact, NoValueFact
  <2>4. QED
    BY <2>2, <2>3 DEF op
<1>4. QED
  BY <1>1, <1>2, <1>3

(* A step that only one client notices. *)
LEMMA ClientIInv ==
    ASSUME IInv, NEW c \in Clients, NEW op \in Operation, Put(c, op), OpOK(op),
           HonestOp(op, offered, causes'),
           UNCHANGED <<config, now, layers, late, offered>>,
           calls' \in 0..MAX_CALLS, faults' \in 0..MAX_FAULTS,
           floor' \in 0..MAX_FETCHES + 1,
           causes \subseteq causes', causes' \subseteq Causes
    PROVE  IInv'
<1>1. HonestOp(op, offered', causes')
  OBVIOUS
<1>2. QED
  BY <1>1, StepIInv DEF IInv, TypeOK

LEMMA StartGetIInv == ASSUME IInv, NEW c \in Clients, StartGet(c) PROVE IInv'
<1> DEFINE op == [Idle EXCEPT !.pc = "Getting", !.read = StartRead, !.floor = floor]
<1>1. op.value = None /\ op.read = StartRead
  BY DEF Idle
<1>2. op \in Operation /\ OpOK(op)
  <2>1. floor \in Nat
    BY CompositionAssumption DEF IInv, TypeOK
  <2>2. op \in Operation
    BY <2>1, StartFact DEF Idle, Operation, Reads
  <2>3. op.pc = "Getting" /\ op.value = None
    BY DEF Idle
  <2> HIDE DEF op
  <2>4. QED
    BY <2>2, <2>3 DEF OpOK
<1>3. calls' \in 0..MAX_CALLS
  BY CompositionAssumption DEF StartGet, IInv, TypeOK
<1>4. Put(c, op)
  BY DEF StartGet
<1> HIDE DEF op
<1>5. HonestOp(op, offered, causes)
  BY <1>1, StartFact, NoValueFact
<1>6. QED
  BY <1>2, <1>3, <1>4, <1>5, ClientIInv DEF StartGet, IInv, TypeOK, Causes

LEMMA ReadResultIInv ==
    ASSUME IInv, NEW c \in Clients, NEW l \in Layers,
           NEW status \in {"Hit", "Miss", "Error"}, NEW value \in CacheValues \cup {None},
           status = "Hit" => value # None /\ Honest(value, offered, causes),
           ReadResult(c, l, status, value), UNCHANGED causes, faults' \in 0..MAX_FAULTS
    PROVE  IInv'
<1> DEFINE read == [ops[c].read EXCEPT ![l] = [status |-> status, value |-> value]]
           op == [ops[c] EXCEPT !.read = ReadNext(read)]
<1>1. /\ ops[c] \in Operation /\ OpOK(ops[c]) /\ HonestOp(ops[c], offered, causes)
      /\ ops[c].read[l].status = "Pending"
  BY DEF IInv, TypeOK, OpOK, HonestEverywhere, ReadResult
<1>2. ops[c].pc = "Getting"
  BY <1>1 DEF OpOK, Unstarted, Operation
<1>3. /\ read \in Reads
      /\ \A k \in Layers : read[k].status = "Hit" =>
             read[k].value # None /\ Honest(read[k].value, offered, causes)
  BY <1>1 DEF Operation, HonestOp, Reads
<1>4. /\ ReadNext(read) \in Reads
      /\ \A k \in Layers : ReadNext(read)[k].status = "Hit" => ReadNext(read)[k] = read[k]
  <2> HIDE DEF read
  <2>1. QED
    BY <1>3 DEF ReadNext, Layers, Reads
<1>5. op \in Operation /\ OpOK(op)
  <2> HIDE DEF read
  <2>1. QED
    BY <1>1, <1>2, <1>4 DEF Operation, OpOK, Reads
<1>6. HonestOp(op, offered, causes)
  <2> HIDE DEF read
  <2>1. op.read = ReadNext(read) /\ op.value = ops[c].value
    BY <1>1 DEF Operation
  <2>2. QED
    BY <1>1, <1>3, <1>4, <2>1 DEF HonestOp
<1>7. Put(c, op)
  BY DEF ReadResult
<1> HIDE DEF op
<1>8. QED
  BY <1>5, <1>6, <1>7, ClientIInv DEF ReadResult, IInv, TypeOK, Causes

LEMMA ReadLayerIInv ==
    ASSUME IInv, NEW c \in Clients, NEW l \in Layers, ReadLayer(c, l)
    PROVE  IInv'
<1> DEFINE found == Read(config.store[l], layers[l], now)
<1>1. config.store[l] \in Stores /\ layers[l] \in Entries \cup {None} /\ now \in Nat
  BY ConfigOK, CompositionAssumption DEF IInv, TypeOK, CompositionConfig
<1>2. /\ found \in CacheValues \cup {None}
      /\ found # None => /\ layers[l] # None
                         /\ found.data = layers[l].data /\ found.expire = layers[l].expire
  BY <1>1, ReadFact
<1>3. found # None => Honest(found, offered, causes)
  BY <1>2 DEF IInv, HonestEverywhere, Honest
<1>4. /\ ReadResult(c, l, IF found = None THEN "Miss" ELSE "Hit", found)
      /\ UNCHANGED <<faults, causes>>
  BY DEF ReadLayer
<1> HIDE DEF found
<1>5. QED
  BY <1>2, <1>3, <1>4, ReadResultIInv DEF IInv, TypeOK

LEMMA ReadFailsIInv ==
    ASSUME IInv, NEW c \in Clients, NEW l \in Layers, ReadFails(c, l)
    PROVE  IInv'
<1>1. faults' \in 0..MAX_FAULTS
  BY CompositionAssumption DEF ReadFails, Fault, IInv, TypeOK
<1>2. QED
  BY <1>1, ReadResultIInv DEF ReadFails

LEMMA GoOnIInv ==
    ASSUME IInv, NEW c \in Clients, NEW pc \in {"Idle", "Fetching"},
           NEW ctx \in {"Direct", "Refill"}, GoOn(c, pc, ctx)
    PROVE  IInv'
<1> DEFINE op == [Idle EXCEPT !.pc = pc, !.ctx = ctx]
<1>1. op \in Operation /\ OpOK(op) /\ HonestOp(op, offered, causes)
  BY IdleFact
<1>2. Put(c, op)
  BY DEF GoOn
<1> HIDE DEF op
<1>3. QED
  BY <1>1, <1>2, ClientIInv DEF GoOn, IInv, TypeOK, Causes

-----------------------------------------------------------------------------
(* set() begins with an honest value. *)
LEMMA StartSetIInv ==
    ASSUME IInv, NEW c \in Clients, NEW value \in CacheValues,
           NEW ctx \in {"Direct", "Refill"}, NEW isRefill \in BOOLEAN,
           StartSet(c, value, ctx, isRefill),
           UNCHANGED <<config, now, layers, late, calls, faults, floor>>,
           offered' \in Seq(Times), Len(offered') <= MAX_FETCHES,
           offered' = offered \/ (\E t \in Times : offered' = Append(offered, t)),
           Honest(value, offered', causes)
    PROVE  IInv'
<1> DEFINE op == [Idle EXCEPT !.pc = "Setting", !.ctx = ctx, !.value = Enveloped(value),
                              !.write = StartWrite(ctx)]
<1>0. Enveloped(value) \in CacheValues /\ Enveloped(value).data = value.data
  BY DEF Enveloped, CacheValues, Times
<1>1. op \in Operation /\ OpOK(op)
  BY <1>0, CacheValueAssumption
  DEF Idle, StartWrite, Operation, OpOK, Unstarted, Unwritten
<1>2. causes \subseteq causes' /\ causes' \subseteq Causes
  BY DEF StartSet, Blame, IInv, TypeOK, Causes
<1>3. Honest(Enveloped(value), offered', causes')
  <2>1. Enveloped(value) = value \/ "untimed" \in causes'
    BY DEF StartSet, Blame
  <2>2. QED
    BY <1>0, <1>2, <2>1 DEF Honest
<1>4. op.value = Enveloped(value) /\ op.read = Unstarted
  BY DEF Idle
<1>5. HonestOp(op, offered', causes')
  <2> HIDE DEF op
  <2>1. QED
    BY <1>3, <1>4 DEF HonestOp, Unstarted
<1>6. Put(c, op)
  BY DEF StartSet
<1> HIDE DEF op
<1>7. QED
  BY <1>1, <1>2, <1>5, <1>6, StepIInv DEF IInv, TypeOK

(* The value a get returns is one of those that were found. *)
LEMMA FoundFact ==
    ASSUME IInv, NEW c \in Clients, Found(c) # None
    PROVE  Found(c) \in CacheValues /\ Honest(Found(c), offered, causes)
<1>1. ReadSource(ops[c].read) \in Hits(ops[c].read)
  BY DEF Found, ReadSource, Prefer, Hits, Layers
<1>2. PICK l \in Layers : ops[c].read[l].status = "Hit" /\ Found(c) = ops[c].read[l].value
  BY <1>1 DEF Found, Hits
<1>3. ops[c].read[l].value \in CacheValues \cup {None}
  BY DEF IInv, TypeOK, Operation
<1>4. QED
  BY <1>2, <1>3, SMTT(30) DEF IInv, HonestEverywhere, HonestOp

LEMMA GetReturnsIInv ==
    ASSUME IInv, NEW c \in Clients, GetReturns(c)
    PROVE  IInv'
<1>1. CtxAfterGet(ops[c].read) \in {"Direct", "Refill"}
  BY DEF CtxAfterGet
<1>2. CASE ServeActual(c) \/ ServeStale(c)
  BY <1>2, GoOnIInv DEF ServeActual, ServeStale
<1>3. CASE RevalidateStale(c) \/ OffloadStale(c) \/ Miss(c)
  BY <1>1, <1>3, GoOnIInv DEF RevalidateStale, OffloadStale, Miss
<1>4. CASE RefillActual(c)
  <2>1. Found(c) # None
    BY <1>4 DEF RefillActual, FoundIn, FoundState
  <2>2. Found(c) \in CacheValues /\ Honest(Found(c), offered, causes)
    BY <2>1, FoundFact
  <2>3. StartSet(c, Found(c), "Refill", TRUE)
    BY <1>4 DEF RefillActual
  <2>4. QED
    BY <1>4, <2>2, <2>3, StartSetIInv DEF RefillActual, IInv, TypeOK
<1>5. QED
  BY <1>2, <1>3, <1>4 DEF GetReturns

LEMMA FetchIInv ==
    ASSUME IInv, NEW c \in Clients, FetchCacheable(c) \/ FetchNonCacheable(c)
    PROVE  IInv'
<1>1. CASE FetchNonCacheable(c)
  BY <1>1, GoOnIInv DEF FetchNonCacheable
<1>2. CASE FetchCacheable(c)
  <2> DEFINE data == Len(offered) + 1
             fresh == FreshValue(data, config, now)
  <2>1. /\ offered \in Seq(Times) /\ now \in Nat /\ data \in Nat
        /\ config.ttl \in Times /\ config.stale_ttl \in Times
        /\ ops[c].ctx \in {"Direct", "Refill"}
    BY ConfigOK, CompositionAssumption DEF IInv, TypeOK, CompositionConfig, Operation
  <2>2. fresh \in CacheValues /\ fresh.data = data /\ fresh.expire \in Times
    BY <2>1 DEF FreshValue, After, CacheValues, Times
  <2>3. /\ data <= MAX_FETCHES /\ offered' = Append(offered, fresh.expire)
        /\ StartSet(c, fresh, ops[c].ctx, FALSE)
        /\ UNCHANGED <<config, now, layers, late, calls, faults, floor>>
    BY <1>2 DEF FetchCacheable
  <2> HIDE DEF fresh
  <2>4. /\ offered' \in Seq(Times) /\ Len(offered') = data
        /\ offered'[data] = fresh.expire
    BY <2>1, <2>2, <2>3
  <2>5. Honest(fresh, offered', causes)
    BY <2>1, <2>2, <2>4 DEF Honest, Times
  <2>6. QED
    BY <2>1, <2>2, <2>3, <2>4, <2>5, StartSetIInv
<1>3. QED
  BY <1>1, <1>2

-----------------------------------------------------------------------------
LEMMA ApplyFact ==
    ASSUME IInv, NEW l \in Layers, NEW value \in CacheValues,
           Honest(value, offered, causes),
           NEW blame \in SUBSET Causes, Apply(l, value, blame)
    PROVE  /\ layers' \in [Layers -> Entries \cup {None}]
           /\ causes \subseteq causes' /\ causes' \subseteq Causes
           /\ \A k \in Layers : layers'[k] # None =>
                  layers'[k] = layers[k] \/ Honest(layers'[k], offered, causes')
<1>1. config.store[l] \in Stores /\ layers[l] \in Entries \cup {None} /\ now \in Nat
  BY ConfigOK, CompositionAssumption DEF IInv, TypeOK, CompositionConfig
<1>2. /\ Stored(l, value) \in Entries \cup {None}
      /\ Stored(l, value) # None =>
             /\ Stored(l, value).data = value.data
             /\ \/ Immortal(config.store[l], value, now)
                \/ value.expire = None
                \/ /\ Stored(l, value).expire \in Nat
                   /\ Stored(l, value).expire <= value.expire
  BY <1>1, WriteFact DEF Stored
<1>3. /\ layers' = [layers EXCEPT ![l] = Stored(l, value)]
      /\ causes \subseteq causes' /\ causes' \subseteq Causes
      /\ Immortal(config.store[l], value, now) => "immortal" \in causes'
  BY DEF Apply, Blame, IInv, TypeOK, Causes
<1>4. layers' \in [Layers -> Entries \cup {None}]
  BY <1>2, <1>3 DEF IInv, TypeOK
<1>5. Stored(l, value) # None => Honest(Stored(l, value), offered, causes')
  <2> SUFFICES ASSUME Stored(l, value) # None,
                      "immortal" \notin causes', "untimed" \notin causes',
                      offered[value.data] # None
               PROVE  /\ Stored(l, value).expire \in Nat
                      /\ Stored(l, value).expire <= offered[value.data]
    BY <1>2 DEF Honest
  <2>1. value.expire \in Nat /\ value.expire <= offered[value.data]
    BY <1>3 DEF Honest
  <2>2. value.expire # None
    BY <2>1, CacheValueAssumption
  <2>3. offered[value.data] \in Nat
    BY DEF Honest, IInv, TypeOK, Times
  <2> DEFINE e == Stored(l, value).expire
  <2>4. e \in Nat /\ e <= value.expire
    BY <1>2, <1>3, <2>2
  <2> HIDE DEF e
  <2>5. e <= offered[value.data]
    BY <2>1, <2>3, <2>4
  <2>6. QED
    BY <2>4, <2>5 DEF e
<1>6. \A k \in Layers : layers'[k] = IF k = l THEN Stored(l, value) ELSE layers[k]
  BY <1>3 DEF IInv, TypeOK
<1>7. QED
  BY <1>3, <1>4, <1>5, <1>6

(* A layer's answer to a write or a remove changes the layer, or does not. *)
LEMMA WriteResultIInv ==
    ASSUME IInv, NEW c \in Clients, NEW l \in Layers, NEW status \in {"Ok", "Error"},
           WriteResult(c, l, status), faults' \in 0..MAX_FAULTS,
           causes \subseteq causes', causes' \subseteq Causes,
           layers' \in [Layers -> Entries \cup {None}],
           \A k \in Layers : layers'[k] # None =>
               layers'[k] = layers[k] \/ Honest(layers'[k], offered, causes')
    PROVE  IInv'
<1> DEFINE write == [ops[c].write EXCEPT ![l] = status]
           op == [ops[c] EXCEPT !.write = WriteNext(ops[c], write)]
<1>1. /\ ops[c] \in Operation /\ OpOK(ops[c]) /\ HonestOp(ops[c], offered, causes)
      /\ ops[c].write[l] = "Pending"
  BY DEF IInv, TypeOK, OpOK, HonestEverywhere, WriteResult
<1>2. ops[c].pc # "Idle"
  BY <1>1 DEF OpOK, Unwritten
<1>3. write \in [Layers -> {"Unstarted", "Pending", "Ok", "Error"}]
  BY <1>1 DEF Operation
<1>4. WriteNext(ops[c], write) \in [Layers -> {"Unstarted", "Pending", "Ok", "Error"}]
  <2> HIDE DEF write
  <2>1. QED
    BY <1>3 DEF WriteNext
<1>5. op \in Operation /\ OpOK(op) /\ op.read = ops[c].read /\ op.value = ops[c].value
  <2> HIDE DEF write
  <2>1. QED
    BY <1>1, <1>2, <1>4 DEF Operation, OpOK
<1>6. Put(c, op)
  BY DEF WriteResult
<1> HIDE DEF op
<1>7. HonestOp(op, offered, causes')
  BY <1>1, <1>5 DEF HonestOp, Honest
<1>8. HonestOp(op, offered', causes') /\ UNCHANGED <<config, now, late, offered, calls, floor>>
  BY <1>7 DEF WriteResult
<1>9. QED
  BY <1>5, <1>6, <1>8, StepIInv DEF IInv, TypeOK

LEMMA WriteStepsIInv ==
    ASSUME IInv, NEW c \in Clients, NEW l \in Layers,
           WriteLayer(c, l) \/ RemoveLayer(c, l) \/ WriteFails(c, l)
    PROVE  IInv'
<1>1. ASSUME ops[c].pc = "Setting"
      PROVE  ops[c].value \in CacheValues /\ Honest(ops[c].value, offered, causes)
  BY <1>1 DEF IInv, TypeOK, Operation, HonestEverywhere, HonestOp
<1>2. causes \subseteq Causes
  BY DEF IInv, TypeOK, Causes
<1>3. CASE WriteLayer(c, l)
  <2>1. Apply(l, ops[c].value, {}) /\ WriteResult(c, l, "Ok") /\ ops[c].pc = "Setting"
    BY <1>3 DEF WriteLayer
  <2>2. /\ layers' \in [Layers -> Entries \cup {None}]
        /\ causes \subseteq causes' /\ causes' \subseteq Causes
        /\ \A k \in Layers : layers'[k] # None =>
               layers'[k] = layers[k] \/ Honest(layers'[k], offered, causes')
    BY <1>1, <2>1, ApplyFact
  <2>3. faults' \in 0..MAX_FAULTS
    BY <1>3 DEF WriteLayer, IInv, TypeOK
  <2>4. QED
    BY <2>1, <2>2, <2>3, WriteResultIInv
<1>4. CASE RemoveLayer(c, l)
  <2>1. /\ layers' \in [Layers -> Entries \cup {None}]
        /\ \A k \in Layers : layers'[k] # None => layers'[k] = layers[k]
    BY <1>4 DEF RemoveLayer, IInv, TypeOK
  <2>2. faults' \in 0..MAX_FAULTS
    BY <1>4 DEF RemoveLayer, IInv, TypeOK
  <2>3. causes' = causes /\ WriteResult(c, l, "Ok")
    BY <1>4 DEF RemoveLayer
  <2>4. QED
    BY <1>2, <2>1, <2>2, <2>3, WriteResultIInv
<1>5. CASE WriteFails(c, l)
  <2>1. faults' \in 0..MAX_FAULTS
    BY <1>5, CompositionAssumption DEF WriteFails, Fault, IInv, TypeOK
  <2>2. WriteResult(c, l, "Error")
    BY <1>5 DEF WriteFails
  <2>3. CASE UNCHANGED layers /\ Blame({"fault"})
    <3>1. causes \subseteq causes' /\ causes' \subseteq Causes
      BY <1>2, <2>3 DEF Blame, Causes
    <3>2. layers' \in [Layers -> Entries \cup {None}]
      BY <2>3 DEF IInv, TypeOK
    <3>3. QED
      BY <2>1, <2>2, <2>3, <3>1, <3>2, WriteResultIInv
  <2>4. CASE ops[c].pc = "Setting" /\ Apply(l, ops[c].value, {"fault"})
    <3>1. /\ layers' \in [Layers -> Entries \cup {None}]
          /\ causes \subseteq causes' /\ causes' \subseteq Causes
          /\ \A k \in Layers : layers'[k] # None =>
                 layers'[k] = layers[k] \/ Honest(layers'[k], offered, causes')
      BY <1>1, <2>4, ApplyFact DEF Causes
    <3>2. QED
      BY <2>1, <2>2, <3>1, WriteResultIInv
  <2>5. QED
    BY <1>5, <2>3, <2>4 DEF WriteFails
<1>6. QED
  BY <1>3, <1>4, <1>5

-----------------------------------------------------------------------------
LEMMA LeftFact ==
    ASSUME IInv, NEW c \in Clients, NEW offloaded \in BOOLEAN
    PROVE  \A w \in Left(c, offloaded) :
               /\ w \in LateWrite /\ w.offloaded = offloaded
               /\ Honest(w.value, offered, causes)
<1>1. ops[c].pc = "Setting" =>
          ops[c].value \in CacheValues /\ Honest(ops[c].value, offered, causes)
  BY DEF IInv, TypeOK, Operation, HonestEverywhere, HonestOp
<1>2. QED
  BY <1>1 DEF Left, LateWrite

(* A client leaves, and its writes go on without it. *)
LEMMA LeaveIInv ==
    ASSUME IInv, NEW c \in Clients, NEW offloaded \in BOOLEAN,
           offloaded => config.write = "RaceOffload",
           late' = late \cup Left(c, offloaded), Done(c),
           causes \subseteq causes', causes' \subseteq Causes,
           faults' \in 0..MAX_FAULTS, floor' \in 0..MAX_FETCHES + 1,
           UNCHANGED <<config, now, layers, offered, calls>>
    PROVE  IInv'
<1>1. \A w \in late' \ late :
          /\ w \in LateWrite /\ Honest(w.value, offered', causes')
          /\ w.offloaded => config.write = "RaceOffload"
  BY LeftFact DEF Honest
<1>2. Put(c, Idle)
  BY DEF Done
<1>3. QED
  BY <1>1, <1>2, IdleFact, StepIInv DEF IInv, TypeOK

LEMMA SetReturnsIInv == ASSUME IInv, NEW c \in Clients, SetReturns(c) PROVE IInv'
<1>1. /\ late' = late \cup Left(c, config.write = "RaceOffload")
      /\ Done(c) /\ faults' \in 0..MAX_FAULTS
      /\ UNCHANGED <<config, now, layers, offered, calls>>
  BY DEF SetReturns, IInv, TypeOK
<1>2. causes \subseteq causes' /\ causes' \subseteq Causes
  BY DEF SetReturns, Blame, IInv, TypeOK, Causes
<1>3. floor' \in 0..MAX_FETCHES + 1
  <2>1. ops[c].value.data \in 1..Len(offered)
    BY DEF SetReturns, IInv, TypeOK, Operation, HonestEverywhere, HonestOp, Honest
  <2>2. Len(offered) \in Nat /\ Len(offered) <= MAX_FETCHES /\ MAX_FETCHES \in Nat
    BY CompositionAssumption DEF IInv, TypeOK
  <2>3. floor' = ops[c].value.data \/ floor' = floor
    BY DEF SetReturns
  <2>4. QED
    BY <2>1, <2>2, <2>3 DEF IInv, TypeOK
<1>4. QED
  BY <1>1, <1>2, <1>3, LeaveIInv

LEMMA DropIInv == ASSUME IInv, NEW c \in Clients, Drop(c) PROVE IInv'
<1>1. faults' \in 0..MAX_FAULTS
  BY CompositionAssumption DEF Drop, Fault, IInv, TypeOK
<1>2. causes \subseteq causes' /\ causes' \subseteq Causes
  BY DEF Drop, Blame, IInv, TypeOK, Causes
<1>3. QED
  BY <1>1, <1>2, LeaveIInv DEF Drop, IInv, TypeOK

LEMMA DeleteIInv ==
    ASSUME IInv, NEW c \in Clients, StartDelete(c) \/ DeleteReturns(c)
    PROVE  IInv'
<1>1. CASE StartDelete(c)
  <2> DEFINE op == [Idle EXCEPT !.pc = "Deleting", !.write = [l \in Layers |-> "Pending"]]
  <2>1. op.value = None /\ op.read = Unstarted
    BY DEF Idle
  <2>2. op \in Operation /\ OpOK(op)
    BY StartFact DEF Idle, Operation, OpOK, Reads
  <2>3. Put(c, op)
    BY <1>1 DEF StartDelete
  <2> HIDE DEF op
  <2>4. HonestOp(op, offered, causes')
    BY <2>1, StartFact, NoValueFact
  <2>5. causes \subseteq causes' /\ causes' \subseteq Causes
    BY <1>1 DEF StartDelete, Blame, IInv, TypeOK, Causes
  <2>6. calls' \in 0..MAX_CALLS
    BY <1>1, CompositionAssumption DEF StartDelete, IInv, TypeOK
  <2>7. QED
    BY <1>1, <2>2, <2>3, <2>4, <2>5, <2>6, ClientIInv DEF StartDelete, IInv, TypeOK
<1>2. CASE DeleteReturns(c)
  <2>1. Len(offered) \in Nat /\ Len(offered) <= MAX_FETCHES /\ MAX_FETCHES \in Nat
    BY CompositionAssumption DEF IInv, TypeOK
  <2>2. floor' \in 0..MAX_FETCHES + 1
    BY <1>2, <2>1 DEF DeleteReturns, IInv, TypeOK
  <2>3. Put(c, Idle)
    BY <1>2 DEF DeleteReturns, Done
  <2>4. QED
    BY <1>2, <2>2, <2>3, IdleFact, ClientIInv DEF DeleteReturns, IInv, TypeOK, Causes
<1>3. QED
  BY <1>1, <1>2

-----------------------------------------------------------------------------
LEMMA LateStepIInv == ASSUME IInv, LateStep PROVE IInv'
<1>1. ASSUME NEW w \in late, LateWriteLands(w)
      PROVE  IInv'
  <2>1. /\ w.layer \in Layers /\ w.value \in CacheValues
        /\ Honest(w.value, offered, causes)
    BY DEF IInv, TypeOK, LateWrite, HonestEverywhere
  <2>2. /\ layers' \in [Layers -> Entries \cup {None}]
        /\ causes \subseteq causes' /\ causes' \subseteq Causes
        /\ \A k \in Layers : layers'[k] # None =>
               layers'[k] = layers[k] \/ Honest(layers'[k], offered, causes')
    BY <1>1, <2>1, ApplyFact DEF LateWriteLands
  <2>3. /\ UNCHANGED <<config, now, ops, offered, calls, faults, floor>>
        /\ late' \ late = {}
    BY <1>1 DEF LateWriteLands
  <2>4. QED
    BY <2>2, <2>3, StepIInv DEF IInv, TypeOK
<1>2. ASSUME NEW w \in late, LateWriteLost(w)
      PROVE  IInv'
  <2>1. faults' \in 0..MAX_FAULTS
    BY <1>2, CompositionAssumption DEF LateWriteLost, Fault, IInv, TypeOK
  <2>2. causes \subseteq causes' /\ causes' \subseteq Causes
    BY <1>2 DEF LateWriteLost, Blame, IInv, TypeOK, Causes
  <2>3. /\ UNCHANGED <<config, now, layers, ops, offered, calls, floor>>
        /\ late' \ late = {}
    BY <1>2 DEF LateWriteLost
  <2>4. QED
    BY <2>1, <2>2, <2>3, StepIInv DEF IInv, TypeOK
<1>3. QED
  BY <1>1, <1>2 DEF LateStep

LEMMA TickIInv == ASSUME IInv, Tick PROVE IInv'
<1>1. now' \in 0..MAX_TIME
  BY CompositionAssumption DEF Tick, IInv, TypeOK
<1>2. \A l \in Layers : layers'[l] \in {layers[l], None}
  BY KeptAtFact DEF Tick
<1>3. layers' \in [Layers -> Entries \cup {None}]
  BY <1>2 DEF Tick, IInv, TypeOK
<1>4. QED
  BY <1>1, <1>2, <1>3, StepIInv DEF Tick, IInv, TypeOK, Causes

LEMMA EvictIInv == ASSUME IInv, NEW l \in Layers, Evict(l) PROVE IInv'
<1>1. faults' \in 0..MAX_FAULTS
  BY CompositionAssumption DEF Evict, Fault, IInv, TypeOK
<1>2. causes \subseteq causes' /\ causes' \subseteq Causes
  BY DEF Evict, Blame, IInv, TypeOK, Causes
<1>3. /\ layers' \in [Layers -> Entries \cup {None}]
      /\ \A k \in Layers : layers'[k] # None => layers'[k] = layers[k]
  BY DEF Evict, IInv, TypeOK
<1>4. QED
  BY <1>1, <1>2, <1>3, StepIInv DEF Evict, IInv, TypeOK

-----------------------------------------------------------------------------
LEMMA InitIInv == Init => IInv
<1> SUFFICES ASSUME Init
             PROVE  IInv
  OBVIOUS
<1>1. \A c \in Clients : OpOK(ops[c]) /\ HonestOp(ops[c], offered, causes)
  BY IdleFact DEF Init
<1>2. ops \in [Clients -> Operation]
  BY IdleFact DEF Init
<1>3. TypeOK
  BY <1>1, <1>2, CompositionAssumption DEF Init, TypeOK, OpOK
<1>4. QED
  BY <1>1, <1>3 DEF Init, IInv, HonestEverywhere

LEMMA NextIInv == IInv /\ [Next]_vars => IInv'
<1> SUFFICES ASSUME IInv, [Next]_vars
             PROVE  IInv'
  OBVIOUS
<1>1. ASSUME NEW c \in Clients, StartGet(c) \/ StartDelete(c) \/ Drop(c)
      PROVE  IInv'
  BY <1>1, StartGetIInv, DeleteIInv, DropIInv
<1>2. ASSUME NEW c \in Clients, NEW l \in Layers, LayerStep(c, l)
      PROVE  IInv'
  BY <1>2, ReadLayerIInv, ReadFailsIInv, WriteStepsIInv DEF LayerStep
<1>3. ASSUME NEW c \in Clients, ClientStep(c)
      PROVE  IInv'
  BY <1>2, <1>3, GetReturnsIInv, FetchIInv, SetReturnsIInv, DeleteIInv DEF ClientStep
<1>4. CASE LateStep
  BY <1>4, LateStepIInv
<1>5. CASE Tick
  BY <1>5, TickIInv
<1>6. CASE \E l \in Layers : Evict(l)
  BY <1>6, EvictIInv
<1>7. CASE UNCHANGED vars
  BY <1>7 DEF vars, IInv, TypeOK, HonestEverywhere
<1>8. QED
  BY <1>1, <1>3, <1>4, <1>5, <1>6, <1>7 DEF Next

(* Under every policy and any interleaving, the state keeps its types, idle *)
(* clients have nothing left over, and only an offloading race has writes   *)
(* that are bound to be tried in the background.                            *)
THEOREM TypeCorrect == Spec => []TypeOK
<1>1. Spec => []IInv
  BY InitIInv, NextIInv, PTL DEF Spec
<1>2. QED
  BY <1>1, PTL DEF IInv

-----------------------------------------------------------------------------
(* An honest value that is looked at and not found expired has not expired. *)
LEMMA AnswerFact ==
    ASSUME IInv, NEW c \in Clients, Answers(c),
           "immortal" \notin causes, "untimed" \notin causes
    PROVE  ~Passed(offered[Found(c).data], now)
<1>1. FoundState(c) \in {"Actual", "Stale"}
  BY DEF Answers, ServeActual, RefillActual, ServeStale, OffloadStale, FoundIn
<1>2. Found(c) # None /\ CacheState(Found(c), now) # "Expired"
  BY <1>1 DEF FoundState
<1>3. Honest(Found(c), offered, causes) /\ Found(c) \in CacheValues
  BY <1>2, FoundFact
<1>4. ~Passed(Found(c).expire, now)
  BY <1>2 DEF CacheState
<1>5. offered[Found(c).data] \in Times /\ now \in Nat
  BY <1>3, CompositionAssumption DEF Honest, IInv, TypeOK
<1>6. QED
  BY <1>3, <1>4, <1>5, CacheValueAssumption DEF Honest, Passed, Times

(* No cache of two layers answers with a response that has expired, however *)
(* the response got into the layer it was found in: with a set, a refill, a *)
(* background write, over an older value, after evictions and failures.     *)
THEOREM NothingExpiredIsServed == Spec => NeverServedExpired
<1>1. IInv => AnswersInTimeUnless({"immortal", "untimed"})
  BY AnswerFact DEF AnswersInTimeUnless, Excused
<1>2. Spec => []IInv
  BY InitIInv, NextIInv, PTL DEF Spec
<1>3. QED
  BY <1>1, <1>2, PTL DEF NeverServedExpired

-----------------------------------------------------------------------------
(* Rounding to seconds loses less than a second.                            *)
LEMMA PreferFact ==
    ASSUME NEW t \in Nat, NEW v \in CacheValues, NEW w \in CacheValues,
           Ttl(v, t) # None, Ttl(w, t) # None, Ttl(w, t) <= Ttl(v, t)
    PROVE  w.expire < v.expire + SECOND
<1>1. /\ Ttl(v, t) \in Nat /\ Ttl(w, t) \in Nat /\ SECOND \in Nat
      /\ v.expire \in Nat /\ w.expire \in Nat
      /\ t + SECOND * Ttl(v, t) <= v.expire
      /\ w.expire < t + SECOND * Ttl(w, t) + SECOND
  BY TtlFact, CacheValueAssumption
<1>2. SECOND * Ttl(w, t) <= SECOND * Ttl(v, t)
  BY <1>1
<1> DEFINE p == SECOND * Ttl(w, t)
           q == SECOND * Ttl(v, t)
<1>3. p \in Nat /\ q \in Nat /\ p <= q /\ t + q <= v.expire /\ w.expire < t + p + SECOND
  BY <1>1, <1>2
<1> HIDE DEF p, q
<1>4. QED
  BY <1>1, <1>3

(* A parallel read that hits in both layers prefers the value that lives    *)
(* longer, to within a second.                                              *)
THEOREM ParallelPrefersLonger == Spec => []ParallelServesFreshest
<1>1. IInv => ParallelServesFreshest
  <2> SUFFICES ASSUME IInv, config.read = "Parallel", NEW c \in Clients,
                      Got(c), Hits(ops[c].read) = Layers,
                      NEW v, v = Found(c),
                      NEW w, w = ops[c].read[Other(ReadSource(ops[c].read))].value,
                      Ttl(v, now) # None, Ttl(w, now) # None
               PROVE  w.expire < v.expire + SECOND
    BY DEF ParallelServesFreshest
  <2> DEFINE v1 == ops[c].read[L1].value
             v2 == ops[c].read[L2].value
             preferred == Prefer(v1, v2)
  <2>1. ReadSource(ops[c].read) = preferred /\ preferred \in Layers
    BY DEF ReadSource, Prefer, Layers, L1, L2
  <2>2. v1 \in CacheValues /\ v2 \in CacheValues
    BY DEF IInv, TypeOK, HonestEverywhere, HonestOp, Operation, Hits, Layers
  <2>3. now \in Nat
    BY CompositionAssumption DEF IInv, TypeOK
  <2>4. preferred # None
    BY <2>1, CompositionAssumption
  <2>5. QED
    BY <2>1, <2>2, <2>3, <2>4, PreferFact, TtlFact
    DEF Found, Other, Prefer, Layers, L1, L2
<1>2. Spec => []IInv
  BY InitIInv, NextIInv, PTL DEF Spec
<1>3. QED
  BY <1>1, <1>2, PTL

-----------------------------------------------------------------------------
(* How far a write can be: an untouched layer is none of its targets, or    *)
(* the second of a sequential set whose first is not written; and only a    *)
(* fault makes a layer fail.                                                *)
WriteShape(op, blame) ==
    /\ op.pc = "Setting" =>
           \A l \in Layers : op.write[l] = "Unstarted" <=>
               \/ l \notin Targets(op.ctx)
               \/ /\ config.write = "Sequential" /\ op.ctx = "Direct"
                  /\ l = L2 /\ op.write[L1] # "Ok"
    /\ op.pc = "Deleting" => \A l \in Layers : op.write[l] # "Unstarted"
    /\ op.pc \notin {"Setting", "Deleting"} => op.write = Unwritten
    /\ "fault" \notin blame => \A l \in Layers : op.write[l] # "Error"

Shapes == \A c \in Clients : WriteShape(ops[c], causes)

(* The floor never falls, and is at most ahead of the responses by one.     *)
Floors ==
    /\ floor <= Len(offered) + 1
    /\ \A c \in Clients : ops[c].floor <= floor

Writer(c)    == ops[c].pc \in {"Setting", "Deleting"}
DirectSet(c) == ops[c].pc = "Setting" /\ ops[c].ctx = "Direct"

(* Without an overlap there is one writer, counting the late ones; it is    *)
(* not behind the floor; and what it has written is there or gone.          *)
OneWriter ==
    /\ \A c, d \in Clients : Writer(c) /\ Writer(d) => c = d
    /\ \A c \in Clients : Writer(c) => late = {}

Ahead == \A c \in Clients : ops[c].pc = "Setting" => floor <= ops[c].value.data

WrittenTo(c, l) ==
    ops[c].write[l] = "Ok" /\ layers[l] # None =>
        ops[c].pc = "Setting" /\ layers[l].data = ops[c].value.data

Written == \A c \in Clients, l \in Layers : WrittenTo(c, l)

(* ReadsDoNotGoBack, with what the layers have and what was read.           *)
Current ==
    /\ late = {}
    /\ \A l \in Layers : layers[l] # None => floor <= layers[l].data
    /\ \A c \in Clients, l \in Layers :
           ops[c].read[l].status = "Hit" => ops[c].floor <= ops[c].read[l].value.data

(* AgreeAtRest, with what holds on the way from rest to rest.               *)
Agree ==
    layers[L1] # None /\ layers[L2] # None => layers[L1].data = layers[L2].data

AgreeUnlessSet == (\A c \in Clients : ~DirectSet(c)) /\ late = {} => Agree

(* L2 has nothing yet of the response that is being written to it.          *)
L2Older ==
    /\ layers[L2] # None => layers[L2].data < Len(offered)
    /\ \A c \in Clients : ops[c].read[L2].status = "Hit" =>
           ops[c].read[L2].value.data < Len(offered)

SetsTheNewest ==
    \A c \in Clients : DirectSet(c) =>
        /\ ops[c].value.data = Len(offered)
        /\ ops[c].write[L2] # "Ok" => L2Older

RefillsTheSame ==
    \A c \in Clients : ops[c].pc = "Setting" /\ ops[c].ctx = "Refill" /\ layers[L2] # None =>
        layers[L2].data = ops[c].value.data

(* The late write is the other half of a set that has returned.             *)
LateIsTheNewest ==
    \A w \in late :
        /\ late = {w} /\ w.value.data = Len(offered) /\ floor = Len(offered)
        /\ layers[Other(w.layer)] # None => layers[Other(w.layer)].data = Len(offered)
        /\ w.layer = L2 => L2Older

(* What a get found in L2 is still there, unless the refill will be blamed. *)
FoundIsThere(c) ==
    ops[c].read[L2].status = "Hit" /\ layers[L2] # None =>
        \/ layers[L2].data = ops[c].read[L2].value.data
        \/ ops[c].read[L2].value.data < floor
        \/ ops[c].floor < floor
        \/ \E d \in Clients : DirectSet(d) \/ ops[d].pc = "Deleting"

Agreed == /\ AgreeUnlessSet
          /\ SetsTheNewest
          /\ RefillsTheSame
          /\ LateIsTheNewest
          /\ \A c \in Clients : FoundIsThere(c)

(* AckedSetIsStored: without a time to live, or without the times that a    *)
(* trait object drops, nothing has a time; and what a set has written stays *)
(* for its time.                                                            *)
Timeless == config.ttl = None \/ config.dispatch = "dyn"

TimelessEverywhere ==
    /\ \A l \in Layers : layers[l] # None => layers[l].until = None /\ layers[l].expire = None
    /\ \A c \in Clients : ops[c].value # None => ops[c].value.expire = None
    /\ \A c \in Clients, l \in Layers :
           ops[c].read[l].status = "Hit" => ops[c].read[l].value.expire = None
    /\ \A w \in late : w.value.expire = None

NoTimes ==
    /\ Timeless => TimelessEverywhere
    /\ \A c \in Clients : DirectSet(c) /\ ops[c].value.expire = None => Timeless

Short(value, t) == value.expire # None /\ value.expire < t + SECOND

Lasting(value, entry) ==
    /\ entry # None /\ entry.data = value.data
    /\ entry.until # None => value.expire # None /\ value.expire < entry.until + SECOND

StoredBy(c, l) ==
    DirectSet(c) /\ ops[c].write[l] = "Ok" =>
        Short(ops[c].value, now) \/ Lasting(ops[c].value, layers[l])

Stays == \A c \in Clients, l \in Layers : StoredBy(c, l)

JInv ==
    /\ IInv /\ Shapes /\ Floors /\ NoTimes
    /\ ~Excused({"overlap"}) => OneWriter /\ Ahead /\ Written
    /\ ~Excused({"overlap", "evicted"}) => Stays
    /\ ~Excused({"overlap", "fault", "late"}) => Current
    /\ ~Excused({"overlap", "fault", "skipped"}) => Agreed

-----------------------------------------------------------------------------
(* What the steps do, by kind.  A client that looks: it begins to read, a   *)
(* layer answers it, or it goes on without anything to write.               *)
Looks(c) ==
    /\ UNCHANGED <<config, now, layers, late, offered, floor, causes>>
    /\ \A d \in Clients \ {c} : ops'[d] = ops[d]
    /\ ~Writer(c) /\ ops'[c].pc \notin {"Setting", "Deleting"}
    /\ ops'[c].value = None /\ ops'[c].write = Unwritten
    /\ ops'[c].floor \in {ops[c].floor, floor, 0}
    /\ \A l \in Layers : ops'[c].read[l].status = "Hit" =>
           /\ ops'[c].floor = ops[c].floor
           /\ \/ ops'[c].read[l] = ops[c].read[l]
              \/ /\ layers[l] # None
                 /\ ops'[c].read[l].value.data = layers[l].data
                 /\ ops'[c].read[l].value.expire = layers[l].expire

(* Put changes one client.                                                  *)
LEMMA Puts ==
    ASSUME IInv, NEW c \in Clients, NEW op, Put(c, op)
    PROVE  ops'[c] = op /\ \A d \in Clients \ {c} : ops'[d] = ops[d]
  BY DEF Put, IInv, TypeOK

(* The types the steps below keep citing. *)
LEMMA Typed ==
    ASSUME IInv
    PROVE  /\ \A c \in Clients : ops[c] \in Operation /\ OpOK(ops[c])
           /\ \A l \in Layers : layers[l] \in Entries \cup {None}
           /\ config \in CompositionConfig /\ \A l \in Layers : config.store[l] \in Stores
           /\ now \in Nat /\ floor \in Nat /\ offered \in Seq(Times) /\ Len(offered) \in Nat
           /\ late \subseteq LateWrite
  BY ConfigOK, CompositionAssumption DEF IInv, TypeOK, OpOK, CompositionConfig

(* A client that only goes on, and one whose get begins, is answered or ends. *)
LEMMA GoOnLooks ==
    ASSUME IInv, NEW c \in Clients, NEW pc \in {"Idle", "Fetching"},
           NEW ctx \in {"Direct", "Refill"}, GoOn(c, pc, ctx), ~Writer(c)
    PROVE  Looks(c)
<1> DEFINE op == [Idle EXCEPT !.pc = pc, !.ctx = ctx]
<1>1. /\ op.pc = pc /\ op.value = None /\ op.write = Unwritten /\ op.read = Unstarted
      /\ op.floor = 0
  BY DEF Idle
<1>2. Put(c, op)
  BY DEF GoOn
<1> HIDE DEF op
<1>3. ops'[c] = op /\ \A d \in Clients \ {c} : ops'[d] = ops[d]
  BY <1>2, Puts
<1>4. \A l \in Layers : ops'[c].read[l].status # "Hit"
  BY <1>1, <1>3, StartFact
<1>5. QED
  BY <1>1, <1>3, <1>4 DEF Looks, GoOn

LEMMA StartGetLooks ==
    ASSUME IInv, NEW c \in Clients, StartGet(c)
    PROVE  Looks(c)
<1> DEFINE op == [Idle EXCEPT !.pc = "Getting", !.read = StartRead, !.floor = floor]
<1>1. /\ op.pc = "Getting" /\ op.value = None /\ op.write = Unwritten /\ op.read = StartRead
      /\ op.floor = floor
  BY DEF Idle
<1>2. Put(c, op)
  BY DEF StartGet
<1> HIDE DEF op
<1>3. ops'[c] = op /\ \A d \in Clients \ {c} : ops'[d] = ops[d]
  BY <1>2, Puts
<1>4. \A l \in Layers : ops'[c].read[l].status # "Hit"
  BY <1>1, <1>3, StartFact
<1>5. QED
  BY <1>1, <1>3, <1>4 DEF Looks, StartGet, Writer

LEMMA ReadLooks ==
    ASSUME IInv, Shapes, NEW c \in Clients, NEW l \in Layers, ReadLayer(c, l) \/ ReadFails(c, l)
    PROVE  Looks(c)
<1>1. PICK status \in {"Hit", "Miss", "Error"}, value \in CacheValues \cup {None} :
         /\ ReadResult(c, l, status, value)
         /\ status = "Hit" => /\ layers[l] # None /\ value.data = layers[l].data
                              /\ value.expire = layers[l].expire
  <2>1. CASE ReadFails(c, l)
    BY <2>1 DEF ReadFails
  <2>2. CASE ReadLayer(c, l)
    <3> DEFINE found == Read(config.store[l], layers[l], now)
    <3>1. /\ found \in CacheValues \cup {None}
          /\ found # None => /\ layers[l] # None /\ found.data = layers[l].data
                             /\ found.expire = layers[l].expire
      BY Typed, ReadFact
    <3>2. ReadResult(c, l, IF found = None THEN "Miss" ELSE "Hit", found)
      BY <2>2 DEF ReadLayer
    <3> HIDE DEF found
    <3>3. QED
      BY <3>1, <3>2
  <2>3. QED
    BY <2>1, <2>2
<1> DEFINE read == [ops[c].read EXCEPT ![l] = [status |-> status, value |-> value]]
           op == [ops[c] EXCEPT !.read = ReadNext(read)]
<1>2. ops[c] \in Operation /\ OpOK(ops[c]) /\ ops[c].read[l].status = "Pending"
  BY <1>1, Typed DEF ReadResult
<1>3. ops[c].pc = "Getting"
  BY <1>2 DEF OpOK, Unstarted, Operation
<1>4. /\ op.pc = "Getting" /\ op.value = None /\ op.write = Unwritten
      /\ op.floor = ops[c].floor /\ op.read = ReadNext(read)
  <2>1. ops[c].value = None /\ ops[c].write = Unwritten
    BY <1>2, <1>3 DEF OpOK, Shapes, WriteShape
  <2> HIDE DEF read
  <2>2. QED
    BY <1>2, <1>3, <2>1 DEF Operation
<1>5. \A k \in Layers : ReadNext(read)[k].status = "Hit" => ReadNext(read)[k] = read[k]
  <2>1. read \in Reads
    BY <1>2 DEF Operation, Reads
  <2> HIDE DEF read
  <2>2. QED
    BY <2>1 DEF ReadNext, Layers, Reads
<1>6. \A k \in Layers : read[k] = IF k = l THEN [status |-> status, value |-> value]
                                  ELSE ops[c].read[k]
  BY <1>2 DEF Operation
<1> HIDE DEF read
<1>7. Put(c, op) /\ UNCHANGED <<config, now, layers, late, offered, floor>>
  BY <1>1 DEF ReadResult, read
<1>8. causes' = causes
  BY DEF ReadLayer, ReadFails
<1> HIDE DEF op
<1>9. ops'[c] = op /\ \A d \in Clients \ {c} : ops'[d] = ops[d]
  BY <1>7, Puts
<1>10. ASSUME NEW k \in Layers, ops'[c].read[k].status = "Hit"
       PROVE  \/ ops'[c].read[k] = ops[c].read[k]
              \/ /\ layers[k] # None
                 /\ ops'[c].read[k].value.data = layers[k].data
                 /\ ops'[c].read[k].value.expire = layers[k].expire
  <2>1. ops'[c].read[k] = read[k]
    BY <1>4, <1>5, <1>9, <1>10
  <2>2. CASE k = l
    <3>1. read[k].status = status /\ read[k].value = value
      BY <1>6, <2>2
    <3>2. QED
      BY <1>1, <1>10, <2>1, <2>2, <3>1
  <2>3. CASE k # l
    BY <1>6, <2>1, <2>3
  <2>4. QED
    BY <2>2, <2>3
<1>11. QED
  BY <1>3, <1>4, <1>7, <1>8, <1>9, <1>10 DEF Looks, Writer

LEMMA FetchLooks ==
    ASSUME IInv, NEW c \in Clients,
           \/ ServeActual(c) \/ ServeStale(c) \/ RevalidateStale(c) \/ OffloadStale(c) \/ Miss(c)
           \/ FetchNonCacheable(c)
    PROVE  Looks(c)
<1>1. CtxAfterGet(ops[c].read) \in {"Direct", "Refill"}
  BY DEF CtxAfterGet
<1>2. ~Writer(c)
  BY DEF ServeActual, ServeStale, RevalidateStale, OffloadStale, Miss, FetchNonCacheable,
         FoundIn, Got, Writer
<1>3. CASE ServeActual(c) \/ ServeStale(c) \/ FetchNonCacheable(c)
  BY <1>2, <1>3, GoOnLooks DEF ServeActual, ServeStale, FetchNonCacheable
<1>4. CASE RevalidateStale(c) \/ OffloadStale(c) \/ Miss(c)
  BY <1>1, <1>2, <1>4, GoOnLooks DEF RevalidateStale, OffloadStale, Miss
<1>5. QED
  BY <1>3, <1>4

(* A client that begins a set of a value. *)
Begins(c, value, ctx, isRefill) ==
    /\ UNCHANGED <<config, now, layers, late, floor>>
    /\ \A d \in Clients \ {c} : ops'[d] = ops[d]
    /\ ~Writer(c)
    /\ ops'[c].pc = "Setting" /\ ops'[c].ctx = ctx /\ ops'[c].write = StartWrite(ctx)
    /\ ops'[c].value \in CacheValues /\ ops'[c].value.data = value.data
    /\ ops'[c].value.expire \in {value.expire, None}
    /\ config.dispatch = "dyn" => ops'[c].value.expire = None
    /\ config.dispatch # "dyn" => ops'[c].value.expire = value.expire
    /\ ops'[c].floor = 0 /\ \A l \in Layers : ops'[c].read[l].status # "Hit"
    /\ causes \subseteq causes'
    /\ "overlap" \notin causes' =>
           /\ late = {} /\ \A d \in Clients : ~Writer(d)
           /\ isRefill => ops[c].floor = floor /\ floor <= value.data
    /\ "skipped" \notin causes' /\ ctx = "Refill" => isRefill

(* set() begins with what its caller hands over, without its times if that  *)
(* is a trait object.                                                       *)
LEMMA StartSetBegins ==
    ASSUME IInv, NEW c \in Clients, NEW value \in CacheValues,
           NEW ctx \in {"Direct", "Refill"}, NEW isRefill \in BOOLEAN,
           StartSet(c, value, ctx, isRefill), ~Writer(c),
           UNCHANGED <<config, now, layers, late, floor>>
    PROVE  Begins(c, value, ctx, isRefill)
<1> DEFINE op == [Idle EXCEPT !.pc = "Setting", !.ctx = ctx, !.value = Enveloped(value),
                              !.write = StartWrite(ctx)]
<1>1. /\ op.pc = "Setting" /\ op.ctx = ctx /\ op.value = Enveloped(value)
      /\ op.write = StartWrite(ctx) /\ op.read = Unstarted /\ op.floor = 0
  BY DEF Idle
<1>2. Put(c, op)
  BY DEF StartSet
<1> HIDE DEF op
<1>3. ops'[c] = op /\ \A d \in Clients \ {c} : ops'[d] = ops[d]
  BY <1>2, Puts
<1>4. \A l \in Layers : ops'[c].read[l].status # "Hit"
  BY <1>1, <1>3, StartFact
<1>5. /\ Enveloped(value) \in CacheValues /\ Enveloped(value).data = value.data
      /\ Enveloped(value).expire \in {value.expire, None}
      /\ config.dispatch = "dyn" => Enveloped(value).expire = None
      /\ config.dispatch # "dyn" => Enveloped(value) = value
  BY DEF Enveloped, CacheValues, Times
<1>6. causes \subseteq causes'
  BY DEF StartSet, Blame
<1>7. ASSUME "overlap" \notin causes'
      PROVE  /\ late = {} /\ \A d \in Clients : ~Writer(d)
             /\ isRefill => ops[c].floor = floor /\ floor <= value.data
  <2>1. ~(Writing \/ (isRefill /\ Overtaken(c, value)))
    BY <1>7 DEF StartSet, Blame
  <2>2. value.data \in Nat /\ floor \in Nat
    BY Typed DEF CacheValues
  <2>3. QED
    BY <2>1, <2>2 DEF Writing, Writer, Overtaken
<1>8. "skipped" \notin causes' /\ ctx = "Refill" => isRefill
  BY DEF StartSet, Blame
<1>9. QED
  BY <1>1, <1>3, <1>4, <1>5, <1>6, <1>7, <1>8 DEF Begins

(* A layer answers a write or a remove. *)
Writes(c, l, status) ==
    /\ UNCHANGED <<config, now, late, offered, floor>>
    /\ \A d \in Clients \ {c} : ops'[d] = ops[d]
    /\ Writer(c) /\ ops[c].write[l] = "Pending" /\ l \in Layers
    /\ ops'[c].pc = ops[c].pc /\ ops'[c].ctx = ops[c].ctx /\ ops'[c].value = ops[c].value
    /\ ops'[c].read = ops[c].read /\ ops'[c].floor = ops[c].floor
    /\ ops'[c].write[l] = status
    /\ \A k \in Layers \ {l} :
           ops'[c].write[k] =
               IF /\ ops[c].pc = "Setting" /\ ops[c].ctx = "Direct" /\ config.write = "Sequential"
                  /\ k = L2 /\ status = "Ok" /\ ops[c].write[k] = "Unstarted"
               THEN "Pending" ELSE ops[c].write[k]
    /\ \A k \in Layers \ {l} : layers'[k] = layers[k]
    /\ causes \subseteq causes'
    /\ status # "Ok" => "fault" \in causes'
    /\ status \in {"Ok", "Error"}
    /\ \/ /\ ops[c].pc = "Setting"
          /\ layers'[l] = Stored(l, ops[c].value)
       \/ /\ ops[c].pc = "Deleting" /\ status = "Ok"
          /\ layers'[l] = None
       \/ status = "Error" /\ layers'[l] = layers[l]

(* A layer that answers, and the next one of a sequential set that starts.  *)
LEMMA ResultWrites ==
    ASSUME IInv, Shapes, NEW c \in Clients, NEW l \in Layers, NEW status \in {"Ok", "Error"},
           WriteResult(c, l, status)
    PROVE  /\ UNCHANGED <<config, now, late, offered, floor>>
           /\ \A d \in Clients \ {c} : ops'[d] = ops[d]
           /\ Writer(c) /\ ops[c].write[l] = "Pending"
           /\ ops'[c].pc = ops[c].pc /\ ops'[c].ctx = ops[c].ctx /\ ops'[c].value = ops[c].value
           /\ ops'[c].read = ops[c].read /\ ops'[c].floor = ops[c].floor
           /\ ops'[c].write[l] = status
           /\ \A k \in Layers \ {l} :
                  ops'[c].write[k] =
                      IF /\ ops[c].pc = "Setting" /\ ops[c].ctx = "Direct"
                         /\ config.write = "Sequential"
                         /\ k = L2 /\ status = "Ok" /\ ops[c].write[k] = "Unstarted"
                      THEN "Pending" ELSE ops[c].write[k]
<1> DEFINE write == [ops[c].write EXCEPT ![l] = status]
           next == WriteNext(ops[c], write)
           op == [ops[c] EXCEPT !.write = next]
<1>1. /\ ops[c] \in Operation /\ OpOK(ops[c]) /\ WriteShape(ops[c], causes)
      /\ ops[c].write[l] = "Pending"
  BY Typed DEF WriteResult, Shapes
<1>2. Writer(c)
  BY <1>1 DEF WriteShape, Unwritten, Writer
<1>3. /\ \A k \in Layers : write[k] = IF k = l THEN status ELSE ops[c].write[k]
      /\ write \in [Layers -> {"Unstarted", "Pending", "Ok", "Error"}]
  BY <1>1 DEF Operation
<1> HIDE DEF write
<1>4. \A k \in Layers :
         next[k] = IF k = l THEN status
                   ELSE IF /\ ops[c].pc = "Setting" /\ ops[c].ctx = "Direct"
                           /\ config.write = "Sequential"
                           /\ k = L2 /\ status = "Ok" /\ ops[c].write[k] = "Unstarted"
                        THEN "Pending" ELSE ops[c].write[k]
  <2>1. CASE /\ ops[c].pc = "Setting" /\ config.write = "Sequential" /\ ops[c].ctx = "Direct"
             /\ write[L1] = "Ok" /\ write[L2] = "Unstarted"
    <3>1. next = [write EXCEPT ![L2] = "Pending"]
      BY <2>1 DEF WriteNext
    <3>2. \A k \in Layers : next[k] = IF k = L2 THEN "Pending" ELSE write[k]
      BY <1>3, <3>1
    <3>3. l = L1 /\ status = "Ok"
      <4>1. l # L2
        BY <1>3, <2>1 DEF Layers
      <4>2. QED
        BY <1>3, <2>1, <4>1 DEF Layers
    <3>4. ops[c].write[L2] = "Unstarted" /\ L2 # l /\ L2 \in Layers
      BY <1>3, <2>1, <3>3 DEF Layers, L1, L2
    <3> HIDE DEF next
    <3>5. QED
      BY <1>3, <2>1, <3>2, <3>3, <3>4 DEF Layers
  <2>2. CASE ~(/\ ops[c].pc = "Setting" /\ config.write = "Sequential" /\ ops[c].ctx = "Direct"
               /\ write[L1] = "Ok" /\ write[L2] = "Unstarted")
    <3>1. next = write
      BY <2>2 DEF WriteNext
    <3> HIDE DEF next
    <3>2. QED
      BY <1>3, <2>2, <3>1 DEF Layers
  <2>3. QED
    BY <2>1, <2>2
<1> HIDE DEF next
<1>5. /\ op.pc = ops[c].pc /\ op.ctx = ops[c].ctx /\ op.value = ops[c].value
      /\ op.read = ops[c].read /\ op.floor = ops[c].floor /\ op.write = next
  BY <1>1 DEF Operation
<1>6. Put(c, op) /\ UNCHANGED <<config, now, late, offered, floor>>
  BY DEF WriteResult, write, next
<1> HIDE DEF op
<1>7. ops'[c] = op /\ \A d \in Clients \ {c} : ops'[d] = ops[d]
  BY <1>6, Puts
<1>8. QED
  BY <1>1, <1>2, <1>4, <1>5, <1>6, <1>7

LEMMA LayerWrites ==
    ASSUME IInv, Shapes, NEW c \in Clients, NEW l \in Layers,
           WriteLayer(c, l) \/ RemoveLayer(c, l) \/ WriteFails(c, l)
    PROVE  \E status \in {"Ok", "Error"} : Writes(c, l, status)
<1>1. CASE WriteLayer(c, l)
  <2>1. WriteResult(c, l, "Ok") /\ ops[c].pc = "Setting"
        /\ layers' = [layers EXCEPT ![l] = Stored(l, ops[c].value)] /\ causes \subseteq causes'
    BY <1>1 DEF WriteLayer, Apply, Blame
  <2>2. layers'[l] = Stored(l, ops[c].value) /\ \A k \in Layers \ {l} : layers'[k] = layers[k]
    BY <2>1 DEF IInv, TypeOK
  <2>3. Writes(c, l, "Ok")
    BY <2>1, <2>2, ResultWrites DEF Writes
  <2>4. QED
    BY <2>3
<1>2. CASE RemoveLayer(c, l)
  <2>1. WriteResult(c, l, "Ok") /\ ops[c].pc = "Deleting"
        /\ layers' = [layers EXCEPT ![l] = None] /\ causes \subseteq causes'
    BY <1>2 DEF RemoveLayer
  <2>2. layers'[l] = None /\ \A k \in Layers \ {l} : layers'[k] = layers[k]
    BY <2>1 DEF IInv, TypeOK
  <2>3. Writes(c, l, "Ok")
    BY <2>1, <2>2, ResultWrites DEF Writes
  <2>4. QED
    BY <2>3
<1>3. CASE WriteFails(c, l)
  <2>1. WriteResult(c, l, "Error") /\ "fault" \in causes' /\ causes \subseteq causes'
    BY <1>3 DEF WriteFails, Apply, Blame
  <2>2. \/ UNCHANGED layers
        \/ ops[c].pc = "Setting" /\ layers' = [layers EXCEPT ![l] = Stored(l, ops[c].value)]
    BY <1>3 DEF WriteFails, Apply
  <2>3. /\ \/ layers'[l] = layers[l]
           \/ ops[c].pc = "Setting" /\ layers'[l] = Stored(l, ops[c].value)
        /\ \A k \in Layers \ {l} : layers'[k] = layers[k]
    BY <2>2 DEF IInv, TypeOK
  <2>4. Writes(c, l, "Error")
    BY <2>1, <2>3, ResultWrites DEF Writes
  <2>5. QED
    BY <2>4
<1>4. QED
  BY <1>1, <1>2, <1>3

(* A client that begins a delete. *)
Deletes(c) ==
    /\ UNCHANGED <<config, now, layers, late, offered, floor>>
    /\ \A d \in Clients \ {c} : ops'[d] = ops[d]
    /\ ~Writer(c)
    /\ ops'[c].pc = "Deleting" /\ ops'[c].value = None
    /\ \A l \in Layers : ops'[c].write[l] = "Pending" /\ ops'[c].read[l].status # "Hit"
    /\ ops'[c].floor = 0
    /\ causes \subseteq causes'
    /\ "overlap" \notin causes' => late = {} /\ \A d \in Clients : ~Writer(d)

LEMMA StartDeletes ==
    ASSUME IInv, NEW c \in Clients, StartDelete(c)
    PROVE  Deletes(c)
<1> DEFINE op == [Idle EXCEPT !.pc = "Deleting", !.write = [l \in Layers |-> "Pending"]]
<1>1. /\ op.pc = "Deleting" /\ op.value = None /\ op.read = Unstarted /\ op.floor = 0
      /\ \A l \in Layers : op.write[l] = "Pending"
  BY DEF Idle
<1>2. Put(c, op)
  BY DEF StartDelete
<1> HIDE DEF op
<1>3. ops'[c] = op /\ \A d \in Clients \ {c} : ops'[d] = ops[d]
  BY <1>2, Puts
<1>4. \A l \in Layers : ops'[c].read[l].status # "Hit"
  BY <1>1, <1>3, StartFact
<1>5. causes \subseteq causes' /\ ("overlap" \notin causes' => ~Writing)
  BY DEF StartDelete, Blame
<1>6. QED
  BY <1>1, <1>3, <1>4, <1>5 DEF Deletes, StartDelete, Writing, Writer

(* A client that leaves: its set or delete returns, or it is dropped. *)
Leaves(c) ==
    /\ UNCHANGED <<config, now, layers, offered>>
    /\ ops'[c] = Idle /\ \A d \in Clients \ {c} : ops'[d] = ops[d]
    /\ causes \subseteq causes'
    /\ late \subseteq late'
    /\ \A w \in late' \ late :
           /\ ops[c].pc = "Setting" /\ w.value = ops[c].value
           /\ w.layer \in Layers /\ ops[c].write[w.layer] = "Pending"
    /\ late' # late => "late" \in causes' \/ "fault" \in causes'
    /\ \/ floor' = floor
       \/ ops[c].pc = "Setting" /\ ops[c].ctx = "Direct" /\ SetOk(ops[c])
          /\ floor' = ops[c].value.data /\ ops[c].value.data > floor
       \/ ops[c].pc = "Deleting" /\ floor' = Len(offered) + 1
    /\ "fault" \notin causes' => SetReturns(c) \/ DeleteReturns(c)

LEMMA ReturnsLeave ==
    ASSUME IInv, NEW c \in Clients, SetReturns(c) \/ DeleteReturns(c) \/ Drop(c)
    PROVE  Leaves(c)
<1>1. ops'[c] = Idle /\ \A d \in Clients \ {c} : ops'[d] = ops[d]
  <2>1. Put(c, Idle)
    BY DEF SetReturns, DeleteReturns, Drop, Done
  <2>2. QED
    BY <2>1, Puts
<1>2. \A b, w : w \in Left(c, b) =>
          /\ ops[c].pc = "Setting" /\ w.value = ops[c].value
          /\ w.layer \in Layers /\ ops[c].write[w.layer] = "Pending"
  BY DEF Left
<1>3. CASE SetReturns(c)
  <2>1. Left(c, FALSE) = {} => Left(c, config.write = "RaceOffload") = {}
    BY DEF Left
  <2>2. causes \subseteq causes' /\ (Left(c, FALSE) # {} => "late" \in causes')
    BY <1>3 DEF SetReturns, Blame
  <2>3. late' = late \cup Left(c, config.write = "RaceOffload")
    BY <1>3 DEF SetReturns
  <2>4. QED
    BY <1>1, <1>2, <1>3, <2>1, <2>2, <2>3 DEF Leaves, SetReturns
<1>4. CASE DeleteReturns(c)
  BY <1>1, <1>4 DEF Leaves, DeleteReturns
<1>5. CASE Drop(c)
  <2>1. causes \subseteq causes' /\ "fault" \in causes' /\ late' = late \cup Left(c, FALSE)
    BY <1>5 DEF Drop, Blame
  <2>2. QED
    BY <1>1, <1>2, <1>5, <2>1 DEF Leaves, Drop
<1>6. QED
  BY <1>3, <1>4, <1>5

(* A late write reaches its layer. *)
Lands(w) ==
    /\ UNCHANGED <<config, now, ops, offered, floor>>
    /\ w \in late /\ late' = late \ {w}
    /\ layers'[w.layer] = Stored(w.layer, w.value)
    /\ \A l \in Layers \ {w.layer} : layers'[l] = layers[l]
    /\ causes \subseteq causes'

(* Layers lose what they have, or a late write is lost. *)
Shrinks ==
    /\ UNCHANGED <<config, ops, offered, floor>>
    /\ causes \subseteq causes'
    /\ late' \subseteq late
    /\ late' # late => "fault" \in causes'
    /\ now' \in Nat /\ now' >= now
    /\ \A l \in Layers :
           \/ layers'[l] = layers[l]
           \/ /\ layers'[l] = None /\ layers[l] # None
              /\ "evicted" \notin causes' => layers[l].until # None /\ layers[l].until <= now'

LEMMA LateLands ==
    ASSUME IInv, LateStep
    PROVE  Shrinks \/ \E w \in late : Lands(w)
<1>1. PICK w \in late : LateWriteLands(w) \/ LateWriteLost(w)
  BY DEF LateStep
<1>2. w.layer \in Layers
  BY Typed DEF LateWrite
<1>3. CASE LateWriteLands(w)
  <2>1. layers' = [layers EXCEPT ![w.layer] = Stored(w.layer, w.value)]
        /\ causes \subseteq causes'
    BY <1>3 DEF LateWriteLands, Apply, Blame
  <2>2. QED
    BY <1>2, <1>3, <2>1 DEF LateWriteLands, Lands, IInv, TypeOK
<1>4. CASE LateWriteLost(w)
  <2>1. causes \subseteq causes' /\ "fault" \in causes' /\ late' \subseteq late
        /\ UNCHANGED <<config, now, layers, ops, offered, floor>>
    BY <1>4 DEF LateWriteLost, Blame
  <2>2. now' \in Nat /\ now' >= now
    BY <2>1, Typed
  <2>3. QED
    BY <2>1, <2>2 DEF Shrinks
<1>5. QED
  BY <1>1, <1>3, <1>4

(* Time, an eviction and a stuttering step only take entries away.          *)
LEMMA RestShrinks ==
    ASSUME IInv, Tick \/ (\E l \in Layers : Evict(l)) \/ UNCHANGED vars
    PROVE  Shrinks
<1>0. now \in Nat
  BY Typed
<1>1. CASE Tick
  <2>1. now' = now + 1 /\ \A l \in Layers : layers'[l] = KeptAt(layers[l], now')
    BY <1>1 DEF Tick
  <2>2. UNCHANGED <<config, ops, late, offered, floor, causes>>
    BY <1>1 DEF Tick
  <2>3. QED
    BY <1>0, <2>1, <2>2 DEF Shrinks, KeptAt, Passed
<1>2. ASSUME NEW l \in Layers, Evict(l)
      PROVE  Shrinks
  <2>1. layers' = [layers EXCEPT ![l] = None] /\ layers[l] # None
        /\ causes \subseteq causes' /\ "evicted" \in causes'
        /\ UNCHANGED <<config, now, ops, late, offered, floor>>
    BY <1>2 DEF Evict, Blame
  <2>2. \A k \in Layers : layers'[k] = layers[k] \/ (layers'[k] = None /\ layers[k] # None)
    BY <2>1 DEF IInv, TypeOK
  <2>3. now' \in Nat /\ now' >= now
    BY <1>0, <2>1
  <2>4. QED
    BY <2>1, <2>2, <2>3 DEF Shrinks
<1>3. CASE UNCHANGED vars
  <2>1. now' \in Nat /\ now' >= now
    BY <1>0, <1>3 DEF vars
  <2>2. QED
    BY <1>3, <2>1 DEF Shrinks, vars
<1>4. QED
  BY <1>1, <1>2, <1>3

(* A fetch, and a refill, begin a set. *)
LEMMA FetchBegins ==
    ASSUME IInv, NEW c \in Clients, FetchCacheable(c)
    PROVE  \E value \in CacheValues :
               /\ Begins(c, value, ops[c].ctx, FALSE)
               /\ value.data = Len(offered) + 1
               /\ Len(offered') = Len(offered) + 1
               /\ (value.expire = None) <=> (config.ttl = None)
<1> DEFINE data == Len(offered) + 1
           fresh == FreshValue(data, config, now)
<1>1. /\ offered \in Seq(Times) /\ now \in Nat /\ data \in Nat
      /\ config.ttl \in Times /\ config.stale_ttl \in Times
      /\ ops[c].ctx \in {"Direct", "Refill"}
  BY Typed DEF CompositionConfig, Operation
<1>2. fresh \in CacheValues /\ fresh.data = data /\ fresh.expire \in Times
      /\ ((fresh.expire = None) <=> (config.ttl = None))
  BY <1>1, CacheValueAssumption DEF FreshValue, After, CacheValues, Times
<1>3. /\ offered' = Append(offered, fresh.expire) /\ ~Writer(c)
      /\ StartSet(c, fresh, ops[c].ctx, FALSE)
      /\ UNCHANGED <<config, now, layers, late, floor>>
  BY DEF FetchCacheable, Writer
<1> HIDE DEF fresh
<1>4. Len(offered') = Len(offered) + 1
  BY <1>1, <1>2, <1>3
<1>5. Begins(c, fresh, ops[c].ctx, FALSE)
  BY <1>1, <1>2, <1>3, StartSetBegins
<1>6. QED
  BY <1>2, <1>4, <1>5

LEMMA RefillBegins ==
    ASSUME IInv, NEW c \in Clients, RefillActual(c)
    PROVE  /\ Found(c) \in CacheValues /\ Begins(c, Found(c), "Refill", TRUE)
           /\ offered' = offered
           /\ ops[c].read[L2].status = "Hit" /\ Found(c) = ops[c].read[L2].value
<1>1. Found(c) # None
  BY DEF RefillActual, FoundIn, FoundState
<1>2. Found(c) \in CacheValues
  BY <1>1, FoundFact
<1>3. StartSet(c, Found(c), "Refill", TRUE) /\ ~Writer(c)
      /\ UNCHANGED <<config, now, layers, late, floor, offered>>
  BY DEF RefillActual, FoundIn, Got, Writer
<1>4. ReadSource(ops[c].read) = L2
  BY DEF RefillActual, CtxAfterGet
<1>5. L2 \in Hits(ops[c].read)
  <2>1. L2 # None /\ L2 # L1 /\ Layers = {L1, L2}
    BY CompositionAssumption DEF Layers, L1, L2
  <2>2. QED
    BY <1>4, <2>1 DEF ReadSource, Prefer, Hits
<1>6. L2 # None
  BY CompositionAssumption DEF Layers
<1>7. QED
  BY <1>2, <1>3, <1>4, <1>5, <1>6, StartSetBegins DEF Found, Hits

(* Every step is of one of these kinds.                                     *)
SomeWrites(c) == \E l \in Layers, status \in {"Ok", "Error"} : Writes(c, l, status)

Kinds(c) == \/ Looks(c) \/ Deletes(c) \/ Leaves(c) \/ SomeWrites(c)
            \/ FetchCacheable(c) \/ RefillActual(c)

(* Together the kinds are all there is.                                     *)
LEMMA StepKinds ==
    ASSUME IInv, Shapes, [Next]_vars
    PROVE  Shrinks \/ (\E w \in late : Lands(w)) \/ \E c \in Clients : Kinds(c)
<1>1. ASSUME NEW c \in Clients, NEW l \in Layers, LayerStep(c, l)
      PROVE  Kinds(c)
  BY <1>1, ReadLooks, LayerWrites DEF LayerStep, Kinds, SomeWrites
<1>2. ASSUME NEW c \in Clients, GetReturns(c) \/ FetchCacheable(c) \/ FetchNonCacheable(c)
      PROVE  Kinds(c)
  BY <1>2, FetchLooks DEF GetReturns, Kinds
<1>3. ASSUME NEW c \in Clients, SetReturns(c) \/ DeleteReturns(c) \/ Drop(c)
      PROVE  Kinds(c)
  BY <1>3, ReturnsLeave DEF Kinds
<1>4. ASSUME NEW c \in Clients, StartGet(c) \/ StartDelete(c)
      PROVE  Kinds(c)
  BY <1>4, StartGetLooks, StartDeletes DEF Kinds
<1>5. QED
  BY <1>1, <1>2, <1>3, <1>4, LateLands, RestShrinks DEF Next, ClientStep

-----------------------------------------------------------------------------
(* What has been excused stays excused.                                     *)
LEMMA CausesGrow ==
    ASSUME IInv, Shapes, [Next]_vars
    PROVE  causes \subseteq causes' /\ UNCHANGED config
<1>1. ASSUME NEW c \in Clients, Kinds(c)
      PROVE  causes \subseteq causes' /\ UNCHANGED config
  BY <1>1, FetchBegins, RefillBegins DEF Kinds, Looks, Deletes, Leaves, SomeWrites, Writes, Begins
<1>2. QED
  BY <1>1, StepKinds DEF Shrinks, Lands

(* The shape of a write depends on nothing but the operation.               *)
LEMMA OneShape ==
    ASSUME Shapes, NEW c \in Clients, UNCHANGED config, causes \subseteq causes',
           \A d \in Clients \ {c} : ops'[d] = ops[d],
           WriteShape(ops[c], causes)'
    PROVE  Shapes'
<1>1. ASSUME NEW d \in Clients \ {c}
      PROVE  WriteShape(ops[d], causes)'
  <2>1. WriteShape(ops[d], causes) /\ ops'[d] = ops[d]
    BY DEF Shapes
  <2>2. QED
    BY <2>1 DEF WriteShape, Targets
<1>2. QED
  BY <1>1 DEF Shapes

(* WriteShape of a client that writes nothing, begins a set, or is answered. *)
LEMMA NoWriteShape ==
    ASSUME NEW c \in Clients, ops'[c].pc \notin {"Setting", "Deleting"}, ops'[c].write = Unwritten
    PROVE  WriteShape(ops[c], causes)'
  BY DEF WriteShape, Unwritten

LEMMA BeginShape ==
    ASSUME IInv, NEW c \in Clients, NEW value, NEW ctx \in {"Direct", "Refill"}, NEW isRefill,
           Begins(c, value, ctx, isRefill)
    PROVE  WriteShape(ops[c], causes)'
<1>1. /\ ops'[c].pc = "Setting" /\ ops'[c].ctx = ctx /\ ops'[c].write = StartWrite(ctx)
      /\ UNCHANGED config
  BY DEF Begins
<1>2. \A l \in Layers :
         StartWrite(ctx)[l] = IF l \in Targets(ctx) /\ ~(config.write = "Sequential" /\ l = L2)
                              THEN "Pending" ELSE "Unstarted"
  BY DEF StartWrite
<1>3. /\ L1 \in Layers /\ L2 \in Layers /\ L1 # L2
      /\ L2 \in Targets(ctx) => ctx = "Direct"
      /\ Targets(ctx)' = Targets(ctx)
  BY <1>1 DEF Targets, Layers, L1, L2
<1>4. \A l \in Layers : StartWrite(ctx)[l] \in {"Pending", "Unstarted"}
  BY <1>2
<1> HIDE DEF Begins
<1>5. \A l \in Layers : StartWrite(ctx)[l] = "Unstarted" <=>
         l \notin Targets(ctx)
         \/ (config.write = "Sequential" /\ ctx = "Direct" /\ l = L2 /\ StartWrite(ctx)[L1] # "Ok")
  BY <1>2, <1>3, <1>4
<1>6. QED
  BY <1>1, <1>3, <1>4, <1>5 DEF WriteShape

LEMMA WritesShape ==
    ASSUME IInv, Shapes, NEW c \in Clients, SomeWrites(c)
    PROVE  WriteShape(ops[c], causes)'
<1>1. PICK l \in Layers, status \in {"Ok", "Error"} : Writes(c, l, status)
  BY DEF SomeWrites
<1>2. WriteShape(ops[c], causes)
  BY DEF Shapes
<1>3. UNCHANGED config
  BY <1>1 DEF Writes
<1>4. L1 \in Layers /\ L2 \in Layers /\ L1 # L2 /\ \A k \in Layers : k = L1 \/ k = L2
  BY DEF Layers, L1, L2
<1>5. "fault" \notin causes' => \A k \in Layers : ops'[c].write[k] # "Error"
  BY <1>1, <1>2 DEF Writes, WriteShape
<1>6. CASE ops[c].pc = "Deleting"
  <2>1. ops'[c].pc = "Deleting" /\ ops'[c].write[l] # "Unstarted"
    BY <1>1, <1>6 DEF Writes
  <2>2. \A k \in Layers \ {l} : ops'[c].write[k] = ops[c].write[k]
    BY <1>1, <1>6 DEF Writes
  <2>3. \A k \in Layers : ops[c].write[k] # "Unstarted"
    BY <1>2, <1>6 DEF WriteShape
  <2>4. QED
    BY <1>5, <2>1, <2>2, <2>3 DEF WriteShape
<1>7. CASE ops[c].pc = "Setting"
  <2> DEFINE old == ops[c].write
             new == ops'[c].write
             Second(k) == config.write = "Sequential" /\ ops[c].ctx = "Direct" /\ k = L2
  <2>1. \A k \in Layers : old[k] = "Unstarted" <=>
            k \notin Targets(ops[c].ctx) \/ (Second(k) /\ old[L1] # "Ok")
    BY <1>2, <1>7 DEF WriteShape
  <2>2. /\ ops'[c].pc = "Setting" /\ ops'[c].ctx = ops[c].ctx
        /\ old[l] = "Pending" /\ new[l] = status
        /\ \A k \in Layers \ {l} :
               new[k] = IF Second(k) /\ status = "Ok" /\ old[k] = "Unstarted"
                        THEN "Pending" ELSE old[k]
    BY <1>1, <1>7 DEF Writes
  <2> HIDE DEF old, new
  <2>3. \A k : Second(k) => k = L2 /\ k \in Targets(ops[c].ctx)
    BY <1>4 DEF Targets
  <2> HIDE DEF Second
  <2>4. ASSUME NEW k \in Layers
        PROVE  new[k] = "Unstarted" <=>
                   k \notin Targets(ops[c].ctx) \/ (Second(k) /\ new[L1] # "Ok")
    <3>1. CASE l = L1
      BY <1>4, <2>1, <2>2, <2>3, <3>1
    <3>2. CASE l = L2
      BY <1>4, <2>1, <2>2, <2>3, <3>2
    <3>3. QED
      BY <1>4, <3>1, <3>2
  <2>5. QED
    BY <1>3, <1>5, <2>2, <2>4 DEF WriteShape, Targets, Second, new
<1>8. QED
  BY <1>1, <1>6, <1>7 DEF Writes, Writer

(* The kinds keep the shape of the writes, and the floor.                   *)
LEMMA NextShapes ==
    ASSUME IInv, Shapes, [Next]_vars
    PROVE  Shapes'
<1>0. causes \subseteq causes' /\ UNCHANGED config
  BY CausesGrow
<1>1. ASSUME UNCHANGED ops
      PROVE  Shapes'
  BY <1>0, <1>1 DEF Shapes, WriteShape, Targets
<1>2. ASSUME NEW c \in Clients, Kinds(c)
      PROVE  Shapes'
  <2>1. CASE Looks(c)
    BY <1>0, <2>1, OneShape, NoWriteShape DEF Looks
  <2>2. CASE Leaves(c)
    <3>1. ops'[c].pc = "Idle" /\ ops'[c].write = Unwritten
      BY <2>2 DEF Leaves, Idle
    <3>2. QED
      BY <1>0, <2>2, <3>1, OneShape, NoWriteShape DEF Leaves
  <2>3. CASE Deletes(c)
    <3>1. WriteShape(ops[c], causes)'
      BY <2>3 DEF Deletes, WriteShape
    <3>2. QED
      BY <1>0, <2>3, <3>1, OneShape DEF Deletes
  <2>4. CASE SomeWrites(c)
    <3>1. WriteShape(ops[c], causes)'
      BY <2>4, WritesShape
    <3>2. \A d \in Clients \ {c} : ops'[d] = ops[d]
      BY <2>4 DEF SomeWrites, Writes
    <3>3. QED
      BY <1>0, <3>1, <3>2, OneShape
  <2>5. CASE FetchCacheable(c) \/ RefillActual(c)
    <3>1. ops[c].ctx \in {"Direct", "Refill"}
      BY Typed DEF Operation
    <3>2. PICK value \in CacheValues, ctx \in {"Direct", "Refill"}, isRefill \in BOOLEAN :
             Begins(c, value, ctx, isRefill)
      BY <2>5, <3>1, FetchBegins, RefillBegins
    <3>3. WriteShape(ops[c], causes)'
      BY <3>2, BeginShape
    <3>4. QED
      BY <1>0, <3>2, <3>3, OneShape DEF Begins
  <2>6. QED
    BY <1>2, <2>1, <2>2, <2>3, <2>4, <2>5 DEF Kinds
<1>3. QED
  BY <1>1, <1>2, StepKinds DEF Shrinks, Lands

-----------------------------------------------------------------------------
(* What is honest came from a response there was.                           *)
LEMMA Numbered ==
    ASSUME IInv
    PROVE  /\ \A l \in Layers : layers[l] # None => layers[l].data \in 1..Len(offered)
           /\ \A c \in Clients : ops[c].pc = "Setting" =>
                  ops[c].value \in CacheValues /\ ops[c].value.data \in 1..Len(offered)
           /\ \A c \in Clients, l \in Layers : ops[c].read[l].status = "Hit" =>
                  ops[c].read[l].value \in CacheValues
                  /\ ops[c].read[l].value.data \in 1..Len(offered)
           /\ \A w \in late : /\ w.layer \in Layers /\ w.value \in CacheValues
                               /\ w.value.data \in 1..Len(offered)
<1>1. ASSUME NEW c \in Clients, ops[c].pc = "Setting"
      PROVE  ops[c].value \in CacheValues /\ ops[c].value.data \in 1..Len(offered)
  BY <1>1, Typed DEF IInv, HonestEverywhere, HonestOp, Honest, OpOK, Operation
<1>2. ASSUME NEW c \in Clients, NEW l \in Layers, ops[c].read[l].status = "Hit"
      PROVE  ops[c].read[l].value \in CacheValues /\ ops[c].read[l].value.data \in 1..Len(offered)
  BY <1>2, Typed DEF IInv, HonestEverywhere, HonestOp, Honest, Operation
<1>3. QED
  BY <1>1, <1>2, Typed DEF IInv, HonestEverywhere, Honest, LateWrite

LEMMA NextFloors ==
    ASSUME IInv, Shapes, Floors, [Next]_vars
    PROVE  Floors' /\ floor <= floor' /\ Len(offered) <= Len(offered')
<1>0. /\ floor \in Nat /\ Len(offered) \in Nat /\ \A c \in Clients : ops[c].floor \in Nat
      /\ floor <= Len(offered) + 1 /\ \A c \in Clients : ops[c].floor <= floor
  BY Typed DEF Operation, Floors
<1>1. CASE Shrinks \/ \E w \in late : Lands(w)
  BY <1>0, <1>1 DEF Shrinks, Lands, Floors
<1>2. ASSUME NEW c \in Clients, Kinds(c)
      PROVE  Floors' /\ floor <= floor' /\ Len(offered) <= Len(offered')
  <2>1. CASE Looks(c) \/ Deletes(c)
    BY <1>0, <2>1 DEF Looks, Deletes, Floors
  <2>2. CASE SomeWrites(c)
    BY <1>0, <2>2 DEF SomeWrites, Writes, Floors
  <2>3. CASE Leaves(c)
    <3>1. ops[c].pc = "Setting" => ops[c].value.data \in 1..Len(offered)
      BY Numbered
    <3>2. floor' \in Nat /\ floor <= floor' /\ floor' <= Len(offered) + 1
      BY <1>0, <2>3, <3>1 DEF Leaves
    <3>3. ops'[c].floor = 0 /\ \A d \in Clients \ {c} : ops'[d] = ops[d]
      BY <2>3 DEF Leaves, Idle
    <3>4. offered' = offered
      BY <2>3 DEF Leaves
    <3>5. QED
      BY <1>0, <3>2, <3>3, <3>4 DEF Floors
  <2>4. CASE FetchCacheable(c) \/ RefillActual(c)
    <3>1. /\ Len(offered') = Len(offered) \/ Len(offered') = Len(offered) + 1
          /\ floor' = floor /\ ops'[c].floor = 0
          /\ \A d \in Clients \ {c} : ops'[d] = ops[d]
      BY <2>4, FetchBegins, RefillBegins DEF Begins
    <3>2. QED
      BY <1>0, <3>1 DEF Floors
  <2>5. QED
    BY <1>2, <2>1, <2>2, <2>3, <2>4 DEF Kinds
<1>3. QED
  BY <1>1, <1>2, StepKinds

-----------------------------------------------------------------------------
(* One writer at a time, as long as no two overlapped.                      *)
LEMMA StoredFact ==
    ASSUME IInv, NEW l \in Layers, NEW value \in CacheValues
    PROVE  /\ Stored(l, value) \in Entries \cup {None}
           /\ Stored(l, value) # None => Stored(l, value).data = value.data
  BY Typed, WriteFact DEF Stored

(* Who writes nothing has nothing written.                                  *)
LEMMA Unwriting ==
    ASSUME Shapes, NEW c \in Clients, ~Writer(c), NEW l \in Layers
    PROVE  ops[c].write[l] = "Unstarted"
  BY DEF Shapes, WriteShape, Writer, Unwritten

Single == OneWriter /\ Ahead /\ Written

(* The kinds keep one writer.                                               *)
LEMMA LeavesSingle ==
    ASSUME IInv, Shapes, Single, NEW c \in Clients, Leaves(c)
    PROVE  Single'
<1>1. /\ ops'[c] = Idle /\ Idle.pc = "Idle" /\ Idle.write = Unwritten
      /\ \A d \in Clients \ {c} : ops'[d] = ops[d]
      /\ layers' = layers
  BY DEF Leaves, Idle
<1>2. \A d \in Clients \ {c} : Writer(d) => ~Writer(c)
  BY DEF Single, OneWriter
<1>3. late' # late \/ floor' # floor => Writer(c)
  BY DEF Leaves, Writer
<1>4. OneWriter'
  BY <1>1, <1>2, <1>3 DEF Single, OneWriter, Writer
<1>5. Ahead'
  BY <1>1, <1>2, <1>3 DEF Single, Ahead, Writer
<1>6. Written'
  BY <1>1 DEF Single, Written, WrittenTo, Unwritten
<1>7. QED
  BY <1>4, <1>5, <1>6 DEF Single

LEMMA WritesSingle ==
    ASSUME IInv, Shapes, Single, NEW c \in Clients, SomeWrites(c)
    PROVE  Single'
<1>1. PICK l \in Layers, status \in {"Ok", "Error"} : Writes(c, l, status)
  BY DEF SomeWrites
<1>2. /\ \A d \in Clients \ {c} : ops'[d] = ops[d] /\ ~Writer(d)
      /\ ops'[c].pc = ops[c].pc /\ ops'[c].value = ops[c].value
      /\ late' = late /\ floor' = floor
  BY <1>1 DEF Writes, Single, OneWriter
<1>3. OneWriter' /\ Ahead'
  BY <1>2 DEF Single, OneWriter, Ahead, Writer
<1>4. ASSUME NEW k \in Layers
      PROVE  WrittenTo(c, k)'
  <2>1. CASE k = l
    <3>1. ops[c].pc = "Setting" => ops[c].value \in CacheValues
      BY Numbered
    <3>2. CASE ops[c].pc = "Setting" /\ layers'[l] = Stored(l, ops[c].value)
      BY <1>2, <2>1, <3>1, <3>2, StoredFact DEF WrittenTo
    <3>3. CASE layers'[l] = None \/ status = "Error"
      <4>1. ops'[c].write[l] = status
        BY <1>1 DEF Writes
      <4>2. QED
        BY <2>1, <3>3, <4>1 DEF WrittenTo
    <3>4. QED
      BY <1>1, <3>2, <3>3 DEF Writes
  <2>2. CASE k # l
    <3>1. /\ ops'[c].write[k] = "Ok" => ops[c].write[k] = "Ok"
          /\ layers'[k] = layers[k]
      BY <1>1, <2>2 DEF Writes
    <3>2. WrittenTo(c, k)
      BY DEF Single, Written
    <3>3. QED
      BY <1>2, <3>1, <3>2 DEF WrittenTo
  <2>3. QED
    BY <2>1, <2>2
<1>5. ASSUME NEW d \in Clients \ {c}, NEW k \in Layers
      PROVE  WrittenTo(d, k)'
  BY <1>2, Unwriting DEF WrittenTo
<1>6. QED
  BY <1>3, <1>4, <1>5 DEF Single, Written

LEMMA BeginsSingle ==
    ASSUME IInv, Shapes, Floors, Single, "overlap" \notin causes', NEW c \in Clients,
           FetchCacheable(c) \/ RefillActual(c)
    PROVE  Single'
<1>0. ops[c].ctx \in {"Direct", "Refill"} /\ floor \in Nat /\ Len(offered) \in Nat
  BY Typed DEF Operation
<1>1. PICK value \in CacheValues, ctx \in {"Direct", "Refill"}, isRefill \in BOOLEAN :
         /\ Begins(c, value, ctx, isRefill)
         /\ isRefill \/ value.data = Len(offered) + 1
  <2>1. CASE FetchCacheable(c)
    BY <1>0, <2>1, FetchBegins
  <2>2. CASE RefillActual(c)
    BY <2>2, RefillBegins
  <2>3. QED
    BY <2>1, <2>2
<1>2. /\ late = {} /\ late' = late /\ floor' = floor /\ layers' = layers
      /\ \A d \in Clients : ~Writer(d)
      /\ \A d \in Clients \ {c} : ops'[d] = ops[d]
      /\ ops'[c].pc = "Setting" /\ ops'[c].value.data = value.data
      /\ ops'[c].write = StartWrite(ctx)
  BY <1>1 DEF Begins
<1>3. floor <= value.data
  BY <1>0, <1>1 DEF Begins, Floors
<1>4. \A l \in Layers : ops'[c].write[l] # "Ok"
  BY <1>2 DEF StartWrite
<1>5. OneWriter' /\ Ahead'
  BY <1>2, <1>3 DEF OneWriter, Ahead, Writer
<1>6. Written'
  BY <1>2, <1>4, Unwriting DEF Written, WrittenTo
<1>7. QED
  BY <1>5, <1>6 DEF Single

(* Writes do not overlap unless somebody is blamed for it.                  *)
LEMMA NextSingle ==
    ASSUME IInv, Shapes, Floors, Single, [Next]_vars, "overlap" \notin causes'
    PROVE  Single'
<1>1. CASE Shrinks
  <2>1. OneWriter' /\ Ahead'
    BY <1>1 DEF Single, OneWriter, Ahead, Shrinks, Writer
  <2>2. Written'
    BY <1>1 DEF Single, Written, WrittenTo, Shrinks
  <2>3. QED
    BY <2>1, <2>2 DEF Single
<1>2. ASSUME NEW w \in late, Lands(w)
      PROVE  Single'
  <2>1. UNCHANGED ops /\ floor' = floor /\ \A c \in Clients : ~Writer(c)
    BY <1>2 DEF Single, OneWriter, Lands
  <2>2. OneWriter' /\ Ahead'
    BY <2>1 DEF OneWriter, Ahead, Writer
  <2>3. Written'
    BY <2>1, Unwriting DEF Written, WrittenTo
  <2>4. QED
    BY <2>2, <2>3 DEF Single
<1>3. ASSUME NEW c \in Clients, Looks(c)
      PROVE  Single'
  <2>1. /\ \A d \in Clients \ {c} : ops'[d] = ops[d]
        /\ ops'[c].pc \notin {"Setting", "Deleting"} /\ ops'[c].write = Unwritten
        /\ late' = late /\ floor' = floor /\ layers' = layers
    BY <1>3 DEF Looks
  <2>2. OneWriter' /\ Ahead'
    BY <2>1 DEF Single, OneWriter, Ahead, Writer
  <2>3. Written'
    BY <2>1 DEF Single, Written, WrittenTo, Unwritten
  <2>4. QED
    BY <2>2, <2>3 DEF Single
<1>4. ASSUME NEW c \in Clients, Deletes(c)
      PROVE  Single'
  <2>1. OneWriter' /\ Ahead'
    BY <1>4 DEF OneWriter, Ahead, Writer, Deletes
  <2>2. Written'
    BY <1>4, Unwriting DEF Written, WrittenTo, Deletes
  <2>3. QED
    BY <2>1, <2>2 DEF Single
<1>5. QED
  BY <1>1, <1>2, <1>3, <1>4, LeavesSingle, WritesSingle, BeginsSingle, StepKinds DEF Kinds

-----------------------------------------------------------------------------
(* What a set or a delete has done when it returns and no layer failed.     *)
LEMMA SetDone ==
    ASSUME IInv, Shapes, NEW c \in Clients, SetReturns(c), ops[c].ctx = "Direct",
           "fault" \notin causes
    PROVE  /\ \A l \in Layers : ops[c].write[l] \in {"Ok", "Pending"}
           /\ \E l \in Layers : ops[c].write[l] = "Ok"
           /\ SetOk(ops[c])
<1>1. /\ ops[c].pc = "Setting" /\ WriteDecided(ops[c]) /\ WriteShape(ops[c], causes)
      /\ Targets(ops[c].ctx) = Layers
  BY DEF SetReturns, Shapes, Targets
<1>2. \A l \in Layers : ops[c].write[l] \in {"Unstarted", "Pending", "Ok", "Error"}
  BY Typed DEF Operation
<1>3. \A l \in Layers :
         /\ ops[c].write[l] # "Error"
         /\ ops[c].write[l] = "Unstarted" <=>
                config.write = "Sequential" /\ l = L2 /\ ops[c].write[L1] # "Ok"
  BY <1>1 DEF WriteShape
<1>4. L1 \in Layers /\ L2 \in Layers /\ L1 # L2
  BY DEF Layers, L1, L2
<1>5. \/ \A l \in Layers : ops[c].write[l] # "Pending"
      \/ config.write # "Sequential" /\ \E l \in Layers : ops[c].write[l] = "Ok"
  BY <1>1 DEF WriteDecided, Racing
<1>6. \A l \in Layers : ops[c].write[l] # "Unstarted"
  BY <1>2, <1>3, <1>4, <1>5
<1>7. config.write = "Sequential" => \A l \in Layers : ops[c].write[l] = "Ok"
  BY <1>2, <1>3, <1>5, <1>6
<1>8. QED
  BY <1>1, <1>2, <1>3, <1>4, <1>5, <1>6, <1>7 DEF SetOk

(* Without a fault, a delete that returns has removed both.                 *)
LEMMA DeleteDone ==
    ASSUME IInv, Shapes, NEW c \in Clients, DeleteReturns(c), "fault" \notin causes
    PROVE  \A l \in Layers : ops[c].write[l] = "Ok"
<1>1. /\ ops[c].pc = "Deleting" /\ WriteShape(ops[c], causes)
      /\ \A l \in Layers : ops[c].write[l] # "Pending"
  BY DEF DeleteReturns, Shapes
<1>2. \A l \in Layers : ops[c].write[l] \in {"Unstarted", "Pending", "Ok", "Error"}
  BY Typed DEF Operation
<1>3. QED
  BY <1>1, <1>2 DEF WriteShape

(* The writer that leaves raises the floor to what it has written.          *)
LEMMA LeavesCurrent ==
    ASSUME IInv, Shapes, Floors, Single, Current, NEW c \in Clients, Leaves(c),
           "fault" \notin causes', "late" \notin causes'
    PROVE  Current'
<1>1. /\ ops'[c] = Idle /\ Idle.read = Unstarted
      /\ \A d \in Clients \ {c} : ops'[d] = ops[d]
      /\ layers' = layers /\ late' = {} /\ "fault" \notin causes
  BY DEF Leaves, Idle, Current
<1>2. \A d \in Clients, l \in Layers :
         ops'[d].read[l].status = "Hit" => ops'[d].floor <= ops'[d].read[l].value.data
  BY <1>1, StartFact DEF Current
<1>3. ASSUME NEW l \in Layers, layers[l] # None
      PROVE  floor' <= layers[l].data
  <2>1. floor <= layers[l].data /\ WrittenTo(c, l)
    BY <1>3 DEF Current, Single, Written
  <2>2. CASE floor' = floor
    BY <2>1, <2>2
  <2>3. CASE SetReturns(c) /\ ops[c].ctx = "Direct"
    <3>1. Left(c, config.write = "RaceOffload") = {}
      BY <1>1, <2>3 DEF SetReturns
    <3>2. ops[c].pc = "Setting"
      BY <2>3 DEF SetReturns
    <3>3. ops[c].write[l] # "Pending"
      BY <3>1, <3>2 DEF Left
    <3>4. ops[c].write[l] = "Ok"
      BY <1>1, <2>3, <3>3, SetDone
    <3>5. layers[l].data = ops[c].value.data
      BY <1>3, <2>1, <3>4 DEF WrittenTo
    <3>6. floor <= ops[c].value.data /\ floor' \in {floor, ops[c].value.data}
      BY <2>3, <3>2 DEF Single, Ahead, SetReturns
    <3>7. ops[c].value.data \in Nat
      BY <3>2, Numbered, Typed
    <3>8. QED
      BY <3>5, <3>6, <3>7, Typed
  <2>4. CASE DeleteReturns(c)
    BY <1>1, <1>3, <2>1, <2>4, DeleteDone DEF WrittenTo, DeleteReturns
  <2>5. CASE SetReturns(c) /\ ops[c].ctx # "Direct"
    BY <2>2, <2>5 DEF SetReturns
  <2>6. QED
    BY <2>3, <2>4, <2>5 DEF Leaves
<1>4. QED
  BY <1>1, <1>2, <1>3 DEF Current

(* No layer has, and no get has found, what the floor is above.             *)
LEMMA NextCurrent ==
    ASSUME IInv, Shapes, Floors, Single, Current, [Next]_vars,
           "overlap" \notin causes', "fault" \notin causes', "late" \notin causes'
    PROVE  Current'
<1>1. CASE Shrinks
  BY <1>1 DEF Shrinks, Current
<1>2. ASSUME NEW w \in late, Lands(w)
      PROVE  Current'
  BY <1>2 DEF Current
<1>3. ASSUME NEW c \in Clients, Looks(c)
      PROVE  Current'
  <2>1. /\ \A d \in Clients \ {c} : ops'[d] = ops[d]
        /\ late' = late /\ floor' = floor /\ layers' = layers
    BY <1>3 DEF Looks
  <2>2. ASSUME NEW l \in Layers, ops'[c].read[l].status = "Hit"
        PROVE  ops'[c].floor <= ops'[c].read[l].value.data
    <3>1. ops'[c].floor = ops[c].floor /\ ops[c].floor <= floor
          /\ floor \in Nat /\ ops[c].floor \in Nat
      BY <1>3, <2>2, Typed DEF Looks, Floors, Operation
    <3>2. CASE ops'[c].read[l] = ops[c].read[l]
      BY <2>2, <3>1, <3>2 DEF Current
    <3>3. CASE layers[l] # None /\ ops'[c].read[l].value.data = layers[l].data
      <4>1. floor <= layers[l].data /\ layers[l].data \in Nat
        BY <3>3, Typed DEF Current, Entries
      <4>2. QED
        BY <3>1, <3>3, <4>1
    <3>4. QED
      BY <1>3, <2>2, <3>2, <3>3 DEF Looks
  <2>3. QED
    BY <2>1, <2>2 DEF Current
<1>4. ASSUME NEW c \in Clients, Deletes(c)
      PROVE  Current'
  BY <1>4 DEF Deletes, Current
<1>5. ASSUME NEW c \in Clients, SomeWrites(c)
      PROVE  Current'
  <2>1. PICK l \in Layers, status \in {"Ok", "Error"} : Writes(c, l, status)
    BY <1>5 DEF SomeWrites
  <2>2. /\ \A d \in Clients : ops'[d].read = ops[d].read /\ ops'[d].floor = ops[d].floor
        /\ late' = late /\ floor' = floor
        /\ \A k \in Layers \ {l} : layers'[k] = layers[k]
    BY <2>1 DEF Writes
  <2>3. layers'[l] # None => floor <= layers'[l].data
    <3>1. ops[c].pc = "Setting" => ops[c].value \in CacheValues /\ floor <= ops[c].value.data
      BY Numbered DEF Single, Ahead
    <3>2. QED
      BY <2>1, <3>1, StoredFact DEF Writes, Current
  <2>4. QED
    BY <2>2, <2>3 DEF Current
<1>6. ASSUME NEW c \in Clients, FetchCacheable(c) \/ RefillActual(c)
      PROVE  Current'
  <2>1. PICK value, ctx, isRefill : Begins(c, value, ctx, isRefill)
    BY <1>6, FetchBegins, RefillBegins
  <2>2. QED
    BY <2>1 DEF Begins, Current
<1>7. QED
  BY <1>1, <1>2, <1>3, <1>4, <1>5, <1>6, LeavesCurrent, StepKinds DEF Kinds

-----------------------------------------------------------------------------
(* The layers agree, as long as no writes overlapped, no layer failed and   *)
(* no set was skipped: each kind keeps Agreed.                              *)
LEMMA LandsAgreed ==
    ASSUME IInv, Single, Agreed, NEW w \in late, Lands(w)
    PROVE  Agreed'
<1>1. \A c \in Clients : ~Writer(c)
  BY DEF Single, OneWriter
<1>2. \A c \in Clients : ~DirectSet(c) /\ ops[c].pc # "Setting" /\ ops[c].pc # "Deleting"
  BY <1>1 DEF DirectSet, Writer
<1>3. /\ late = {w} /\ w.value.data = Len(offered) /\ floor = Len(offered)
      /\ layers[Other(w.layer)] # None => layers[Other(w.layer)].data = Len(offered)
      /\ w.layer = L2 => L2Older
  BY DEF Agreed, LateIsTheNewest
<1>4. late' = {} /\ ops' = ops /\ floor' = floor /\ offered' = offered
  BY <1>3 DEF Lands
<1>5. /\ w.layer \in Layers /\ w.value \in CacheValues
      /\ Other(w.layer) \in Layers \ {w.layer} /\ \A l \in Layers : l \in {w.layer, Other(w.layer)}
  BY Numbered DEF Other, Layers, L1, L2
<1>6. \A l \in Layers : layers'[l] # None => layers'[l].data = Len(offered)
  BY <1>3, <1>5, StoredFact DEF Lands
<1>7. AgreeUnlessSet'
  BY <1>6 DEF AgreeUnlessSet, Agree, Layers
<1>8. SetsTheNewest' /\ RefillsTheSame' /\ LateIsTheNewest'
  BY <1>2, <1>4 DEF SetsTheNewest, RefillsTheSame, LateIsTheNewest, DirectSet
<1>9. ASSUME NEW c \in Clients
      PROVE  FoundIsThere(c)'
  <2>1. CASE w.layer = L2
    BY <1>3, <1>4, <2>1 DEF L2Older, FoundIsThere
  <2>2. CASE w.layer # L2
    <3>1. layers'[L2] = layers[L2]
      BY <2>2 DEF Lands, Layers
    <3>2. FoundIsThere(c)
      BY DEF Agreed
    <3>3. QED
      BY <1>2, <1>4, <3>1, <3>2 DEF FoundIsThere
  <2>3. QED
    BY <2>1, <2>2
<1>10. QED
  BY <1>7, <1>8, <1>9 DEF Agreed

LEMMA ShrinksAgreed ==
    ASSUME IInv, Agreed, Shrinks, "fault" \notin causes'
    PROVE  Agreed'
<1>1. /\ late' = late /\ ops' = ops /\ floor' = floor /\ offered' = offered
      /\ \A l \in Layers : layers'[l] = layers[l] \/ layers'[l] = None
  BY DEF Shrinks
<1>2. L1 \in Layers /\ L2 \in Layers /\ \A w \in late : Other(w.layer) \in Layers
  BY DEF Layers, Other
<1>3. L2Older => L2Older'
  BY <1>1, <1>2 DEF L2Older
<1>4. AgreeUnlessSet'
  BY <1>1, <1>2 DEF Agreed, AgreeUnlessSet, Agree, DirectSet
<1>5. SetsTheNewest'
  BY <1>1, <1>3 DEF Agreed, SetsTheNewest, DirectSet
<1>6. RefillsTheSame'
  BY <1>1, <1>2 DEF Agreed, RefillsTheSame
<1>7. LateIsTheNewest'
  BY <1>1, <1>2, <1>3 DEF Agreed, LateIsTheNewest
<1>8. \A c \in Clients : FoundIsThere(c)'
  BY <1>1, <1>2 DEF Agreed, FoundIsThere, DirectSet
<1>9. QED
  BY <1>4, <1>5, <1>6, <1>7, <1>8 DEF Agreed

LEMMA LooksAgreed ==
    ASSUME IInv, Agreed, NEW c \in Clients, Looks(c)
    PROVE  Agreed'
<1>1. /\ \A d \in Clients \ {c} : ops'[d] = ops[d]
      /\ layers' = layers /\ late' = late /\ floor' = floor /\ offered' = offered
  BY DEF Looks
<1>2. /\ ops[c].pc \notin {"Setting", "Deleting"} /\ ops'[c].pc \notin {"Setting", "Deleting"}
      /\ \A d \in Clients : DirectSet(d)' <=> DirectSet(d)
      /\ \A d \in Clients : ops'[d].pc = "Deleting" <=> ops[d].pc = "Deleting"
  BY <1>1 DEF Looks, Writer, DirectSet
<1>3. L2 \in Layers
  BY DEF Layers
<1>4. ops'[c].read[L2].status = "Hit" =>
         /\ ops'[c].floor = ops[c].floor
         /\ \/ ops'[c].read[L2] = ops[c].read[L2]
            \/ layers[L2] # None /\ ops'[c].read[L2].value.data = layers[L2].data
  BY <1>3 DEF Looks
<1>5. ASSUME L2Older
      PROVE  L2Older'
  <2>1. \A d \in Clients : ops'[d].read[L2].status = "Hit" =>
            ops'[d].read[L2].value.data < Len(offered)
    BY <1>1, <1>4, <1>5 DEF L2Older
  <2>2. QED
    BY <1>1, <1>5, <2>1 DEF L2Older
<1>6. AgreeUnlessSet'
  BY <1>1, <1>2 DEF Agreed, AgreeUnlessSet, Agree
<1>7. SetsTheNewest'
  BY <1>1, <1>2, <1>5 DEF Agreed, SetsTheNewest, DirectSet
<1>8. RefillsTheSame'
  BY <1>1, <1>2 DEF Agreed, RefillsTheSame
<1>9. LateIsTheNewest'
  BY <1>1, <1>5 DEF Agreed, LateIsTheNewest
<1>10. ASSUME NEW d \in Clients \ {c}
       PROVE  FoundIsThere(d)'
  <2>1. FoundIsThere(d) /\ ops'[d] = ops[d]
    BY <1>1 DEF Agreed
  <2>2. QED
    BY <1>1, <1>2, <2>1 DEF FoundIsThere
<1>11. FoundIsThere(c)'
  <2>1. FoundIsThere(c)
    BY DEF Agreed
  <2>2. QED
    BY <1>1, <1>2, <1>4, <2>1 DEF FoundIsThere
<1>12. QED
  BY <1>6, <1>7, <1>8, <1>9, <1>10, <1>11 DEF Agreed

LEMMA DeletesAgreed ==
    ASSUME IInv, Agreed, NEW c \in Clients, Deletes(c), "overlap" \notin causes'
    PROVE  Agreed'
<1>1. /\ \A d \in Clients \ {c} : ops'[d] = ops[d]
      /\ layers' = layers /\ late' = late /\ late = {}
      /\ \A d \in Clients : ~Writer(d)
      /\ ops'[c].pc = "Deleting"
  BY DEF Deletes
<1>2. \A d \in Clients : ops'[d].pc # "Setting"
  BY <1>1 DEF Writer
<1>3. AgreeUnlessSet'
  BY <1>1 DEF Agreed, AgreeUnlessSet, Agree, DirectSet, Writer
<1>4. SetsTheNewest' /\ RefillsTheSame' /\ LateIsTheNewest'
  BY <1>1, <1>2 DEF SetsTheNewest, RefillsTheSame, LateIsTheNewest, DirectSet
<1>5. \A d \in Clients : FoundIsThere(d)'
  BY <1>1 DEF FoundIsThere
<1>6. QED
  BY <1>3, <1>4, <1>5 DEF Agreed

LEMMA FetchAgreed ==
    ASSUME IInv, Agreed, NEW c \in Clients, FetchCacheable(c),
           "overlap" \notin causes', "skipped" \notin causes'
    PROVE  Agreed'
<1>1. PICK value \in CacheValues :
         /\ Begins(c, value, ops[c].ctx, FALSE)
         /\ value.data = Len(offered) + 1 /\ Len(offered') = Len(offered) + 1
  BY FetchBegins
<1>2. /\ \A d \in Clients \ {c} : ops'[d] = ops[d] /\ ~Writer(d)
      /\ layers' = layers /\ late' = {}
      /\ ops'[c].pc = "Setting" /\ ops'[c].value.data = value.data /\ ops'[c].ctx = ops[c].ctx
      /\ \A l \in Layers : ops'[c].read[l].status # "Hit"
      /\ ops[c].ctx # "Refill" /\ ops[c].ctx \in {"Direct", "Refill"}
  BY <1>1, Typed DEF Begins, Operation
<1>3. DirectSet(c)'
  BY <1>2 DEF DirectSet
<1>4. Len(offered) \in Nat /\ L2 \in Layers
  BY Typed DEF Layers
<1>5. L2Older'
  <2>1. layers'[L2] # None => layers'[L2].data < Len(offered')
    BY <1>1, <1>2, <1>4, Numbered
  <2>2. ASSUME NEW d \in Clients, ops'[d].read[L2].status = "Hit"
        PROVE  ops'[d].read[L2].value.data < Len(offered')
    <3>1. d # c /\ ops'[d] = ops[d]
      BY <1>2, <1>4, <2>2
    <3>2. ops[d].read[L2].value.data \in 1..Len(offered)
      BY <1>4, <2>2, <3>1, Numbered
    <3>3. QED
      BY <1>1, <1>4, <3>1, <3>2
  <2>3. QED
    BY <2>1, <2>2 DEF L2Older
<1>6. AgreeUnlessSet' /\ \A d \in Clients : FoundIsThere(d)'
  BY <1>3 DEF AgreeUnlessSet, FoundIsThere
<1>7. SetsTheNewest'
  BY <1>1, <1>2, <1>5 DEF SetsTheNewest, DirectSet, Writer
<1>8. RefillsTheSame' /\ LateIsTheNewest'
  BY <1>2 DEF RefillsTheSame, LateIsTheNewest, Writer
<1>9. QED
  BY <1>6, <1>7, <1>8 DEF Agreed

LEMMA RefillAgreed ==
    ASSUME IInv, Agreed, NEW c \in Clients, RefillActual(c), "overlap" \notin causes'
    PROVE  Agreed'
<1>1. /\ Begins(c, Found(c), "Refill", TRUE) /\ offered' = offered
      /\ ops[c].read[L2].status = "Hit" /\ Found(c) = ops[c].read[L2].value
      /\ Found(c) \in CacheValues
  BY RefillBegins
<1>2. /\ \A d \in Clients \ {c} : ops'[d] = ops[d]
      /\ \A d \in Clients : ~Writer(d)
      /\ layers' = layers /\ late = {} /\ late' = {} /\ floor' = floor
      /\ ops'[c].pc = "Setting" /\ ops'[c].value.data = Found(c).data /\ ops'[c].ctx = "Refill"
      /\ \A l \in Layers : ops'[c].read[l].status # "Hit"
      /\ ops[c].floor = floor /\ floor <= Found(c).data
  BY <1>1 DEF Begins
<1>3. \A d \in Clients : ~DirectSet(d) /\ ops[d].pc # "Deleting" /\ ~DirectSet(d)'
  BY <1>2 DEF DirectSet, Writer
<1>4. floor \in Nat /\ Found(c).data \in Nat /\ L2 \in Layers
  BY <1>1, Typed DEF Layers, CacheValues
<1>5. AgreeUnlessSet'
  BY <1>2, <1>3 DEF Agreed, AgreeUnlessSet, Agree
<1>6. SetsTheNewest' /\ LateIsTheNewest'
  BY <1>2, <1>3 DEF SetsTheNewest, LateIsTheNewest
<1>7. RefillsTheSame'
  <2>1. layers[L2] # None => layers[L2].data = Found(c).data
    <3>1. FoundIsThere(c)
      BY DEF Agreed
    <3>2. QED
      BY <1>1, <1>2, <1>3, <1>4, <3>1 DEF FoundIsThere
  <2>2. QED
    BY <1>2, <2>1 DEF RefillsTheSame, Writer
<1>8. ASSUME NEW d \in Clients \ {c}
      PROVE  FoundIsThere(d)'
  <2>1. FoundIsThere(d) /\ ops'[d] = ops[d]
    BY <1>2 DEF Agreed
  <2>2. QED
    BY <1>2, <1>3, <2>1 DEF FoundIsThere
<1>9. FoundIsThere(c)'
  BY <1>2, <1>4 DEF FoundIsThere
<1>10. QED
  BY <1>5, <1>6, <1>7, <1>8, <1>9 DEF Agreed

LEMMA WritesAgreed ==
    ASSUME IInv, Shapes, Single, Agreed, NEW c \in Clients, SomeWrites(c), "fault" \notin causes'
    PROVE  Agreed'
<1>1. PICK l \in Layers, status \in {"Ok", "Error"} : Writes(c, l, status)
  BY DEF SomeWrites
<1>2. /\ status = "Ok" /\ Writer(c) /\ ops[c].write[l] = "Pending"
      /\ late' = late /\ floor' = floor /\ offered' = offered
      /\ \A d \in Clients \ {c} : ops'[d] = ops[d]
      /\ ops'[c].pc = ops[c].pc /\ ops'[c].ctx = ops[c].ctx /\ ops'[c].value = ops[c].value
      /\ ops'[c].read = ops[c].read /\ ops'[c].floor = ops[c].floor
      /\ \A k \in Layers \ {l} : layers'[k] = layers[k]
  BY <1>1 DEF Writes
<1>3. late = {} /\ \A d \in Clients \ {c} : ~Writer(d)
  BY <1>2 DEF Single, OneWriter
<1>4. LateIsTheNewest' /\ (\A d \in Clients \ {c} : ops'[d].pc \notin {"Setting", "Deleting"})
  BY <1>2, <1>3 DEF LateIsTheNewest, Writer
<1>5. L1 \in Layers /\ L2 \in Layers /\ L1 # L2 /\ \A k \in Layers : k = L1 \/ k = L2
  BY DEF Layers, L1, L2
<1>6. CASE ops[c].pc = "Deleting"
  <2>1. layers'[l] = None
    BY <1>1, <1>2, <1>6 DEF Writes
  <2>2. AgreeUnlessSet'
    BY <1>5, <2>1 DEF AgreeUnlessSet, Agree
  <2>3. SetsTheNewest' /\ RefillsTheSame' /\ \A d \in Clients : FoundIsThere(d)'
    BY <1>2, <1>4, <1>6 DEF SetsTheNewest, RefillsTheSame, FoundIsThere, DirectSet
  <2>4. QED
    BY <1>4, <2>2, <2>3 DEF Agreed
<1>7. ASSUME ops[c].pc = "Setting"
      PROVE  layers'[l] # None => layers'[l].data = ops[c].value.data
  <2>1. layers'[l] = Stored(l, ops[c].value) /\ ops[c].value \in CacheValues
    BY <1>1, <1>2, <1>7, Numbered DEF Writes
  <2>2. QED
    BY <2>1, StoredFact
<1>8. CASE DirectSet(c)
  <2>1. DirectSet(c)'
    BY <1>2, <1>8 DEF DirectSet
  <2>2. AgreeUnlessSet' /\ \A d \in Clients : FoundIsThere(d)'
    BY <2>1 DEF AgreeUnlessSet, FoundIsThere
  <2>3. RefillsTheSame'
    BY <1>2, <1>4, <1>8 DEF RefillsTheSame, DirectSet
  <2>4. ASSUME ops'[c].write[L2] # "Ok"
        PROVE  L2Older'
    <3>1. l # L2
      BY <1>1, <1>2, <2>4 DEF Writes
    <3>2. ops[c].write[L2] # "Ok"
      BY <1>1, <1>5, <2>4, <3>1 DEF Writes
    <3>3. L2Older
      BY <1>8, <3>2 DEF Agreed, SetsTheNewest
    <3>4. \A d \in Clients : ops'[d].read = ops[d].read
      BY <1>2
    <3>5. QED
      BY <1>2, <1>5, <3>1, <3>3, <3>4 DEF L2Older
  <2>5. ops[c].value.data = Len(offered)
    BY <1>8 DEF Agreed, SetsTheNewest
  <2>6. SetsTheNewest'
    BY <1>2, <1>4, <2>4, <2>5 DEF SetsTheNewest, DirectSet
  <2>7. QED
    BY <1>4, <2>2, <2>3, <2>6 DEF Agreed
<1>9. CASE ops[c].pc = "Setting" /\ ~DirectSet(c)
  <2>1. ops[c].ctx = "Refill"
    BY <1>9, Typed DEF DirectSet, Operation
  <2>2. l = L1 /\ layers'[L2] = layers[L2]
    <3>1. l \in Targets(ops[c].ctx)
      BY <1>2, <1>9 DEF Shapes, WriteShape
    <3>2. QED
      BY <1>2, <1>5, <2>1, <3>1 DEF Targets
  <2>3. layers[L2] # None => layers[L2].data = ops[c].value.data
    BY <1>9, <2>1 DEF Agreed, RefillsTheSame
  <2>4. AgreeUnlessSet'
    BY <1>7, <1>9, <2>2, <2>3 DEF AgreeUnlessSet, Agree
  <2>5. SetsTheNewest' /\ RefillsTheSame'
    BY <1>2, <1>4, <2>1, <2>2, <2>3 DEF SetsTheNewest, RefillsTheSame, DirectSet
  <2>6. ASSUME NEW d \in Clients
        PROVE  FoundIsThere(d)'
    <3>1. /\ FoundIsThere(d)
          /\ ops'[d].read = ops[d].read /\ ops'[d].floor = ops[d].floor
      BY <1>2 DEF Agreed
    <3>2. \A b \in Clients : DirectSet(b)' = DirectSet(b) /\ ops'[b].pc = ops[b].pc
      BY <1>2 DEF DirectSet
    <3>3. QED
      BY <1>2, <2>2, <3>1, <3>2 DEF FoundIsThere
  <2>7. QED
    BY <1>4, <2>4, <2>5, <2>6 DEF Agreed
<1>10. QED
  BY <1>2, <1>6, <1>8, <1>9 DEF Writer

LEMMA LeavesAgreed ==
    ASSUME IInv, Shapes, Floors, Single, Agreed, NEW c \in Clients, Leaves(c),
           "fault" \notin causes'
    PROVE  Agreed'
<1>1. /\ ops'[c] = Idle /\ Idle.pc = "Idle" /\ Idle.read = Unstarted
      /\ \A d \in Clients \ {c} : ops'[d] = ops[d]
      /\ layers' = layers /\ offered' = offered /\ "fault" \notin causes
      /\ SetReturns(c) \/ DeleteReturns(c)
  BY DEF Leaves, Idle
<1>2. Writer(c)
  BY <1>1 DEF SetReturns, DeleteReturns, Writer
<1>3. late = {} /\ (\A d \in Clients \ {c} : ~Writer(d))
  BY <1>2 DEF Single, OneWriter
<1>4. \A d \in Clients : ops'[d].pc \notin {"Setting", "Deleting"}
  BY <1>1, <1>3 DEF Writer
<1>5. SetsTheNewest' /\ RefillsTheSame' /\ \A d \in Clients : ~DirectSet(d)'
  BY <1>4 DEF SetsTheNewest, RefillsTheSame, DirectSet
<1>6. /\ L1 \in Layers /\ L2 \in Layers /\ L1 # L2 /\ \A k \in Layers : k = L1 \/ k = L2
      /\ \A k \in Layers : Other(k) \in Layers /\ Other(k) # k
      /\ \A l \in Layers : Idle.read[l].status # "Hit"
  BY <1>1, StartFact DEF Layers, Other, L1, L2
<1>7. \A l \in Layers : WrittenTo(c, l)
  BY DEF Single, Written
<1>8. CASE DeleteReturns(c)
  <2>1. \A l \in Layers : layers'[l] = None
    BY <1>1, <1>7, <1>8, DeleteDone DEF WrittenTo, DeleteReturns
  <2>2. late' = {}
    BY <1>3, <1>8 DEF DeleteReturns
  <2>3. QED
    BY <1>5, <1>6, <2>1, <2>2
       DEF Agreed, AgreeUnlessSet, Agree, LateIsTheNewest, FoundIsThere
<1>9. CASE SetReturns(c) /\ ops[c].ctx # "Direct"
  <2>1. /\ ops[c].pc = "Setting" /\ WriteDecided(ops[c]) /\ floor' = floor
        /\ late' = late \cup Left(c, config.write = "RaceOffload")
    BY <1>9 DEF SetReturns
  <2>2. \A l \in Layers : ops[c].write[l] # "Pending"
    BY <1>9, <2>1 DEF WriteDecided, Racing
  <2>3. late' = {}
    BY <1>3, <2>1, <2>2 DEF Left
  <2>4. \A d \in Clients : ~DirectSet(d) /\ ops[d].pc # "Deleting"
    BY <1>3, <1>9, <2>1 DEF DirectSet, Writer
  <2>5. AgreeUnlessSet' /\ LateIsTheNewest'
    BY <1>1, <1>3, <2>3, <2>4 DEF Agreed, AgreeUnlessSet, Agree, LateIsTheNewest
  <2>6. ASSUME NEW d \in Clients \ {c}
        PROVE  FoundIsThere(d)'
    <3>1. FoundIsThere(d) /\ ops'[d] = ops[d]
      BY <1>1 DEF Agreed
    <3>2. QED
      BY <1>1, <2>1, <2>4, <3>1 DEF FoundIsThere
  <2>7. FoundIsThere(c)'
    BY <1>1, <1>6 DEF FoundIsThere
  <2>8. QED
    BY <1>5, <2>5, <2>6, <2>7 DEF Agreed
<1>10. CASE SetReturns(c) /\ ops[c].ctx = "Direct"
  <2> DEFINE value == ops[c].value
  <2>1. /\ DirectSet(c) /\ ops[c].pc = "Setting"
        /\ late' = late \cup Left(c, config.write = "RaceOffload")
    BY <1>10 DEF SetReturns, DirectSet
  <2>2. /\ \A l \in Layers : ops[c].write[l] \in {"Ok", "Pending"}
        /\ \E l \in Layers : ops[c].write[l] = "Ok"
        /\ SetOk(ops[c])
    BY <1>1, <1>10, SetDone
  <2>3. /\ value.data = Len(offered) /\ floor <= value.data
        /\ ops[c].write[L2] # "Ok" => L2Older
    BY <2>1 DEF Agreed, SetsTheNewest, Single, Ahead
  <2>4. floor' = Len(offered)
    BY <1>10, <2>2, <2>3, Typed DEF SetReturns
  <2>5. \A l \in Layers : ops[c].write[l] = "Ok" /\ layers[l] # None =>
            layers[l].data = Len(offered)
    BY <1>7, <2>3 DEF WrittenTo
  <2>6. L2Older => L2Older'
    BY <1>1, <1>6 DEF L2Older
  <2>7. ASSUME NEW d \in Clients
        PROVE  FoundIsThere(d)'
    <3>1. CASE d = c
      BY <1>1, <1>6, <3>1 DEF FoundIsThere
    <3>2. CASE d # c
      <4>1. ops'[d] = ops[d]
        BY <1>1, <3>2
      <4>2. ASSUME ops[d].read[L2].status = "Hit", layers[L2] # None
            PROVE  ops[d].read[L2].value.data = layers[L2].data
                   \/ ops[d].read[L2].value.data < floor'
        <5>1. ops[d].read[L2].value.data \in 1..Len(offered) /\ Len(offered) \in Nat
          BY <1>6, <4>2, Numbered, Typed
        <5>2. CASE ops[c].write[L2] = "Ok"
          BY <1>6, <2>4, <2>5, <4>2, <5>1, <5>2
        <5>3. CASE ops[c].write[L2] # "Ok"
          BY <2>3, <2>4, <4>2, <5>3 DEF L2Older
        <5>4. QED
          BY <5>2, <5>3
      <4>3. QED
        BY <1>1, <4>1, <4>2 DEF FoundIsThere
    <3>3. QED
      BY <3>1, <3>2
  <2>8. CASE \A l \in Layers : ops[c].write[l] = "Ok"
    <3>1. late' = {}
      BY <1>3, <2>1, <2>8 DEF Left
    <3>2. Agree'
      BY <1>1, <1>6, <2>5, <2>8 DEF Agree
    <3>3. QED
      BY <1>5, <2>7, <3>1, <3>2 DEF Agreed, AgreeUnlessSet, LateIsTheNewest
  <2>9. ASSUME NEW l \in Layers, ops[c].write[l] = "Pending"
        PROVE  Agreed'
    <3> DEFINE w == [layer |-> l, value |-> value, offloaded |-> config.write = "RaceOffload"]
    <3>1. ops[c].write[Other(l)] = "Ok" /\ \A k \in Layers : k = l \/ k = Other(l)
      BY <1>6, <2>2, <2>9
    <3>2. late' = {w}
      BY <1>3, <2>1, <2>9, <3>1 DEF Left
    <3>3. w.layer = l /\ w.value = value
      OBVIOUS
    <3> HIDE DEF w
    <3>4. layers[Other(l)] # None => layers[Other(l)].data = Len(offered)
      BY <1>6, <2>5, <3>1
    <3>5. l = L2 => L2Older'
      BY <2>3, <2>6, <2>9
    <3>6. LateIsTheNewest'
      BY <1>1, <2>3, <2>4, <3>2, <3>3, <3>4, <3>5 DEF LateIsTheNewest
    <3>7. AgreeUnlessSet'
      BY <3>2 DEF AgreeUnlessSet
    <3>8. QED
      BY <1>5, <2>7, <3>6, <3>7 DEF Agreed
  <2>10. QED
    BY <2>2, <2>8, <2>9
<1>11. QED
  BY <1>1, <1>8, <1>9, <1>10

LEMMA NextAgreed ==
    ASSUME IInv, Shapes, Floors, Single, Agreed, [Next]_vars,
           "overlap" \notin causes', "fault" \notin causes', "skipped" \notin causes'
    PROVE  Agreed'
<1>1. ASSUME NEW c \in Clients, Kinds(c)
      PROVE  Agreed'
  BY <1>1, LooksAgreed, DeletesAgreed, LeavesAgreed, WritesAgreed, FetchAgreed, RefillAgreed
     DEF Kinds
<1>2. QED
  BY <1>1, StepKinds, ShrinksAgreed, LandsAgreed

-----------------------------------------------------------------------------
(* What a store makes of a value, and for how long.                         *)
LEMMA StoredTimeless ==
    ASSUME IInv, NEW l \in Layers, NEW value \in CacheValues, value.expire = None,
           layers[l] # None => layers[l].until = None
    PROVE  /\ Stored(l, value) # None
           /\ Stored(l, value).until = None /\ Stored(l, value).expire = None
<1> DEFINE old == layers[l]
<1>1. config.store[l] \in Stores /\ Ttl(value, now) = None /\ WholeSeconds(value, now) = None
  BY Typed DEF Ttl, WholeSeconds
<1>2. OldField(old, "until") = None
  BY DEF OldField
<1>3. /\ MokaWrite(value).until = None /\ MokaWrite(value).expire = None
      /\ FeOxDbWrite(value, now).until = None /\ FeOxDbWrite(value, now).expire = None
      /\ RedisWrite(old, value, now).until = None /\ RedisWrite(old, value, now).expire = None
  BY <1>1, <1>2 DEF MokaWrite, FeOxDbWrite, RedisWrite
<1>4. ASSUME NEW entry \in Entries, entry.until = None
      PROVE  KeptAt(entry, now) = entry /\ entry # None
  BY <1>4, StorageAssumption DEF KeptAt, Passed
<1>5. /\ MokaWrite(value) \in Entries /\ FeOxDbWrite(value, now) \in Entries
      /\ RedisWrite(old, value, now) \in Entries
  <2>1. value.data \in Nat /\ value.expire \in Times /\ value.stale \in Times
    BY DEF CacheValues
  <2>2. None \in Times /\ OldField(old, "stale") \in Times
    BY Typed DEF OldField, Entries, Times
  <2>3. QED
    BY <1>1, <1>2, <2>1, <2>2 DEF MokaWrite, FeOxDbWrite, RedisWrite, Entries
<1>6. \/ Stored(l, value) = KeptAt(MokaWrite(value), now)
      \/ Stored(l, value) = KeptAt(FeOxDbWrite(value, now), now)
      \/ Stored(l, value) = KeptAt(RedisWrite(old, value, now), now)
  BY <1>1 DEF Stored, Write, Stores
<1>7. QED
  BY <1>3, <1>4, <1>5, <1>6

(* An entry is kept for what the value has left, save less than a second.   *)
LEMMA StoredLasts ==
    ASSUME IInv, NEW l \in Layers, NEW value \in CacheValues,
           value.expire = None => (layers[l] # None => layers[l].until = None)
    PROVE  Short(value, now) \/ Lasting(value, Stored(l, value))
<1> DEFINE old == layers[l]
<1>1. config.store[l] \in Stores /\ now \in Nat /\ SECOND \in Nat \ {0} /\ None \notin Nat
      /\ value.expire \in Nat \cup {None}
  BY Typed, CacheValueAssumption DEF CacheValues, Times
<1>2. CASE value.expire = None
  <2>1. Stored(l, value) # None /\ Stored(l, value).until = None
    BY <1>2, StoredTimeless
  <2>2. QED
    BY <2>1, StoredFact DEF Lasting
<1>3. CASE value.expire # None /\ value.expire < now + SECOND
  BY <1>3 DEF Short
<1>4. CASE value.expire # None /\ value.expire >= now + SECOND
  <2> DEFINE whole == WholeSeconds(value, now)
  <2>1. Ttl(value, now) # None
    <3>1. value.expire - now \in Nat
      BY <1>1, <1>4
    <3>2. (value.expire - now) \div SECOND \in Nat
      BY <1>1, <3>1, Division
    <3>3. QED
      BY <1>1, <1>4, <3>2 DEF Ttl
  <2>2. whole \in Nat /\ value.expire < whole + SECOND
    <3>1. /\ Ttl(value, now) \in Nat
          /\ value.expire < now + SECOND * Ttl(value, now) + SECOND
      BY <1>1, <2>1, TtlFact
    <3>2. SECOND * Ttl(value, now) \in Nat
      BY <1>1, <3>1
    <3>3. whole = now + SECOND * Ttl(value, now)
      BY <2>1 DEF WholeSeconds
    <3>4. QED
      BY <1>1, <3>1, <3>2, <3>3
  <2> HIDE DEF whole
  <2>3. whole > now /\ value.expire > now /\ value.expire < value.expire + SECOND
    BY <1>1, <1>4, <2>2
  <2>4. /\ MokaWrite(value).until = value.expire
        /\ FeOxDbWrite(value, now).until = whole
        /\ RedisWrite(old, value, now).until = whole
    BY <2>1 DEF MokaWrite, FeOxDbWrite, RedisWrite, whole
  <2>5. \/ Stored(l, value) = KeptAt(MokaWrite(value), now)
        \/ Stored(l, value) = KeptAt(FeOxDbWrite(value, now), now)
        \/ Stored(l, value) = KeptAt(RedisWrite(old, value, now), now)
    BY <1>1 DEF Stored, Write, Stores
  <2>6. /\ MokaWrite(value) # None /\ FeOxDbWrite(value, now) # None
        /\ RedisWrite(old, value, now) # None
    <3>1. value.data \in Nat /\ value.expire \in Times /\ value.stale \in Times
      BY DEF CacheValues
    <3>2. whole \in Times /\ OldField(old, "stale") \in Times
      BY <2>2, Typed DEF OldField, Entries, Times
    <3>3. /\ MokaWrite(value) \in Entries /\ FeOxDbWrite(value, now) \in Entries
          /\ RedisWrite(old, value, now) \in Entries
      BY <2>1, <3>1, <3>2 DEF MokaWrite, FeOxDbWrite, RedisWrite, Entries, whole
    <3>4. QED
      BY <3>3, StorageAssumption
  <2>7. /\ KeptAt(MokaWrite(value), now) = MokaWrite(value)
        /\ KeptAt(FeOxDbWrite(value, now), now) = FeOxDbWrite(value, now)
        /\ KeptAt(RedisWrite(old, value, now), now) = RedisWrite(old, value, now)
    BY <1>1, <1>4, <2>2, <2>3, <2>4, <2>6 DEF KeptAt, Passed
  <2>8. /\ Stored(l, value) # None
        /\ Stored(l, value).until # None /\ value.expire < Stored(l, value).until + SECOND
    BY <1>1, <1>4, <2>2, <2>3, <2>4, <2>5, <2>6, <2>7
  <2>9. Stored(l, value).data = value.data
    BY <2>8, StoredFact
  <2>10. QED
    BY <1>4, <2>8, <2>9 DEF Lasting
<1>5. QED
  BY <1>1, <1>2, <1>3, <1>4

(* What has no time gets none. *)
LEMMA NextTimeless ==
    ASSUME IInv, Shapes, TimelessEverywhere, Timeless, [Next]_vars
    PROVE  TimelessEverywhere'
<1>1. CASE Shrinks
  BY <1>1 DEF Shrinks, TimelessEverywhere
<1>2. ASSUME NEW w \in late, Lands(w)
      PROVE  TimelessEverywhere'
  <2>1. w.layer \in Layers /\ w.value \in CacheValues /\ w.value.expire = None
    BY Numbered DEF TimelessEverywhere
  <2>2. Stored(w.layer, w.value).until = None /\ Stored(w.layer, w.value).expire = None
    BY <2>1, StoredTimeless DEF TimelessEverywhere
  <2>3. \A l \in Layers : layers'[l] # None => layers'[l].until = None /\ layers'[l].expire = None
    BY <1>2, <2>2 DEF Lands, TimelessEverywhere
  <2>4. QED
    BY <1>2, <2>3 DEF Lands, TimelessEverywhere
<1>3. ASSUME NEW c \in Clients, Looks(c)
      PROVE  TimelessEverywhere'
  <2>1. /\ \A d \in Clients \ {c} : ops'[d] = ops[d]
        /\ ops'[c].value = None /\ layers' = layers /\ late' = late
    BY <1>3 DEF Looks
  <2>2. \A l \in Layers : ops'[c].read[l].status = "Hit" => ops'[c].read[l].value.expire = None
    BY <1>3 DEF Looks, TimelessEverywhere
  <2>3. QED
    BY <2>1, <2>2 DEF TimelessEverywhere
<1>4. ASSUME NEW c \in Clients, Deletes(c)
      PROVE  TimelessEverywhere'
  BY <1>4 DEF Deletes, TimelessEverywhere
<1>5. ASSUME NEW c \in Clients, Leaves(c)
      PROVE  TimelessEverywhere'
  <2>1. /\ \A d \in Clients \ {c} : ops'[d] = ops[d]
        /\ ops'[c].value = None /\ ops'[c].read = Unstarted /\ layers' = layers
    BY <1>5 DEF Leaves, Idle
  <2>2. \A w \in late' : w.value.expire = None
    <3>1. ops[c].pc = "Setting" => ops[c].value # None
      BY Typed DEF OpOK
    <3>2. QED
      BY <1>5, <3>1 DEF Leaves, TimelessEverywhere
  <2>3. QED
    BY <2>1, <2>2, StartFact DEF TimelessEverywhere
<1>6. ASSUME NEW c \in Clients, SomeWrites(c)
      PROVE  TimelessEverywhere'
  <2>1. PICK l \in Layers, status \in {"Ok", "Error"} : Writes(c, l, status)
    BY <1>6 DEF SomeWrites
  <2>2. /\ \A d \in Clients : ops'[d].read = ops[d].read /\ ops'[d].value = ops[d].value
        /\ late' = late /\ \A k \in Layers \ {l} : layers'[k] = layers[k]
    BY <2>1 DEF Writes
  <2>3. layers'[l] # None => layers'[l].until = None /\ layers'[l].expire = None
    <3>1. CASE ops[c].pc = "Setting" /\ layers'[l] = Stored(l, ops[c].value)
      <4>1. ops[c].value \in CacheValues /\ ops[c].value # None
        BY <3>1, Numbered, Typed DEF OpOK
      <4>2. ops[c].value.expire = None
        BY <4>1 DEF TimelessEverywhere
      <4>3. QED
        BY <3>1, <4>1, <4>2, StoredTimeless DEF TimelessEverywhere
    <3>2. CASE layers'[l] = None \/ layers'[l] = layers[l]
      BY <3>2 DEF TimelessEverywhere
    <3>3. QED
      BY <2>1, <3>1, <3>2 DEF Writes
  <2>4. QED
    BY <2>2, <2>3 DEF TimelessEverywhere
<1>7. ASSUME NEW c \in Clients, FetchCacheable(c) \/ RefillActual(c)
      PROVE  TimelessEverywhere'
  <2>1. PICK value \in CacheValues, ctx \in {"Direct", "Refill"}, isRefill \in BOOLEAN :
           /\ Begins(c, value, ctx, isRefill)
           /\ config.ttl = None => value.expire = None
    <3>1. CASE FetchCacheable(c)
      <4>1. ops[c].ctx \in {"Direct", "Refill"}
        BY Typed DEF Operation
      <4>2. QED
        BY <3>1, <4>1, FetchBegins
    <3>2. CASE RefillActual(c)
      <4>1. /\ Begins(c, Found(c), "Refill", TRUE) /\ Found(c) \in CacheValues
            /\ ops[c].read[L2].status = "Hit" /\ Found(c) = ops[c].read[L2].value
        BY <3>2, RefillBegins
      <4>2. Found(c).expire = None
        BY <4>1 DEF TimelessEverywhere, Layers
      <4>3. QED
        BY <4>1, <4>2
    <3>3. QED
      BY <1>7, <3>1, <3>2
  <2>2. ops'[c].value.expire = None
    BY <2>1 DEF Begins, Timeless
  <2>3. QED
    BY <2>1, <2>2 DEF Begins, TimelessEverywhere
<1>8. QED
  BY <1>1, <1>2, <1>3, <1>4, <1>5, <1>6, <1>7, StepKinds DEF Kinds

(* And a set of a value without a time is one of a service without them.    *)
LEMMA NextNoTimes ==
    ASSUME IInv, Shapes, NoTimes, [Next]_vars
    PROVE  NoTimes'
<1>1. UNCHANGED config
  BY CausesGrow
<1>2. Timeless' <=> Timeless
  BY <1>1 DEF Timeless
<1>3. Timeless => TimelessEverywhere'
  BY NextTimeless DEF NoTimes
<1>4. ASSUME NEW c \in Clients, (DirectSet(c) /\ ops[c].value.expire = None)'
      PROVE  Timeless
  <2>1. DirectSet(c) /\ ops[c].value.expire = None => Timeless
    BY DEF NoTimes
  <2>2. ASSUME NEW d \in Clients, Kinds(d)
        PROVE  Timeless
    <3>1. CASE d # c
      <4>1. ops'[c] = ops[c]
        BY <2>2, <3>1, FetchBegins, RefillBegins
           DEF Kinds, Looks, Deletes, Leaves, SomeWrites, Writes, Begins
      <4>2. QED
        BY <1>4, <2>1, <4>1, SMTT(30) DEF DirectSet
    <3>2. CASE d = c /\ (Looks(c) \/ Deletes(c) \/ Leaves(c))
      BY <1>4, <3>2 DEF DirectSet, Looks, Deletes, Leaves, Idle
    <3>3. CASE d = c /\ SomeWrites(c)
      BY <1>4, <2>1, <3>3 DEF DirectSet, SomeWrites, Writes
    <3>4. CASE d = c /\ FetchCacheable(c)
      <4>1. PICK value \in CacheValues :
               /\ Begins(c, value, ops[c].ctx, FALSE)
               /\ (value.expire = None) <=> (config.ttl = None)
        BY <3>4, FetchBegins
      <4>2. QED
        BY <1>4, <4>1 DEF Begins, Timeless
    <3>5. CASE d = c /\ RefillActual(c)
      BY <1>4, <3>5, RefillBegins DEF DirectSet, Begins
    <3>6. QED
      BY <2>2, <3>1, <3>2, <3>3, <3>4, <3>5 DEF Kinds
  <2>3. CASE Shrinks \/ \E w \in late : Lands(w)
    BY <1>4, <2>1, <2>3 DEF Shrinks, Lands, DirectSet
  <2>4. QED
    BY <2>2, <2>3, StepKinds
<1>5. QED
  BY <1>2, <1>3, <1>4 DEF NoTimes

(* What a set has written stays for its time, as long as no writes          *)
(* overlapped and no store evicted.                                         *)
LEMMA NextStays ==
    ASSUME IInv, Shapes, Single, NoTimes, Stays, [Next]_vars,
           "overlap" \notin causes', "evicted" \notin causes'
    PROVE  Stays'
<1>1. CASE Shrinks
  <2>1. now \in Nat /\ now' \in Nat /\ now <= now' /\ SECOND \in Nat /\ ops' = ops
    BY <1>1, Typed, CacheValueAssumption DEF Shrinks
  <2>2. ASSUME NEW c \in Clients, NEW l \in Layers, DirectSet(c), ops[c].write[l] = "Ok"
        PROVE  Short(ops[c].value, now') \/ Lasting(ops[c].value, layers'[l])
    <3> DEFINE value == ops[c].value
    <3>1. value.expire \in Nat \cup {None} /\ None \notin Nat
      BY <2>2, Numbered, CacheValueAssumption DEF DirectSet, CacheValues, Times
    <3>2. CASE Short(value, now)
      BY <2>1, <3>1, <3>2 DEF Short
    <3>3. CASE Lasting(value, layers[l]) /\ layers'[l] = layers[l]
      BY <3>3
    <3>4. CASE Lasting(value, layers[l]) /\ layers'[l] # layers[l]
      <4>1. layers[l] # None /\ layers[l].until # None /\ layers[l].until <= now'
        BY <1>1, <3>4 DEF Shrinks
      <4>2. layers[l].until \in Nat
        BY <4>1, Typed DEF Entries, Times
      <4>3. value.expire # None /\ value.expire < layers[l].until + SECOND
        BY <3>4, <4>1 DEF Lasting
      <4>4. QED
        BY <2>1, <3>1, <4>1, <4>2, <4>3 DEF Short
    <3>5. QED
      BY <2>2, <3>2, <3>3, <3>4 DEF Stays, StoredBy
  <2>3. QED
    BY <2>1, <2>2 DEF Stays, StoredBy, DirectSet
<1>2. ASSUME NEW w \in late, Lands(w)
      PROVE  Stays'
  BY <1>2 DEF Lands, Single, OneWriter, Writer, Stays, StoredBy, DirectSet
<1>3. ASSUME NEW c \in Clients, Looks(c) \/ Deletes(c) \/ Leaves(c)
      PROVE  Stays'
  <2>1. /\ layers' = layers /\ now' = now
        /\ \A d \in Clients \ {c} : ops'[d] = ops[d]
        /\ ops'[c].pc # "Setting"
    BY <1>3 DEF Looks, Deletes, Leaves, Idle
  <2>2. QED
    BY <2>1 DEF Stays, StoredBy, DirectSet
<1>4. ASSUME NEW c \in Clients, SomeWrites(c)
      PROVE  Stays'
  <2>1. PICK l \in Layers, status \in {"Ok", "Error"} : Writes(c, l, status)
    BY <1>4 DEF SomeWrites
  <2>2. /\ \A d \in Clients \ {c} : ops'[d] = ops[d] /\ ~Writer(d)
        /\ ops'[c].pc = ops[c].pc /\ ops'[c].ctx = ops[c].ctx /\ ops'[c].value = ops[c].value
        /\ now' = now /\ config' = config
        /\ \A k \in Layers \ {l} : layers'[k] = layers[k]
        /\ \A k \in Layers \ {l} : ops'[c].write[k] = "Ok" => ops[c].write[k] = "Ok"
        /\ ops'[c].write[l] = status
    BY <2>1 DEF Writes, Single, OneWriter
  <2>3. ASSUME NEW d \in Clients \ {c}, NEW k \in Layers
        PROVE  StoredBy(d, k)'
    BY <2>2 DEF StoredBy, DirectSet, Writer
  <2>4. ASSUME NEW k \in Layers \ {l}
        PROVE  StoredBy(c, k)'
    <3>1. StoredBy(c, k)
      BY DEF Stays
    <3>2. QED
      BY <2>2, <3>1 DEF StoredBy, DirectSet
  <2>5. StoredBy(c, l)'
    <3>1. SUFFICES ASSUME DirectSet(c), status = "Ok"
                   PROVE  Short(ops[c].value, now) \/ Lasting(ops[c].value, layers'[l])
      BY <2>2 DEF StoredBy, DirectSet
    <3>2. ops[c].value \in CacheValues /\ layers'[l] = Stored(l, ops[c].value)
      BY <2>1, <3>1, Numbered DEF Writes, DirectSet
    <3>3. ops[c].value.expire = None => (layers[l] # None => layers[l].until = None)
      BY <3>1 DEF NoTimes, TimelessEverywhere
    <3>4. QED
      BY <3>2, <3>3, StoredLasts
  <2>6. QED
    BY <2>3, <2>4, <2>5 DEF Stays
<1>5. ASSUME NEW c \in Clients, FetchCacheable(c) \/ RefillActual(c)
      PROVE  Stays'
  <2>1. PICK value, ctx, isRefill : Begins(c, value, ctx, isRefill)
    BY <1>5, FetchBegins, RefillBegins
  <2>2. /\ \A d \in Clients \ {c} : ops'[d] = ops[d] /\ ~Writer(d)
        /\ ops'[c].write = StartWrite(ctx)
    BY <2>1 DEF Begins
  <2>3. \A l \in Layers : ops'[c].write[l] # "Ok"
    BY <2>2 DEF StartWrite
  <2>4. QED
    BY <2>2, <2>3 DEF Stays, StoredBy, DirectSet, Writer
<1>6. QED
  BY <1>1, <1>2, <1>3, <1>4, <1>5, StepKinds DEF Kinds

-----------------------------------------------------------------------------
(* JInv is inductive.                                                       *)
LEMMA InitJInv == Init => JInv
<1> SUFFICES ASSUME Init
             PROVE  JInv
  OBVIOUS
<1>1. /\ \A c \in Clients : /\ ops[c].pc = "Idle" /\ ops[c].write = Unwritten
                            /\ ops[c].read = Unstarted /\ ops[c].value = None /\ ops[c].floor = 0
      /\ \A l \in Layers : layers[l] = None
      /\ late = {} /\ floor = 0 /\ offered = <<>> /\ causes = {}
  BY DEF Init, Idle
<1>2. \A c \in Clients, l \in Layers : ops[c].read[l].status # "Hit"
  BY <1>1, StartFact
<1>3. \A c \in Clients, l \in Layers : ops[c].write[l] = "Unstarted"
  BY <1>1 DEF Unwritten
<1>4. Shapes /\ Floors
  BY <1>1, <1>3 DEF Shapes, WriteShape, Floors
<1>5. NoTimes
  BY <1>1, <1>2 DEF NoTimes, TimelessEverywhere, DirectSet
<1>6. OneWriter /\ Ahead /\ Written
  BY <1>1, <1>3 DEF OneWriter, Ahead, Written, WrittenTo, Writer
<1>7. Stays
  BY <1>1 DEF Stays, StoredBy, DirectSet
<1>8. Current
  BY <1>1, <1>2 DEF Current
<1>9. Agreed
  BY <1>1, <1>2 DEF Agreed, AgreeUnlessSet, Agree, SetsTheNewest, RefillsTheSame,
                    LateIsTheNewest, FoundIsThere, DirectSet, Layers
<1>10. QED
  BY <1>4, <1>5, <1>6, <1>7, <1>8, <1>9, InitIInv DEF JInv

LEMMA NextJInv == JInv /\ [Next]_vars => JInv'
<1> SUFFICES ASSUME JInv, [Next]_vars
             PROVE  JInv'
  OBVIOUS
<1>0. IInv /\ Shapes /\ Floors /\ NoTimes
  BY DEF JInv
<1>1. causes \subseteq causes'
  BY <1>0, CausesGrow
<1>2. IInv' /\ Shapes' /\ Floors' /\ NoTimes'
  BY <1>0, NextIInv, NextShapes, NextFloors, NextNoTimes
<1>3. ASSUME "overlap" \notin causes'
      PROVE  Single /\ Single'
  <2>1. Single
    BY <1>1, <1>3 DEF JInv, Excused, Single
  <2>2. QED
    BY <1>0, <1>3, <2>1, NextSingle
<1>4. ASSUME "overlap" \notin causes', "evicted" \notin causes'
      PROVE  Stays'
  <2>1. Stays
    BY <1>1, <1>4 DEF JInv, Excused
  <2>2. QED
    BY <1>0, <1>3, <1>4, <2>1, NextStays
<1>5. ASSUME "overlap" \notin causes', "fault" \notin causes', "late" \notin causes'
      PROVE  Current'
  <2>1. Current
    BY <1>1, <1>5 DEF JInv, Excused
  <2>2. QED
    BY <1>0, <1>3, <1>5, <2>1, NextCurrent
<1>6. ASSUME "overlap" \notin causes', "fault" \notin causes', "skipped" \notin causes'
      PROVE  Agreed'
  <2>1. Agreed
    BY <1>1, <1>6 DEF JInv, Excused
  <2>2. QED
    BY <1>0, <1>3, <1>6, <2>1, NextAgreed
<1>7. QED
  BY <1>2, <1>3, <1>4, <1>5, <1>6 DEF JInv, Excused, Single

LEMMA AlwaysJInv == Spec => []JInv
  BY InitJInv, NextJInv, PTL DEF Spec

(* However reads, refills, calls, evictions and lost races interleave, two  *)
(* layers that both have the key when nothing is in flight have the same    *)
(* response of it - as long as no writes overlapped, no layer failed and no *)
(* set was skipped in refill mode.                                          *)
THEOREM LayersAgree == Spec => []AgreeAtRest
<1>1. JInv => AgreeAtRest
  <2> SUFFICES ASSUME JInv, ~Writing, ~Excused({"overlap", "fault", "skipped"})
               PROVE  \A l, k \in Layers :
                          layers[l] # None /\ layers[k] # None => layers[l].data = layers[k].data
    BY DEF AgreeAtRest
  <2>1. AgreeUnlessSet
    BY DEF JInv, Agreed
  <2>2. Agree
    BY <2>1 DEF AgreeUnlessSet, Writing, DirectSet
  <2>3. QED
    BY <2>2 DEF Agree, Layers
<1>2. QED
  BY <1>1, AlwaysJInv, PTL

(* The value of an answer is one that was found, and Current knows of those.*)
ReadsAhead == \A c \in Clients :
    Answers(c) /\ ~Excused({"overlap", "fault", "late"}) => Found(c).data >= ops[c].floor

LEMMA AnswersAhead == JInv => ReadsAhead
<1> SUFFICES ASSUME JInv, NEW c \in Clients, Answers(c), ~Excused({"overlap", "fault", "late"})
             PROVE  Found(c).data >= ops[c].floor
  BY DEF ReadsAhead
<1>1. IInv /\ Current
  BY DEF JInv
<1>2. Found(c) # None
  BY DEF Answers, ServeActual, RefillActual, ServeStale, OffloadStale, FoundIn, FoundState
<1>3. ReadSource(ops[c].read) \in Hits(ops[c].read)
  BY <1>2 DEF Found, ReadSource, Prefer, Hits, Layers
<1>4. PICK l \in Layers : ops[c].read[l].status = "Hit" /\ Found(c) = ops[c].read[l].value
  BY <1>2, <1>3 DEF Found, Hits
<1>5. Found(c).data \in Nat /\ ops[c].floor \in Nat
  BY <1>1, <1>2, FoundFact, Typed DEF CacheValues, Operation
<1>6. QED
  BY <1>1, <1>4, <1>5 DEF Current

(* A get that begins after a set or a delete has returned is not answered   *)
(* with anything older, from whichever layer and under whatever policy - as *)
(* long as no writes overlapped, no layer failed and no loser of a race is  *)
(* late.                                                                    *)
THEOREM ReadsGoForward == Spec => ReadsDoNotGoBack
<1>1. ReadsAhead =>
          \A c \in Clients :
              Answers(c) /\ ~Excused({"overlap", "fault", "late"}) => Found(c).data >= ops[c].floor
  BY DEF ReadsAhead
<1>2. QED
  BY <1>1, AnswersAhead, AlwaysJInv, PTL DEF ReadsDoNotGoBack

(* What a set has to leave behind: the body of AckedSetIsStored.            *)
AckedStored(c) ==
    /\ SetReturns(c) /\ SetOk(ops[c]) /\ ops[c].ctx = "Direct"
    /\ ops[c].value.expire = None \/ Ttl(ops[c].value, now) # None
    /\ ~Excused({"overlap", "evicted"})
    => IF config.write = "Sequential" THEN Holders(ops[c].value) = Layers
       ELSE Holders(ops[c].value) # {}

LEMMA ReturnsStored ==
    ASSUME JInv, NEW c \in Clients
    PROVE  AckedStored(c)
<1> SUFFICES ASSUME SetReturns(c), SetOk(ops[c]), ops[c].ctx = "Direct",
                    ops[c].value.expire = None \/ Ttl(ops[c].value, now) # None,
                    ~Excused({"overlap", "evicted"})
             PROVE  IF config.write = "Sequential" THEN Holders(ops[c].value) = Layers
                    ELSE Holders(ops[c].value) # {}
  BY DEF AckedStored
<1>1. IInv /\ Stays /\ DirectSet(c)
  BY DEF JInv, SetReturns, DirectSet
<1>2. ops[c].value \in CacheValues /\ now \in Nat /\ SECOND \in Nat /\ None \notin Nat
  BY <1>1, Numbered, Typed, CacheValueAssumption DEF DirectSet
<1>3. ~Short(ops[c].value, now)
  BY <1>2 DEF Short, Ttl, CacheValues, Times
<1>4. \A l \in Layers : ops[c].write[l] = "Ok" => l \in Holders(ops[c].value)
  BY <1>1, <1>3 DEF Stays, StoredBy, Lasting, Holders
<1>5. \/ config.write = "Sequential" /\ \A l \in Layers : ops[c].write[l] = "Ok"
      \/ config.write # "Sequential" /\ \E l \in Layers : ops[c].write[l] = "Ok"
  BY DEF SetOk, Targets
<1>6. Holders(ops[c].value) \subseteq Layers
  BY DEF Holders
<1>7. QED
  BY <1>4, <1>5, <1>6

(* A set that returns Ok has left its value in both layers if it writes     *)
(* them one after the other, and in one of them otherwise, unless the value *)
(* ran out in the meantime - even when layers fail, as long as no writes    *)
(* overlapped and no store evicted.                                         *)
THEOREM AckedIsStored == Spec => AckedSetIsStored
<1>1. JInv => \A c \in Clients : AckedStored(c)
  BY ReturnsStored
<1>2. QED
  BY <1>1, AlwaysJInv, PTL DEF AckedSetIsStored, AckedStored
=============================================================================
