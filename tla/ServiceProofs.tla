----------------------------- MODULE ServiceProofs -----------------------------
(***************************************************************************)
(* What Service promises, proved for all values of its constants.  A       *)
(* behaviour does one part, so the invariant has a conjunct for each:      *)
(*                                                                         *)
(*   CInv   what a configuration has is what its last calls chose: a       *)
(*          recursive function over the calls finds them, and a call that  *)
(*          is made changes what it finds only in the field that it sets   *)
(*   HInv   a request calls the upstream at most once, and its answer is   *)
(*          what came of that; otherwise it is what is stored, which some  *)
(*          call was sent, or what a waiter was told, which was sent to a  *)
(*          call that had not ended when the waiter came; and a version    *)
(*          and headers survive both of the formats                        *)
(*   KInv   an entry is stored under a key of its own request, and keys   *)
(*          tell requests apart: KeyProofs                                *)
(*   BInv   what a backend has is what its builder was told, and labels    *)
(*          and policies go down to the layers of a composition            *)
(*   TP!MInv  the tasks and their counters, from OffloadManagerProofs      *)
(*                                                                         *)
(* Folds and recursive functions are met by induction over numbers, as the *)
(* keys are.                                                               *)
(***************************************************************************)
EXTENDS KeyProofs

TP == INSTANCE OffloadManagerProofs WITH Configs <- TaskConfigs

-----------------------------------------------------------------------------
(* Tasks.  The proofs about the manager and its metrics are of another      *)
(* instance of the same modules.                                            *)
LEMMA TasksAssumed == TP!OffloadAssumption
  BY ServiceAssumption
  DEF Tasks!OffloadAssumption, TP!OffloadAssumption, Tasks!IsFiniteSet, TP!IsFiniteSet,
      Tasks!TaskEnds, TP!TaskEnds, Tasks!OffloadConfig, TP!OffloadConfig

LEMMA SameTasksInit == Tasks!MetricsInit <=> TP!MetricsInit
  BY DEF Tasks!MetricsInit, TP!MetricsInit, Tasks!Init, TP!Init, Tasks!OffloadKeys, TP!OffloadKeys,
         Tasks!Counters, TP!Counters

LEMMA SameTasksNext == Tasks!MetricsNext <=> TP!MetricsNext
<1> USE DEF Tasks!OffloadKeys, TP!OffloadKeys, Tasks!TaskEnds, TP!TaskEnds, Tasks!vars, TP!vars,
            Tasks!metrics_vars, TP!metrics_vars, Tasks!IsFinished, TP!IsFinished,
            Tasks!Tracked, TP!Tracked, Tasks!Remove, TP!Remove, Tasks!InProgress, TP!InProgress
<1>1. ASSUME NEW c \in Calls
      PROVE  /\ Tasks!SpawnAny(c) <=> TP!SpawnAny(c)
             /\ Tasks!SpawnKeyed(c) <=> TP!SpawnKeyed(c)
             /\ Tasks!SpawnRuns(c) <=> TP!SpawnRuns(c)
             /\ Tasks!SpawnInserts(c) <=> TP!SpawnInserts(c)
             /\ Tasks!SpawnCounts(c) <=> TP!SpawnCounts(c)
  BY DEF Tasks!SpawnAny, TP!SpawnAny, Tasks!SpawnKeyed, TP!SpawnKeyed, Tasks!SpawnRuns, TP!SpawnRuns,
         Tasks!SpawnInserts, TP!SpawnInserts, Tasks!SpawnCounts, TP!SpawnCounts,
         Tasks!Spawn, TP!Spawn, Tasks!SpawnWithKey, TP!SpawnWithKey, Tasks!SpawnInner, TP!SpawnInner,
         Tasks!Insert, TP!Insert, Tasks!Increment, TP!Increment
<1>2. ASSUME NEW c \in Calls
      PROVE  /\ Tasks!EndsInTime(c) <=> TP!EndsInTime(c)
             /\ Tasks!RemovesKey(c) <=> TP!RemovesKey(c)
             /\ Tasks!Ends(c) <=> TP!Ends(c)
             /\ Tasks!RecordsEnd(c) <=> TP!RecordsEnd(c)
             /\ Tasks!Breaks(c) <=> TP!Breaks(c)
  BY DEF Tasks!EndsInTime, TP!EndsInTime, Tasks!RemovesKey, TP!RemovesKey, Tasks!Ends, TP!Ends,
         Tasks!RecordsEnd, TP!RecordsEnd, Tasks!Breaks, TP!Breaks, Tasks!Record, TP!Record,
         Tasks!Increment, TP!Increment, Tasks!Complete, TP!Complete, Tasks!TimeOut, TP!TimeOut,
         Tasks!End, TP!End, Tasks!Panic, TP!Panic, Tasks!AbortTakesEffect, TP!AbortTakesEffect
<1>3. Tasks!Management <=> TP!Management
  BY DEF Tasks!Management, TP!Management, Tasks!Cancel, TP!Cancel, Tasks!CancelAll, TP!CancelAll,
         Tasks!CleanupFinished, TP!CleanupFinished, Tasks!RetainActive, TP!RetainActive,
         Tasks!WaitAll, TP!WaitAll, Tasks!WaitStep, TP!WaitStep, Tasks!WaitClean, TP!WaitClean,
         Tasks!WaitCheck, TP!WaitCheck
<1>4. QED
  BY <1>1, <1>2, <1>3 DEF Tasks!MetricsNext, TP!MetricsNext

LEMMA InitTasks == Tasks!MetricsInit => TP!MInv
  BY TasksAssumed, SameTasksInit, TP!InitMInv

LEMMA NextTasks == TP!MInv /\ (Tasks!MetricsNext \/ UNCHANGED Tasks!all_vars) => TP!MInv'
<1>1. UNCHANGED Tasks!all_vars => UNCHANGED TP!all_vars
  BY DEF Tasks!all_vars, TP!all_vars, Tasks!vars, TP!vars, Tasks!metrics_vars, TP!metrics_vars
<1>2. QED
  BY <1>1, TasksAssumed, SameTasksNext, TP!NextMInv

LEMMA TasksCounted == TP!MInv => Tasks!MetricsTypeOK /\ Tasks!CountersAddUp /\ Tasks!GaugeReturns
<1> SUFFICES ASSUME TP!MInv
             PROVE  Tasks!MetricsTypeOK /\ Tasks!CountersAddUp /\ Tasks!GaugeReturns
  OBVIOUS
<1>1. TP!MetricsTypeOK /\ TP!CountersAddUp /\ TP!GaugeReturns
  BY TasksAssumed, TP!MInvTypes, TP!MInvCounts, TP!MInvReturns
<1>2. \A S : Tasks!Cardinality(S) = TP!Cardinality(S)
  BY DEF Tasks!Cardinality, TP!Cardinality, Tasks!IsFiniteSet, TP!IsFiniteSet
<1>3. Tasks!AtRest <=> TP!AtRest
  BY DEF Tasks!AtRest, TP!AtRest
<1>4. \A how : Tasks!Ended(how) = TP!Ended(how)
  BY <1>2 DEF Tasks!Ended, TP!Ended
<1>5. Tasks!MetricsTypeOK
  BY <1>1, <1>2 DEF Tasks!MetricsTypeOK, TP!MetricsTypeOK, Tasks!TypeOK, TP!TypeOK,
     Tasks!OffloadKeys, TP!OffloadKeys, Tasks!TaskEnds, TP!TaskEnds, Tasks!Counters, TP!Counters
<1>6. Tasks!CountersAddUp
  BY <1>1, <1>2, <1>3, <1>4 DEF Tasks!CountersAddUp, TP!CountersAddUp, Tasks!TaskEnds, TP!TaskEnds
<1>7. Tasks!GaugeReturns
  BY <1>1, <1>3, <1>4 DEF Tasks!GaugeReturns, TP!GaugeReturns
<1>8. QED
  BY <1>5, <1>6, <1>7

-----------------------------------------------------------------------------
(* Config. *)
Fields == {"ttl", "stale", "stale_policy", "concurrency"}
ChoiceValues == Parts \cup Durations \cup StalePolicies \cup Limits \cup Setup!PolicyConfigs
                \cup {Disabled}
SetterCalls == [set : Setup!Names \cup Fields \cup {"policy"}, to : ChoiceValues]

Before(seq, i)  == {j \in 0..(i - 1) : j = 0 \/ seq[j].set = "policy"}
SinceIn(seq, i) == SubSeq(seq, Last(Before(seq, i)) + 1, i - 1)

AskedIn(seq, i) ==
    IF seq[i].to = Disabled THEN Disabled
    ELSE [field \in Fields |-> Setup!LastOf(SinceIn(seq, i), field, Setup!NewPolicy[field])]

PolicyIn(seq) ==
    LET at == {i \in DOMAIN seq : seq[i].set = "policy"}
    IN IF at = {} THEN Setup!DefaultPolicy ELSE AskedIn(seq, Last(at))

LEMMA SinceIsIn == \A i : Setup!Since(i) = SinceIn(calls, i)
  BY DEF Setup!Since, SinceIn, Before, Last

LEMMA AskedIsIn == \A i : Setup!AskedPolicy(i) = AskedIn(calls, i)
  BY SinceIsIn DEF Setup!AskedPolicy, AskedIn, Setup!NewPolicy, Fields

LEMMA LastOfNone == \A name, otherwise : Setup!LastOf(<<>>, name, otherwise) = otherwise
  BY DEF Setup!LastOf

LEMMA LastOfAppend ==
    ASSUME NEW seq \in Seq(SetterCalls), NEW e \in SetterCalls, NEW name, NEW otherwise
    PROVE  Setup!LastOf(Append(seq, e), name, otherwise) =
              IF e.set = name THEN e.to ELSE Setup!LastOf(seq, name, otherwise)
<1> DEFINE n == Len(seq)
           longer == Append(seq, e)
           at == {i \in DOMAIN seq : seq[i].set = name}
           then == {i \in DOMAIN longer : longer[i].set = name}
<1>1. n \in Nat /\ DOMAIN seq = 1..n /\ DOMAIN longer = 1..(n + 1)
  OBVIOUS
<1>2. longer[n + 1] = e /\ \A i \in 1..n : longer[i] = seq[i]
  OBVIOUS
<1>3. then = IF e.set = name THEN at \cup {n + 1} ELSE at
  BY <1>1, <1>2
<1>4. at \in SUBSET (0..n) /\ at \subseteq 1..n
  BY <1>1
<1>5. Setup!LastOf(seq, name, otherwise) = IF at = {} THEN otherwise ELSE seq[Last(at)].to
  BY DEF Setup!LastOf, Last
<1>6. Setup!LastOf(longer, name, otherwise) = IF then = {} THEN otherwise ELSE longer[Last(then)].to
  BY DEF Setup!LastOf, Last
<1> HIDE DEF at, then, n, longer
<1>7. CASE e.set = name
  <2>1. Last(then) = n + 1
    BY <1>1, <1>3, <1>4, <1>7, LastIsEnd
  <2>2. QED
    BY <1>2, <1>3, <1>6, <1>7, <2>1 DEF longer
<1>8. CASE e.set # name
  <2>1. at # {} => Last(at) \in 1..n
    BY <1>1, <1>4, LastIn
  <2>2. QED
    BY <1>2, <1>3, <1>5, <1>6, <1>8, <2>1 DEF longer
<1>9. QED
  BY <1>7, <1>8

LEMMA SinceAppend ==
    ASSUME NEW seq \in Seq(SetterCalls), NEW e \in SetterCalls
    PROVE  /\ \A i \in 1..(Len(seq) + 1) : SinceIn(Append(seq, e), i) = SinceIn(seq, i)
           /\ SinceIn(Append(seq, e), Len(seq) + 2) =
                IF e.set = "policy" THEN <<>> ELSE Append(SinceIn(seq, Len(seq) + 1), e)
           /\ SinceIn(seq, Len(seq) + 1) \in Seq(SetterCalls)
<1> DEFINE n == Len(seq)
           longer == Append(seq, e)
<1>0. \A s, i : SinceIn(s, i) = SubSeq(s, Last(Before(s, i)) + 1, i - 1)
  BY DEF SinceIn
<1>1. n \in Nat /\ Len(longer) = n + 1 /\ longer \in Seq(SetterCalls)
  OBVIOUS
<1>2. longer[n + 1] = e /\ \A i \in 1..n : longer[i] = seq[i]
  OBVIOUS
<1>3. ASSUME NEW i \in 1..(n + 1)
      PROVE  /\ Before(longer, i) = Before(seq, i) /\ Last(Before(seq, i)) \in 0..(i - 1)
             /\ SubSeq(longer, Last(Before(seq, i)) + 1, i - 1) = SubSeq(seq, Last(Before(seq, i)) + 1, i - 1)
             /\ SubSeq(seq, Last(Before(seq, i)) + 1, i - 1) \in Seq(SetterCalls)
  <2>1. Before(longer, i) = Before(seq, i)
    BY <1>1, <1>2 DEF Before
  <2>2. 0 \in Before(seq, i) /\ i - 1 \in Nat
    BY <1>1 DEF Before
  <2>3. Last(Before(seq, i)) \in Before(seq, i)
    <3>1. Before(seq, i) \in SUBSET (0..(i - 1))
      BY DEF Before
    <3>2. QED
      BY <2>2, <3>1, LastIn
  <2> DEFINE from == Last(Before(seq, i)) + 1
             a == SubSeq(longer, from, i - 1)
             b == SubSeq(seq, from, i - 1)
  <2>4. from \in 1..i
    BY <1>1, <2>3 DEF Before
  <2> HIDE DEF from
  <2>5. a \in Seq(SetterCalls) /\ b \in Seq(SetterCalls) /\ Len(a) = Len(b)
    BY <1>1, <2>4 DEF n
  <2>6. \A j \in 1..Len(a) : a[j] = b[j]
    BY <1>1, <1>2, <2>4 DEF n
  <2> HIDE DEF a, b
  <2>7. a = b
    BY <2>5, <2>6, SeqEqual
  <2>8. Last(Before(seq, i)) \in 0..(i - 1)
    BY <2>3 DEF Before
  <2>9. QED
    BY <2>1, <2>5, <2>7, <2>8 DEF from, a, b
<1>4. ASSUME NEW i \in 1..(n + 1) PROVE SinceIn(longer, i) = SinceIn(seq, i)
  BY <1>3, <1>4 DEF SinceIn
<1>5. SinceIn(seq, n + 1) \in Seq(SetterCalls)
  <2>1. n + 1 \in 1..(n + 1)
    BY <1>1
  <2>2. QED
    BY <1>3, <2>1 DEF SinceIn
<1>6. Before(longer, n + 2) =
         IF e.set = "policy" THEN Before(seq, n + 1) \cup {n + 1} ELSE Before(seq, n + 1)
  BY <1>1, <1>2 DEF Before
<1>7. CASE e.set = "policy"
  <2>1. Last(Before(longer, n + 2)) = n + 1
    <3>1. n + 1 \in Before(longer, n + 2) /\ Before(longer, n + 2) \in SUBSET (0..(n + 1)) /\ n + 1 \in Nat
      BY <1>1, <1>6, <1>7 DEF Before
    <3>2. QED
      BY <3>1, LastIsEnd
  <2>2. SinceIn(longer, n + 2) = SubSeq(longer, n + 2, n + 1)
    <3>1. n + 2 - 1 = n + 1 /\ n + 1 + 1 = n + 2
      BY <1>1
    <3> DEFINE end == n + 2
    <3> HIDE DEF end
    <3>2. SinceIn(longer, end) = SubSeq(longer, Last(Before(longer, end)) + 1, end - 1)
      BY <1>0
    <3> USE DEF end
    <3>3. QED
      BY <2>1, <3>1, <3>2
  <2>3. SubSeq(longer, n + 2, n + 1) = <<>>
    BY <1>1
  <2>4. QED
    BY <1>4, <1>5, <1>7, <2>2, <2>3
<1>8. CASE e.set # "policy"
  <2> DEFINE from == Last(Before(seq, n + 1)) + 1
             a == SubSeq(longer, from, n + 1)
             b == Append(SubSeq(seq, from, n), e)
  <2>1. from \in 1..(n + 1)
    BY <1>1, <1>3
  <2>2. SinceIn(longer, n + 2) = a /\ SinceIn(seq, n + 1) = SubSeq(seq, from, n)
    <3> DEFINE end == n + 2
    <3>1. end - 1 = n + 1 /\ n + 1 - 1 = n /\ Before(longer, end) = Before(seq, n + 1)
      BY <1>1, <1>6, <1>8
    <3> HIDE DEF end
    <3>2. SinceIn(longer, end) = SubSeq(longer, Last(Before(longer, end)) + 1, end - 1)
      BY <1>0
    <3>3. SinceIn(seq, n + 1) = SubSeq(seq, Last(Before(seq, n + 1)) + 1, n + 1 - 1)
      BY <1>0
    <3>4. SinceIn(longer, end) = a /\ SinceIn(seq, n + 1) = SubSeq(seq, from, n)
      BY <3>1, <3>2, <3>3
    <3>5. QED
      BY <3>4 DEF end
  <2> HIDE DEF from
  <2>3. a \in Seq(SetterCalls) /\ b \in Seq(SetterCalls) /\ Len(a) = n + 2 - from /\ Len(b) = n + 2 - from
    BY <1>1, <2>1 DEF n
  <2>4. \A j \in 1..Len(a) : a[j] = b[j]
    <3>1. \A j \in 1..(n + 1 - from) : a[j] = seq[from + j - 1] /\ b[j] = seq[from + j - 1]
      BY <1>1, <1>2, <2>1 DEF n
    <3>2. a[n + 2 - from] = e /\ b[n + 2 - from] = e
      BY <1>1, <1>2, <2>1 DEF n
    <3>3. ASSUME NEW j \in 1..(n + 2 - from) PROVE j = n + 2 - from \/ j \in 1..(n + 1 - from)
      BY <1>1, <2>1
    <3>4. QED
      BY <2>3, <3>1, <3>2, <3>3
  <2> HIDE DEF a, b
  <2>5. a = b
    BY <2>3, <2>4, SeqEqual
  <2>6. QED
    BY <1>4, <1>5, <1>8, <2>2, <2>5 DEF b
<1>9. QED
  BY <1>7, <1>8

LEMMA AskedAppend ==
    ASSUME NEW seq \in Seq(SetterCalls), NEW e \in SetterCalls
    PROVE  /\ \A i \in 1..Len(seq) : AskedIn(Append(seq, e), i) = AskedIn(seq, i)
           /\ AskedIn(Append(seq, e), Len(seq) + 1) =
                IF e.to = Disabled THEN Disabled
                ELSE [field \in Fields |->
                        Setup!LastOf(SinceIn(seq, Len(seq) + 1), field, Setup!NewPolicy[field])]
<1> DEFINE longer == Append(seq, e)
<1>1. \A i \in 1..(Len(seq) + 1) : SinceIn(longer, i) = SinceIn(seq, i)
  BY SinceAppend
<1>2. longer[Len(seq) + 1] = e /\ \A i \in 1..Len(seq) : longer[i] = seq[i]
  OBVIOUS
<1>3. Len(seq) \in Nat
  OBVIOUS
<1>4. \A s, i : AskedIn(s, i) =
         IF s[i].to = Disabled THEN Disabled
         ELSE [field \in Fields |-> Setup!LastOf(SinceIn(s, i), field, Setup!NewPolicy[field])]
  BY DEF AskedIn
<1> DEFINE n == Len(seq)
           end == n + 1
<1>5. \A i \in 1..n : i \in 1..end
  BY <1>3
<1>6. end \in 1..end
  BY <1>3
<1> HIDE DEF longer, n, end
<1>7. ASSUME NEW i \in 1..n PROVE AskedIn(longer, i) = AskedIn(seq, i)
  <2>1. SinceIn(longer, i) = SinceIn(seq, i) /\ longer[i] = seq[i]
    BY <1>1, <1>2, <1>5 DEF n, end
  <2>2. QED
    BY <1>4, <2>1
<1>8. AskedIn(longer, end) =
         IF e.to = Disabled THEN Disabled
         ELSE [field \in Fields |-> Setup!LastOf(SinceIn(seq, end), field, Setup!NewPolicy[field])]
  <2>1. SinceIn(longer, end) = SinceIn(seq, end) /\ longer[end] = e
    BY <1>1, <1>2, <1>6 DEF n, end
  <2>2. QED
    BY <1>4, <2>1
<1>9. QED
  BY <1>7, <1>8 DEF longer, n, end

LEMMA PolicyAppend ==
    ASSUME NEW seq \in Seq(SetterCalls), NEW e \in SetterCalls
    PROVE  PolicyIn(Append(seq, e)) =
              IF e.set = "policy" THEN AskedIn(Append(seq, e), Len(seq) + 1) ELSE PolicyIn(seq)
<1> DEFINE n == Len(seq)
           longer == Append(seq, e)
           at == {i \in DOMAIN seq : seq[i].set = "policy"}
           then == {i \in DOMAIN longer : longer[i].set = "policy"}
<1>1. n \in Nat /\ DOMAIN seq = 1..n /\ DOMAIN longer = 1..(n + 1)
  OBVIOUS
<1>2. longer[n + 1] = e /\ \A i \in 1..n : longer[i] = seq[i]
  OBVIOUS
<1>3. then = IF e.set = "policy" THEN at \cup {n + 1} ELSE at
  BY <1>1, <1>2
<1>4. at \in SUBSET (0..n) /\ at \subseteq 1..n
  BY <1>1
<1>5. PolicyIn(seq) = IF at = {} THEN Setup!DefaultPolicy ELSE AskedIn(seq, Last(at))
  BY DEF PolicyIn
<1>6. PolicyIn(longer) = IF then = {} THEN Setup!DefaultPolicy ELSE AskedIn(longer, Last(then))
  BY DEF PolicyIn
<1>7. \A i \in 1..n : AskedIn(longer, i) = AskedIn(seq, i)
  BY AskedAppend
<1> HIDE DEF at, then, n, longer
<1>8. CASE e.set = "policy"
  <2>1. Last(then) = n + 1
    BY <1>1, <1>3, <1>4, <1>8, LastIsEnd
  <2>2. QED
    BY <1>3, <1>6, <1>8, <2>1 DEF longer, n
<1>9. CASE e.set # "policy"
  <2>1. at # {} => Last(at) \in 1..n
    BY <1>1, <1>4, LastIn
  <2>2. QED
    BY <1>3, <1>5, <1>6, <1>7, <1>9, <2>1 DEF longer
<1>10. QED
  BY <1>8, <1>9

-----------------------------------------------------------------------------
Chosen(seq, parts, fields, last_policy) ==
    /\ \A name \in Setup!Names :
          Setup!LastOf(seq, name, Default) = IF parts[name] = NotSet THEN Default ELSE parts[name]
    /\ \A field \in Fields :
          fields[field] = Setup!LastOf(SinceIn(seq, Len(seq) + 1), field, Setup!NewPolicy[field])
    /\ last_policy = PolicyIn(seq)

ConfigBuilders == [kind : Setup!Builders, parts : [Setup!Names -> Parts \cup {NotSet}],
                   policy : Setup!PolicyConfigs \cup {Disabled}]

CInv ==
    /\ builder \in ConfigBuilders
    /\ policy_builder \in Setup!PolicyConfigs
    /\ calls \in Seq(SetterCalls)
    /\ now \in 0..MAX_TIME /\ stored \in 0..now
    /\ Chosen(calls, builder.parts, policy_builder, builder.policy)
    /\ config # None => config = [parts |-> Setup!BuildDefaults, policy |-> builder.policy]
    /\ value # None => /\ config # None /\ config.policy \in Setup!PolicyConfigs
                       /\ value = Setup!FreshValue(0, Setup!EntityPolicyConfig, stored)

LEMMA ConfigFacts ==
    /\ Durations \subseteq Nat
    /\ NotSet \notin Parts /\ Default \notin Parts
    /\ MAX_TIME \in Nat
    /\ Setup!NewPolicy \in Setup!PolicyConfigs
    /\ Setup!DefaultPolicy \in Setup!PolicyConfigs
    /\ 5 * SECOND \in Nat
  BY ServiceAssumption, CacheValueAssumption DEF Setup!ConstantsOK, Setup!NewPolicy,
     Setup!DefaultPolicy, Setup!PolicyConfigs

LEMMA InitC == Setup!Init => CInv
<1> SUFFICES ASSUME Setup!Init PROVE CInv
  OBVIOUS
<1>1. PICK kind \in Setup!Builders : builder = Setup!New(kind)
  BY DEF Setup!Init
<1>2. builder \in ConfigBuilders /\ policy_builder \in Setup!PolicyConfigs
  BY <1>1, ConfigFacts DEF Setup!Init, Setup!New, ConfigBuilders
<1>3. calls = <<>> /\ calls \in Seq(SetterCalls)
  BY DEF Setup!Init
<1>4. SinceIn(<<>>, 1) = <<>>
  <2>1. Before(<<>>, 1) = {0}
    BY DEF Before
  <2>2. Last({0}) = 0
    BY LastIsEnd
  <2>3. QED
    BY <2>1, <2>2 DEF SinceIn
<1>5. PolicyIn(<<>>) = Setup!DefaultPolicy
  BY DEF PolicyIn
<1>6. Chosen(<<>>, builder.parts, policy_builder, builder.policy)
  BY <1>1, <1>4, <1>5, LastOfNone DEF Chosen, Setup!New, Setup!Init
<1>7. QED
  BY <1>2, <1>3, <1>6, ConfigFacts DEF CInv, Setup!Init

LEMMA FieldChosen ==
    ASSUME NEW seq \in Seq(SetterCalls), NEW parts, NEW fields \in Setup!PolicyConfigs,
           NEW last_policy, Chosen(seq, parts, fields, last_policy),
           NEW f \in Fields, NEW to \in ChoiceValues
    PROVE  Chosen(Append(seq, [set |-> f, to |-> to]), parts, [fields EXCEPT ![f] = to], last_policy)
<1> DEFINE e == [set |-> f, to |-> to]
           longer == Append(seq, e)
<1>1. e \in SetterCalls /\ f \notin Setup!Names /\ f # "policy" /\ e.set = f /\ e.to = to
  BY DEF SetterCalls, Fields, Setup!Names
<1>2. Len(longer) + 1 = Len(seq) + 2
  OBVIOUS
<1> HIDE DEF e
<1>3. SinceIn(longer, Len(longer) + 1) = Append(SinceIn(seq, Len(seq) + 1), e)
  <2>1. e \in SetterCalls /\ e.set # "policy"
    BY <1>1
  <2>2. SinceIn(longer, Len(seq) + 2) = Append(SinceIn(seq, Len(seq) + 1), e)
    BY <2>1, SinceAppend
  <2>3. QED
    BY <1>2, <2>2
<1>4. SinceIn(seq, Len(seq) + 1) \in Seq(SetterCalls)
  BY <1>1, SinceAppend
<1>5. ASSUME NEW name, NEW otherwise
      PROVE  /\ Setup!LastOf(longer, name, otherwise) =
                  IF f = name THEN to ELSE Setup!LastOf(seq, name, otherwise)
             /\ Setup!LastOf(SinceIn(longer, Len(longer) + 1), name, otherwise) =
                  IF f = name THEN to ELSE Setup!LastOf(SinceIn(seq, Len(seq) + 1), name, otherwise)
  <2>1. Setup!LastOf(longer, name, otherwise) =
           IF f = name THEN to ELSE Setup!LastOf(seq, name, otherwise)
    BY <1>1, LastOfAppend
  <2> DEFINE since == SinceIn(seq, Len(seq) + 1)
  <2> HIDE DEF since
  <2>2. since \in Seq(SetterCalls)
    BY <1>4 DEF since
  <2>3. Setup!LastOf(Append(since, e), name, otherwise) =
           IF f = name THEN to ELSE Setup!LastOf(since, name, otherwise)
    BY <1>1, <2>2, LastOfAppend
  <2>4. QED
    BY <1>3, <2>1, <2>3 DEF since
<1>6. PolicyIn(longer) = PolicyIn(seq)
  BY <1>1, PolicyAppend
<1> HIDE DEF longer
<1>7. \A name \in Setup!Names :
         Setup!LastOf(longer, name, Default) = IF parts[name] = NotSet THEN Default ELSE parts[name]
  BY <1>1, <1>5 DEF Chosen
<1>8. \A field \in Fields :
         [fields EXCEPT ![f] = to][field] =
            Setup!LastOf(SinceIn(longer, Len(longer) + 1), field, Setup!NewPolicy[field])
  <2>1. DOMAIN fields = Fields
    BY DEF Setup!PolicyConfigs, Fields
  <2>2. QED
    BY <1>5, <2>1 DEF Chosen
<1>9. Chosen(longer, parts, [fields EXCEPT ![f] = to], last_policy)
  BY <1>6, <1>7, <1>8 DEF Chosen
<1>10. QED
  BY <1>9 DEF longer, e

LEMMA PartChosen ==
    ASSUME NEW seq \in Seq(SetterCalls), NEW parts \in [Setup!Names -> Parts \cup {NotSet}],
           NEW fields, NEW last_policy, Chosen(seq, parts, fields, last_policy),
           NEW name \in Setup!Names, NEW to \in Parts
    PROVE  Chosen(Append(seq, [set |-> name, to |-> to]), [parts EXCEPT ![name] = to], fields,
                  last_policy)
<1> DEFINE e == [set |-> name, to |-> to]
           longer == Append(seq, e)
<1>1. e \in SetterCalls /\ name \notin Fields /\ name # "policy" /\ e.set = name /\ e.to = to
  BY DEF SetterCalls, Fields, Setup!Names, ChoiceValues
<1>2. Len(longer) + 1 = Len(seq) + 2
  OBVIOUS
<1> HIDE DEF e
<1>3. SinceIn(longer, Len(longer) + 1) = Append(SinceIn(seq, Len(seq) + 1), e)
  BY <1>1, <1>2, SinceAppend
<1>4. SinceIn(seq, Len(seq) + 1) \in Seq(SetterCalls)
  BY <1>1, SinceAppend
<1>5. ASSUME NEW of, NEW otherwise
      PROVE  /\ Setup!LastOf(longer, of, otherwise) =
                  IF name = of THEN to ELSE Setup!LastOf(seq, of, otherwise)
             /\ Setup!LastOf(SinceIn(longer, Len(longer) + 1), of, otherwise) =
                  IF name = of THEN to ELSE Setup!LastOf(SinceIn(seq, Len(seq) + 1), of, otherwise)
  <2>1. Setup!LastOf(longer, of, otherwise) =
           IF name = of THEN to ELSE Setup!LastOf(seq, of, otherwise)
    BY <1>1, LastOfAppend
  <2> DEFINE since == SinceIn(seq, Len(seq) + 1)
  <2> HIDE DEF since
  <2>2. since \in Seq(SetterCalls)
    BY <1>4 DEF since
  <2>3. Setup!LastOf(Append(since, e), of, otherwise) =
           IF name = of THEN to ELSE Setup!LastOf(since, of, otherwise)
    BY <1>1, <2>2, LastOfAppend
  <2>4. QED
    BY <1>3, <2>1, <2>3 DEF since
<1>6. PolicyIn(longer) = PolicyIn(seq)
  BY <1>1, PolicyAppend
<1> HIDE DEF longer
<1>7. to # NotSet
  BY ConfigFacts
<1>8. \A of \in Setup!Names :
         Setup!LastOf(longer, of, Default) =
            IF [parts EXCEPT ![name] = to][of] = NotSet THEN Default
            ELSE [parts EXCEPT ![name] = to][of]
  BY <1>5, <1>7 DEF Chosen
<1>9. \A field \in Fields :
         fields[field] = Setup!LastOf(SinceIn(longer, Len(longer) + 1), field, Setup!NewPolicy[field])
  BY <1>1, <1>5 DEF Chosen
<1>10. Chosen(longer, [parts EXCEPT ![name] = to], fields, last_policy)
  BY <1>6, <1>8, <1>9 DEF Chosen
<1>11. QED
  BY <1>10 DEF longer, e

LEMMA PolicyChosen ==
    ASSUME NEW seq \in Seq(SetterCalls), NEW parts, NEW fields \in Setup!PolicyConfigs,
           NEW last_policy, Chosen(seq, parts, fields, last_policy),
           NEW to \in {fields, Disabled}
    PROVE  Chosen(Append(seq, [set |-> "policy", to |-> to]), parts, Setup!NewPolicy, to)
<1> DEFINE e == [set |-> "policy", to |-> to]
           longer == Append(seq, e)
<1>1. e \in SetterCalls /\ "policy" \notin Setup!Names /\ e.set = "policy" /\ e.to = to
  BY DEF SetterCalls, ChoiceValues, Setup!Names
<1>2. Len(longer) + 1 = Len(seq) + 2
  OBVIOUS
<1> HIDE DEF e
<1>3. SinceIn(longer, Len(longer) + 1) = <<>>
  BY <1>1, <1>2, SinceAppend
<1>4. \A name \in Setup!Names : Setup!LastOf(longer, name, Default) = Setup!LastOf(seq, name, Default)
  BY <1>1, LastOfAppend
<1>5. PolicyIn(longer) = IF to = Disabled THEN Disabled
         ELSE [field \in Fields |->
                 Setup!LastOf(SinceIn(seq, Len(seq) + 1), field, Setup!NewPolicy[field])]
  BY <1>1, PolicyAppend, AskedAppend
<1>6. fields = [field \in Fields |->
                 Setup!LastOf(SinceIn(seq, Len(seq) + 1), field, Setup!NewPolicy[field])]
  <2>1. fields = [field \in Fields |-> fields[field]]
    BY DEF Setup!PolicyConfigs, Fields
  <2>2. QED
    BY <2>1 DEF Chosen
<1>7. PolicyIn(longer) = to
  BY <1>5, <1>6
<1> HIDE DEF longer
<1>8. Chosen(longer, parts, Setup!NewPolicy, to)
  BY <1>3, <1>4, <1>7, LastOfNone DEF Chosen
<1>9. QED
  BY <1>8 DEF longer, e

(* Built, a configuration stays, and with it what was cached under it. *)
LEMMA CallKeeps ==
    ASSUME CInv, NEW name, NEW to, Setup!Call(name, to)
    PROVE  /\ config = None /\ config' = None /\ value = None /\ value' = None
           /\ stored' = stored /\ now' = now
           /\ calls' = Append(calls, [set |-> name, to |-> to])
  BY DEF CInv, Setup!Call

LEMMA FieldC ==
    ASSUME CInv, NEW f \in Fields, NEW to, Setup!SetPolicyField(f, to), to \in ChoiceValues,
           [policy_builder EXCEPT ![f] = to] \in Setup!PolicyConfigs
    PROVE  CInv'
<1>1. /\ config' = None /\ value' = None /\ stored' = stored /\ now' = now
      /\ calls' = Append(calls, [set |-> f, to |-> to])
  BY CallKeeps DEF Setup!SetPolicyField
<1>2. builder' = builder /\ policy_builder' = [policy_builder EXCEPT ![f] = to]
  BY DEF Setup!SetPolicyField
<1>3. calls \in Seq(SetterCalls) /\ policy_builder \in Setup!PolicyConfigs
      /\ Chosen(calls, builder.parts, policy_builder, builder.policy)
  BY DEF CInv
<1>4. Chosen(calls', builder'.parts, policy_builder', builder'.policy)
  BY <1>1, <1>2, <1>3, FieldChosen
<1>5. calls' \in Seq(SetterCalls)
  <2>1. [set |-> f, to |-> to] \in SetterCalls
    BY DEF SetterCalls
  <2>2. QED
    BY <1>1, <1>3, <2>1
<1>6. QED
  BY <1>1, <1>2, <1>4, <1>5 DEF CInv

LEMMA PolicyFieldsC ==
    ASSUME CInv
    PROVE  /\ \A field \in {"ttl", "stale"}, d \in Durations : Setup!SetPolicyField(field, d) => CInv'
           /\ \A p \in StalePolicies : Setup!SetPolicyField("stale_policy", p) => CInv'
           /\ \A n \in Limits : Setup!SetPolicyField("concurrency", n) => CInv'
<1>1. policy_builder \in Setup!PolicyConfigs
  BY DEF CInv
<1>2. ASSUME NEW field \in {"ttl", "stale"}, NEW d \in Durations, Setup!SetPolicyField(field, d)
      PROVE  CInv'
  <2>1. [policy_builder EXCEPT ![field] = d] \in Setup!PolicyConfigs
    BY <1>1 DEF Setup!PolicyConfigs
  <2>2. QED
    BY <1>2, <2>1, FieldC DEF Fields, ChoiceValues
<1>3. ASSUME NEW p \in StalePolicies, Setup!SetPolicyField("stale_policy", p) PROVE CInv'
  <2>1. [policy_builder EXCEPT !["stale_policy"] = p] \in Setup!PolicyConfigs
    BY <1>1 DEF Setup!PolicyConfigs
  <2>2. QED
    BY <1>3, <2>1, FieldC DEF Fields, ChoiceValues
<1>4. ASSUME NEW n \in Limits, Setup!SetPolicyField("concurrency", n) PROVE CInv'
  <2>1. [policy_builder EXCEPT !["concurrency"] = n] \in Setup!PolicyConfigs
    BY <1>1 DEF Setup!PolicyConfigs
  <2>2. QED
    BY <1>4, <2>1, FieldC DEF Fields, ChoiceValues
<1>5. QED
  BY <1>2, <1>3, <1>4

LEMMA PolicyC ==
    ASSUME CInv, NEW to \in {policy_builder, Disabled}, Setup!SetPolicy(to)
    PROVE  CInv'
<1>1. /\ config' = None /\ value' = None /\ stored' = stored /\ now' = now
      /\ calls' = Append(calls, [set |-> "policy", to |-> to])
  BY CallKeeps DEF Setup!SetPolicy
<1>2. builder' = [builder EXCEPT !.policy = to] /\ policy_builder' = Setup!NewPolicy
  BY DEF Setup!SetPolicy
<1>3. calls \in Seq(SetterCalls) /\ policy_builder \in Setup!PolicyConfigs
      /\ builder \in ConfigBuilders /\ Chosen(calls, builder.parts, policy_builder, builder.policy)
  BY DEF CInv
<1>4. builder' \in ConfigBuilders /\ builder'.parts = builder.parts /\ builder'.policy = to
  BY <1>2, <1>3 DEF ConfigBuilders
<1>5. Chosen(calls', builder'.parts, policy_builder', builder'.policy)
  BY <1>1, <1>2, <1>3, <1>4, PolicyChosen
<1>6. calls' \in Seq(SetterCalls)
  <2>1. [set |-> "policy", to |-> to] \in SetterCalls
    BY <1>3 DEF SetterCalls, ChoiceValues
  <2>2. QED
    BY <1>1, <1>3, <2>1
<1>7. QED
  BY <1>1, <1>2, <1>4, <1>5, <1>6, ConfigFacts DEF CInv

LEMMA PartC ==
    ASSUME CInv, NEW name \in Setup!Names, NEW to \in Parts, Setup!SetPart(name, to)
    PROVE  CInv'
<1>1. /\ config' = None /\ value' = None /\ stored' = stored /\ now' = now
      /\ calls' = Append(calls, [set |-> name, to |-> to])
  BY CallKeeps DEF Setup!SetPart
<1>2. builder' = [builder EXCEPT !.parts[name] = to] /\ policy_builder' = policy_builder
  BY DEF Setup!SetPart
<1>3. calls \in Seq(SetterCalls) /\ policy_builder \in Setup!PolicyConfigs
      /\ builder \in ConfigBuilders /\ Chosen(calls, builder.parts, policy_builder, builder.policy)
  BY DEF CInv
<1>4. /\ builder' \in ConfigBuilders /\ builder'.policy = builder.policy
      /\ builder'.parts = [builder.parts EXCEPT ![name] = to]
      /\ builder.parts \in [Setup!Names -> Parts \cup {NotSet}]
  BY <1>2, <1>3 DEF ConfigBuilders
<1>5. Chosen(calls', builder'.parts, policy_builder', builder'.policy)
  <2>1. Chosen(Append(calls, [set |-> name, to |-> to]), [builder.parts EXCEPT ![name] = to],
               policy_builder, builder.policy)
    BY <1>3, <1>4, PartChosen
  <2>2. QED
    BY <1>1, <1>2, <1>4, <2>1
<1>6. calls' \in Seq(SetterCalls)
  <2>1. [set |-> name, to |-> to] \in SetterCalls
    BY DEF SetterCalls, ChoiceValues
  <2>2. QED
    BY <1>1, <1>3, <2>1
<1>7. QED
  BY <1>1, <1>2, <1>3, <1>4, <1>5, <1>6 DEF CInv

LEMMA BuildC == ASSUME CInv, Setup!Build PROVE CInv'
<1>1. value = None
  BY DEF CInv, Setup!Build
<1>2. QED
  BY <1>1 DEF CInv, Setup!Build, Setup!BuildDefaults

LEMMA StoreC == ASSUME CInv, Setup!Store PROVE CInv'
<1>1. config.policy \in Setup!PolicyConfigs
  BY DEF CInv, Setup!Store, ConfigBuilders
<1>2. now \in 0..MAX_TIME /\ now \in 0..now
  BY ConfigFacts DEF CInv
<1>3. QED
  BY <1>1, <1>2 DEF CInv, Setup!Store, Setup!BuildDefaults, Setup!EntityPolicyConfig

LEMMA TickC == ASSUME CInv, Setup!Tick PROVE CInv'
<1>1. now' \in 0..MAX_TIME /\ stored' \in 0..now'
  BY ConfigFacts DEF CInv, Setup!Tick
<1>2. QED
  BY <1>1 DEF CInv, Setup!Tick, Setup!BuildDefaults, Setup!EntityPolicyConfig

LEMMA NextC == CInv /\ (Setup!Next \/ UNCHANGED Setup!vars) => CInv'
<1>1. CInv /\ UNCHANGED Setup!vars => CInv'
  BY DEF CInv, Setup!vars, Setup!BuildDefaults, Setup!EntityPolicyConfig
<1>2. CInv /\ Setup!Next => CInv'
  BY PolicyFieldsC, PolicyC, PartC, BuildC, StoreC, TickC DEF Setup!Next
<1>3. QED
  BY <1>1, <1>2

-----------------------------------------------------------------------------
LEMMA ConfigTypes == CInv => Setup!TypeOK
<1> SUFFICES ASSUME CInv PROVE Setup!TypeOK
  OBVIOUS
<1>1. config # None => /\ config.parts \in [Setup!Names -> Parts \cup {Default}]
                       /\ config.policy \in Setup!PolicyConfigs \cup {Disabled}
  BY DEF CInv, ConfigBuilders, Setup!BuildDefaults
<1>2. value \in Setup!CacheValues \cup {None}
  <2> SUFFICES ASSUME value # None PROVE value \in Setup!CacheValues
    OBVIOUS
  <2>1. /\ value = Setup!FreshValue(0, Setup!EntityPolicyConfig, stored)
        /\ config.policy.ttl \in Nat \cup {None} /\ config.policy.stale \in Nat \cup {None}
        /\ stored \in Nat
    <3>1. now \in Nat /\ stored \in Nat
      BY ConfigFacts DEF CInv
    <3>2. config.policy \in Setup!PolicyConfigs
      BY DEF CInv
    <3>3. QED
      BY <3>1, <3>2, ConfigFacts DEF CInv, Setup!PolicyConfigs
  <2>2. QED
    BY <2>1 DEF Setup!FreshValue, Setup!After, Setup!EntityPolicyConfig, Setup!CacheValues,
       Setup!Times
<1>3. /\ builder.kind \in Setup!Builders /\ builder.policy \in Setup!PolicyConfigs \cup {Disabled}
      /\ builder.parts \in [Setup!Names -> Parts \cup {NotSet}]
  BY DEF CInv, ConfigBuilders
<1>4. QED
  BY <1>1, <1>2, <1>3 DEF CInv, Setup!TypeOK

LEMMA ConfigChoices == CInv => Setup!EveryChoiceCounts
<1> SUFFICES ASSUME CInv, config # None PROVE Setup!EveryChoiceCounts
  BY DEF Setup!EveryChoiceCounts
<1>1. config.parts = Setup!BuildDefaults /\ config.policy = builder.policy
  BY DEF CInv
<1>2. \A name \in Setup!Names : config.parts[name] = Setup!LastOf(calls, name, Default)
  BY <1>1 DEF CInv, Chosen, Setup!BuildDefaults
<1> DEFINE at == {i \in DOMAIN calls : calls[i].set = "policy"}
<1>3. config.policy = IF at = {} THEN Setup!DefaultPolicy ELSE AskedIn(calls, Last(at))
  BY <1>1 DEF CInv, Chosen, PolicyIn
<1>4. config.policy = IF at = {} THEN Setup!DefaultPolicy
                      ELSE Setup!AskedPolicy(CHOOSE i \in at : \A j \in at : j <= i)
  BY <1>3, AskedIsIn DEF Last
<1>5. QED
  BY <1>2, <1>4 DEF Setup!EveryChoiceCounts

LEMMA ConfigStale == CInv => Setup!StaleBeforeExpired
<1> SUFFICES ASSUME CInv, value # None PROVE Setup!StaleBeforeExpired
  BY DEF Setup!StaleBeforeExpired
<1>1. /\ value = Setup!FreshValue(0, Setup!EntityPolicyConfig, stored)
      /\ config.policy.ttl \in Nat \cup {None} /\ config.policy.stale \in Nat \cup {None}
      /\ stored \in Nat /\ now \in Nat
  <2>1. now \in Nat /\ stored \in Nat
    BY ConfigFacts DEF CInv
  <2>2. config.policy \in Setup!PolicyConfigs
    BY DEF CInv
  <2>3. QED
    BY <2>1, <2>2, ConfigFacts DEF CInv, Setup!PolicyConfigs
<1>2. /\ value.expire = Setup!After(config.policy.ttl, stored)
      /\ value.stale = Setup!After(config.policy.stale, stored)
  BY <1>1 DEF Setup!FreshValue, Setup!EntityPolicyConfig
<1>3. ASSUME NEW d \in Nat \cup {None} PROVE Setup!Passed(Setup!After(d, stored), now) <=> Setup!Over(d)
  BY <1>1, CacheValueAssumption DEF Setup!Passed, Setup!After, Setup!Over, Setup!Age
<1>4. QED
  BY <1>1, <1>2, <1>3 DEF Setup!StaleBeforeExpired, Setup!CacheState

PolicyNames    == {"read", "write", "refill"}
PolicyRecords == [read : Builder!Choices("read"), write : Builder!Choices("write"),
                  refill : Builder!Choices("refill")]
AllSettings   == UNION {Builder!Settings(type) : type \in Builder!Types}
SetterNames   == AllSettings \cup PolicyNames \cup {"policy"}
AllChoices    == UNION {Builder!Choices(name) : name \in SetterNames}
SetterValues  == AllChoices \cup PolicyRecords
SetterRecords == {"builder", "policy", "composition"} \X SetterNames \X SetterValues

Sets(e, what, name) ==
    e[1] = what /\ (e[2] = name \/ (e[2] = "policy" /\ name \in PolicyNames))
ValueOf(e, name) == IF e[2] = name THEN e[3] ELSE e[3][name]

ChosenIn(seq, what, name, default) ==
    LET at == {i \in DOMAIN seq : Sets(seq[i], what, name)}
    IN IF at = {} THEN default ELSE ValueOf(seq[Last(at)], name)

LEMMA ChosenNone ==
    \A what, name, default : ChosenIn(<<>>, what, name, default) = default
  BY DEF ChosenIn

LEMMA ChosenAppend ==
    ASSUME NEW seq \in Seq(SetterRecords), NEW e \in SetterRecords,
           NEW what, NEW name, NEW default
    PROVE  ChosenIn(Append(seq, e), what, name, default) =
              IF Sets(e, what, name) THEN ValueOf(e, name)
              ELSE ChosenIn(seq, what, name, default)
<1> DEFINE n == Len(seq)
           longer == Append(seq, e)
           at == {i \in DOMAIN seq : Sets(seq[i], what, name)}
           then == {i \in DOMAIN longer : Sets(longer[i], what, name)}
<1>1. n \in Nat /\ DOMAIN seq = 1..n /\ DOMAIN longer = 1..(n + 1)
  OBVIOUS
<1>2. longer[n + 1] = e /\ \A i \in 1..n : longer[i] = seq[i]
  OBVIOUS
<1>3. then = IF Sets(e, what, name) THEN at \cup {n + 1} ELSE at
  <2> HIDE DEF longer, n
  <2>1. QED
    BY <1>1, <1>2
<1>4. at \in SUBSET (0..n) /\ at \subseteq 1..n
  BY <1>1
<1>5. ChosenIn(seq, what, name, default) =
         IF at = {} THEN default ELSE ValueOf(seq[Last(at)], name)
  BY DEF ChosenIn
<1>6. ChosenIn(longer, what, name, default) =
         IF then = {} THEN default ELSE ValueOf(longer[Last(then)], name)
  BY DEF ChosenIn
<1> HIDE DEF at, then, n, longer
<1>7. CASE Sets(e, what, name)
  <2>1. Last(then) = n + 1
    BY <1>1, <1>3, <1>4, <1>7, LastIsEnd
  <2>2. QED
    BY <1>2, <1>3, <1>6, <1>7, <2>1 DEF longer
<1>8. CASE ~Sets(e, what, name)
  <2>1. at # {} => Last(at) \in 1..n
    BY <1>1, <1>4, LastIn
  <2>2. QED
    BY <1>2, <1>3, <1>5, <1>6, <1>8, <2>1 DEF longer
<1>9. QED
  BY <1>7, <1>8

-----------------------------------------------------------------------------
Compressors == {Builder!Passthrough} \cup {<<"Gzip", n>> : n \in 0..9}
               \cup {<<"Zstd", n>> : n \in -7..22}

BuilderTypes ==
    /\ builder.type \in Builder!Types /\ builder \in Builder!Layers(builder.type)
    /\ builder.key_format \in Builder!Choices("key_format")
    /\ builder.value_format \in Builder!Choices("value_format")
    /\ builder.compressor \in Compressors
    /\ policy \in PolicyRecords
    /\ l1 \in {None, builder}
    /\ calls \in Seq(SetterRecords)

(* What was chosen is what is there. *)
BuilderChosen ==
    \A name \in Builder!Settings(builder.type) :
        builder[name] = ChosenIn(calls, "builder", name, Builder!DefaultOf(builder.type, name))

OfBackend(name) ==
    IF backend # None THEN backend[name]
    ELSE IF name = "label" THEN "composition" ELSE Builder!NewPolicy[name]

BackendChosen ==
    \A name \in PolicyNames \cup {"label"} :
        OfBackend(name) = ChosenIn(calls, "composition", name,
                             IF name = "label" THEN "composition" ELSE Builder!NewPolicy[name])

BackendBuilt ==
    backend # None =>
        /\ l1 = builder /\ backend.l1 = builder /\ backend.l2 = Builder!L2
        /\ backend \in Builder!Compositions(builder.type)
        /\ \A name \in PolicyNames : backend[name] \in Builder!Choices(name)
        /\ backend.l1_label = <<backend.label, backend.l1.label>>
        /\ backend.l2_label = <<backend.label, backend.l2.label>>

BInv == BuilderTypes /\ BuilderChosen /\ BackendChosen /\ BackendBuilt

-----------------------------------------------------------------------------
LEMMA BuilderFacts ==
    /\ None \notin Options /\ Levels \subseteq Int /\ Options # {}
    /\ \A type \in Builder!Types :
          None \notin Builder!Compositions(type) /\ None \notin Builder!Layers(type)
  BY ServiceAssumption DEF Builder!BuilderOK, Builder!ConstantsOK

LEMMA SettingsNames ==
    ASSUME NEW type \in Builder!Types
    PROVE  /\ {"key_format", "value_format", "compressor", "label"} \subseteq Builder!Settings(type)
           /\ Builder!Settings(type) \cap (PolicyNames \cup {"type", "policy"}) = {}
  BY DEF Builder!Settings, Builder!Own, Builder!Place, Builder!Types, PolicyNames

LEMMA ChoiceTypes ==
    /\ \A type \in Builder!Types : \A name \in Builder!Settings(type) :
          Builder!Choices(name) \subseteq Builder!Values
    /\ Builder!Choices("compressor") \subseteq Compressors
<1> USE BuilderFacts
<1>1. Builder!Choices("compressor") \subseteq Compressors
  BY DEF Builder!Choices, Builder!Gzip, Builder!Zstd, Compressors
<1>2. Compressors \subseteq Builder!Values
  BY DEF Compressors, Builder!Passthrough, Builder!Values
<1>3. ASSUME NEW type \in Builder!Types, NEW name \in Builder!Settings(type)
      PROVE Builder!Choices(name) \subseteq Builder!Values
  <2>1. CASE name = "compressor"
    BY <1>1, <1>2, <2>1
  <2>2. CASE name # "compressor"
    BY <2>2, SettingsNames DEF Builder!Choices, Builder!Values, Builder!Words, PolicyNames
  <2>3. QED
    BY <2>1, <2>2
<1>4. QED
  BY <1>1, <1>3

LEMMA NewBuilderTypes ==
    ASSUME NEW type \in Builder!Types
    PROVE  /\ Builder!NewBuilder(type) \in Builder!Layers(type)
           /\ Builder!NewBuilder(type).type = type
           /\ Builder!NewBuilder(type).key_format \in Builder!Choices("key_format")
           /\ Builder!NewBuilder(type).value_format \in Builder!Choices("value_format")
           /\ Builder!NewBuilder(type).compressor \in Compressors
           /\ \A name \in Builder!Settings(type) :
                 Builder!NewBuilder(type)[name] = Builder!DefaultOf(type, name)
<1>1. \A name \in Builder!Settings(type) : Builder!DefaultOf(type, name) \in Builder!Values
  BY DEF Builder!DefaultOf, Builder!Values, Builder!Words, Builder!Passthrough, Builder!Types
<1>2. type \in Builder!Values
  BY DEF Builder!Types, Builder!Values
<1>3. Builder!NewBuilder(type) \in Builder!Layers(type)
  BY <1>1, <1>2 DEF Builder!NewBuilder, Builder!Layers
<1>4. \A name \in Builder!Settings(type) :
         name # "type" /\ Builder!NewBuilder(type)[name] = Builder!DefaultOf(type, name)
  BY SettingsNames DEF Builder!NewBuilder
<1>5. Builder!NewBuilder(type).type = type
  BY DEF Builder!NewBuilder
<1>6. /\ Builder!DefaultOf(type, "key_format") \in Builder!Choices("key_format")
      /\ Builder!DefaultOf(type, "value_format") \in Builder!Choices("value_format")
      /\ Builder!DefaultOf(type, "compressor") \in Compressors
  BY DEF Builder!DefaultOf, Builder!Choices, Compressors
<1>7. QED
  BY <1>3, <1>4, <1>5, <1>6, SettingsNames

LEMMA NewPolicyTypes == Builder!NewPolicy \in PolicyRecords
  BY DEF Builder!NewPolicy, PolicyRecords, PolicyNames, Builder!Choices

LEMMA InitB == Builder!Init => BInv
<1> SUFFICES ASSUME Builder!Init PROVE BInv
  OBVIOUS
<1>1. PICK type \in Builder!Types : builder = Builder!NewBuilder(type)
  BY DEF Builder!Init
<1>2. calls = <<>> /\ policy = Builder!NewPolicy /\ l1 = None /\ backend = None
  BY DEF Builder!Init
<1>3. BuilderTypes
  BY <1>1, <1>2, NewBuilderTypes, NewPolicyTypes DEF BuilderTypes
<1>4. BuilderChosen
  BY <1>1, <1>2, NewBuilderTypes, ChosenNone DEF BuilderChosen
<1>5. BackendChosen
  BY <1>2, ChosenNone DEF BackendChosen, OfBackend
<1>6. QED
  BY <1>2, <1>3, <1>4, <1>5 DEF BInv, BackendBuilt

LEMMA RecordTypes ==
    /\ \A what \in {"builder", "policy", "composition"}, name \in SetterNames :
          \A v \in Builder!Choices(name) : <<what, name, v>> \in SetterRecords
    /\ \A p \in PolicyRecords : <<"composition", "policy", p>> \in SetterRecords
    /\ PolicyNames \cup {"policy"} \subseteq SetterNames
    /\ \A type \in Builder!Types : Builder!Settings(type) \subseteq SetterNames
<1>1. \A name \in SetterNames : Builder!Choices(name) \subseteq SetterValues
  BY DEF SetterValues, AllChoices
<1>2. PolicyRecords \subseteq SetterValues
  BY DEF SetterValues
<1>3. PolicyNames \cup {"policy"} \subseteq SetterNames
  BY DEF SetterNames
<1>4. \A type \in Builder!Types : Builder!Settings(type) \subseteq SetterNames
  BY DEF SetterNames, AllSettings
<1>5. "policy" \in SetterNames
  BY <1>3
<1>6. \A what \in {"builder", "policy", "composition"}, name \in SetterNames, v \in SetterValues :
         <<what, name, v>> \in SetterRecords
  BY DEF SetterRecords
<1>7. QED
  BY <1>1, <1>2, <1>3, <1>4, <1>5, <1>6

LEMMA SettingB == ASSUME BInv, Builder!SetOption PROVE BInv'
<1>0. PICK name \in Builder!Settings(builder.type) : \E v \in Builder!Choices(name) :
         Builder!Called("builder", name, v) /\ builder' = Builder!Set(builder, name, v)
  BY DEF Builder!SetOption
<1>1. PICK v \in Builder!Choices(name) :
         Builder!Called("builder", name, v) /\ builder' = Builder!Set(builder, name, v)
  BY <1>0
<1> DEFINE e == <<"builder", name, v>>
           type == builder.type
<1>2. /\ l1 = None /\ l1' = None /\ policy' = policy /\ backend' = backend
      /\ calls' = Append(calls, e)
  BY <1>1 DEF Builder!SetOption, Builder!Called
<1>3. /\ type \in Builder!Types /\ builder \in Builder!Layers(type) /\ builder.compressor \in Compressors
      /\ calls \in Seq(SetterRecords)
  BY DEF BInv, BuilderTypes
<1>4. backend = None
  BY <1>2, <1>3, BuilderFacts DEF BInv, BackendBuilt
<1>5. v \in Builder!Values /\ name \notin PolicyNames \cup {"type", "policy"}
  BY <1>3, ChoiceTypes, SettingsNames
<1>6. builder' \in Builder!Layers(type)
      /\ \A x \in Builder!Settings(type) \cup {"type"} : builder'[x] = IF x = name THEN v ELSE builder[x]
  BY <1>1, <1>3, <1>5 DEF Builder!Set, Builder!Layers
<1>7. builder'.type = type
  BY <1>5, <1>6
<1>8. e \in SetterRecords
  BY <1>1, <1>3, RecordTypes
<1>9. calls' \in Seq(SetterRecords)
  BY <1>2, <1>3, <1>8
<1>10. BuilderTypes'
  <2>1. /\ builder'.key_format \in Builder!Choices("key_format")
        /\ builder'.value_format \in Builder!Choices("value_format")
        /\ builder'.compressor \in Compressors
    BY <1>3, <1>6, ChoiceTypes, SettingsNames DEF BInv, BuilderTypes
  <2>2. QED
    BY <1>2, <1>3, <1>6, <1>7, <1>9, <2>1 DEF BInv, BuilderTypes
<1>11. BuilderChosen'
  <2>1. ASSUME NEW x \in Builder!Settings(type)
        PROVE  builder'[x] = ChosenIn(calls', "builder", x, Builder!DefaultOf(type, x))
    <3>1. ChosenIn(calls', "builder", x, Builder!DefaultOf(type, x)) =
             IF Sets(e, "builder", x) THEN ValueOf(e, x)
             ELSE ChosenIn(calls, "builder", x, Builder!DefaultOf(type, x))
      BY <1>2, <1>3, <1>8, ChosenAppend
    <3>2. Sets(e, "builder", x) <=> name = x
      BY <1>5 DEF Sets
    <3>3. name = x => ValueOf(e, x) = v
      BY DEF ValueOf
    <3>4. builder[x] = ChosenIn(calls, "builder", x, Builder!DefaultOf(type, x))
      BY DEF BInv, BuilderChosen
    <3>5. builder'[x] = IF x = name THEN v ELSE builder[x]
      BY <1>6
    <3> HIDE DEF e
    <3>6. QED
      BY <3>1, <3>2, <3>3, <3>4, <3>5
  <2>2. QED
    BY <1>7, <2>1 DEF BuilderChosen
<1>12. BackendChosen'
  <2>1. ASSUME NEW x \in PolicyNames \cup {"label"}, NEW default
        PROVE  ChosenIn(calls', "composition", x, default) = ChosenIn(calls, "composition", x, default)
    <3>1. ~Sets(e, "composition", x)
      BY DEF Sets
    <3> HIDE DEF e
    <3>2. QED
      BY <1>2, <1>3, <1>8, <3>1, ChosenAppend
  <2>2. QED
    BY <1>2, <2>1 DEF BInv, BackendChosen, OfBackend
<1>13. QED
  BY <1>2, <1>4, <1>10, <1>11, <1>12 DEF BInv, BackendBuilt

LEMMA LayerB == ASSUME BInv, Builder!BuildLayer PROVE BInv'
<1>1. l1' \in {None, builder}
  BY DEF Builder!BuildLayer, Builder!Build
<1>2. builder' = builder /\ policy' = policy /\ backend' = backend /\ calls' = calls /\ l1 = None
  BY DEF Builder!BuildLayer
<1>3. builder # None
  BY BuilderFacts DEF BInv, BuilderTypes
<1>4. backend = None
  BY <1>2, <1>3 DEF BInv, BackendBuilt
<1>5. BuilderTypes'
  BY <1>1, <1>2 DEF BInv, BuilderTypes
<1>6. QED
  BY <1>2, <1>4, <1>5 DEF BInv, BuilderChosen, BackendChosen, BackendBuilt, OfBackend

LEMMA PolicySet ==
    ASSUME policy \in PolicyRecords, NEW name \in DOMAIN policy, NEW v \in Builder!Choices(name)
    PROVE  name \in PolicyNames /\ [policy EXCEPT ![name] = v] \in PolicyRecords
<1>1. DOMAIN policy = PolicyNames
  BY DEF PolicyRecords, PolicyNames
<1>2. CASE name = "read"
  BY <1>1, <1>2 DEF PolicyRecords
<1>3. CASE name = "write"
  BY <1>1, <1>3 DEF PolicyRecords
<1>4. CASE name = "refill"
  BY <1>1, <1>4 DEF PolicyRecords
<1>5. QED
  BY <1>1, <1>2, <1>3, <1>4 DEF PolicyNames

LEMMA PolicyB == ASSUME BInv, Builder!SetPolicy PROVE BInv'
<1>0. PICK name \in DOMAIN policy : \E v \in Builder!Choices(name) :
         Builder!Called("policy", name, v) /\ policy' = [policy EXCEPT ![name] = v]
  BY DEF Builder!SetPolicy
<1>1. PICK v \in Builder!Choices(name) :
         Builder!Called("policy", name, v) /\ policy' = [policy EXCEPT ![name] = v]
  BY <1>0
<1> DEFINE e == <<"policy", name, v>>
<1>2. /\ builder' = builder /\ l1' = l1 /\ backend' = backend /\ calls' = Append(calls, e)
  BY <1>1 DEF Builder!SetPolicy, Builder!Called
<1>3. calls \in Seq(SetterRecords) /\ policy \in PolicyRecords
  BY DEF BInv, BuilderTypes
<1>4. name \in PolicyNames /\ policy' \in PolicyRecords
  BY <1>1, <1>3, PolicySet
<1>5. e \in SetterRecords
  BY <1>1, <1>4, RecordTypes
<1>6. calls' \in Seq(SetterRecords)
  BY <1>2, <1>3, <1>5
<1>7. ASSUME NEW what \in {"builder", "composition"}, NEW x, NEW default
      PROVE  ChosenIn(calls', what, x, default) = ChosenIn(calls, what, x, default)
  <2>1. ~Sets(e, what, x)
    BY DEF Sets
  <2> HIDE DEF e
  <2>2. QED
    BY <1>2, <1>3, <1>5, <2>1, ChosenAppend
<1>8. BuilderTypes'
  BY <1>2, <1>4, <1>6 DEF BInv, BuilderTypes
<1>9. BuilderChosen'
  BY <1>2, <1>7 DEF BInv, BuilderChosen
<1>10. BackendChosen'
  BY <1>2, <1>7 DEF BInv, BackendChosen, OfBackend
<1>11. QED
  BY <1>2, <1>8, <1>9, <1>10 DEF BInv, BackendBuilt

LEMMA L2Type == Builder!L2 \in Builder!Layers("Redis")
<1> DEFINE v == CHOOSE o \in Options : TRUE
<1>1. v \in Builder!Values
  BY BuilderFacts DEF Builder!Values
<1>2. Builder!NewBuilder("Redis") \in Builder!Layers("Redis")
  BY NewBuilderTypes DEF Builder!Types
<1> HIDE DEF v
<1>3. [Builder!NewBuilder("Redis") EXCEPT !["mode"] = v] \in Builder!Layers("Redis")
  BY <1>1, <1>2 DEF Builder!Layers
<1>4. QED
  BY <1>3 DEF Builder!L2, Builder!Set, v

LEMMA BuiltIsOne ==
    ASSUME BInv, backend # None
    PROVE  /\ backend.l1 = builder /\ backend.l2 = Builder!L2
           /\ backend \in Builder!Compositions(builder.type)
  BY DEF BInv, BackendBuilt

LEMMA LayerHasLabel ==
    ASSUME NEW type \in Builder!Types, NEW layer \in Builder!Layers(type)
    PROVE  layer.label \in Builder!Values
  BY SettingsNames DEF Builder!Layers

(* A new composition has the defaults. *)
LEMMA ComposedTypes ==
    ASSUME BInv, l1 # None
    PROVE  LET new == Builder!NewComposition(l1, Builder!L2)
           IN  /\ new \in Builder!Compositions(builder.type)
               /\ l1 = builder /\ new.l1 = builder /\ new.l2 = Builder!L2
               /\ \A name \in PolicyNames : new[name] = Builder!NewPolicy[name]
               /\ new.label = "composition"
               /\ new.l1_label = <<new.label, new.l1.label>>
               /\ new.l2_label = <<new.label, new.l2.label>>
<1> DEFINE new == Builder!NewComposition(l1, Builder!L2)
<1>1. l1 = builder /\ builder.type \in Builder!Types /\ l1 \in Builder!Layers(builder.type)
  BY DEF BInv, BuilderTypes
<1>2. l1.label \in Builder!Values /\ Builder!L2.label \in Builder!Values
  BY <1>1, L2Type, LayerHasLabel DEF Builder!Types
<1>3. "composition" \in Builder!Values
  BY DEF Builder!Values, Builder!Words
<1> DEFINE l2 == Builder!L2
<1>4. new = [type |-> "Composition", l1 |-> l1, l2 |-> l2,
             read |-> "Sequential", write |-> "OptimisticParallel", refill |-> "Never",
             label |-> "composition",
             l1_label |-> <<"composition", l1.label>>, l2_label |-> <<"composition", l2.label>>]
  BY DEF Builder!NewComposition, Builder!NewPolicy
<1>5. l2 \in Builder!Layers("Redis") /\ l2.label \in Builder!Values
  BY <1>2, L2Type
<1> HIDE DEF l2, new
<1>6. new \in Builder!Compositions(builder.type)
  BY <1>1, <1>2, <1>3, <1>4, <1>5 DEF Builder!Compositions
<1>7. \A name \in PolicyNames : new[name] = Builder!NewPolicy[name]
  BY <1>4 DEF PolicyNames, Builder!NewPolicy
<1>8. /\ new.l1 = l1 /\ new.l2 = l2 /\ new.label = "composition"
      /\ new.l1_label = <<new.label, new.l1.label>> /\ new.l2_label = <<new.label, new.l2.label>>
  BY <1>4
<1>9. QED
  BY <1>1, <1>6, <1>7, <1>8 DEF new, l2

(* The steps that make a composition or change it: all but its policies and *)
(* labels stay.                                                             *)
LEMMA BackendB ==
    ASSUME BInv, builder' = builder, policy' = policy, l1' = l1, l1 = builder,
           calls' \in Seq(SetterRecords),
           backend' \in Builder!Compositions(builder.type),
           backend'.l1 = builder, backend'.l2 = Builder!L2,
           \A name \in PolicyNames : backend'[name] \in Builder!Choices(name),
           backend'.l1_label = <<backend'.label, backend'.l1.label>>,
           backend'.l2_label = <<backend'.label, backend'.l2.label>>,
           \A name, default : ChosenIn(calls', "builder", name, default)
                                = ChosenIn(calls, "builder", name, default),
           \A name \in PolicyNames \cup {"label"} :
              backend'[name] = ChosenIn(calls', "composition", name,
                                  IF name = "label" THEN "composition" ELSE Builder!NewPolicy[name])
    PROVE  BInv'
<1>1. builder.type \in Builder!Types
  BY DEF BInv, BuilderTypes
<1>2. backend' # None
  BY <1>1, BuilderFacts
<1>3. BuilderTypes'
  BY DEF BInv, BuilderTypes
<1>4. BuilderChosen'
  BY DEF BInv, BuilderChosen
<1>5. BackendChosen'
  BY <1>2 DEF BackendChosen, OfBackend
<1>6. BackendBuilt'
  BY DEF BackendBuilt
<1>7. QED
  BY <1>3, <1>4, <1>5, <1>6 DEF BInv

LEMMA ComposeB == ASSUME BInv, Builder!Compose PROVE BInv'
<1>1. /\ l1 # None /\ backend = None /\ backend' = Builder!NewComposition(l1, Builder!L2)
      /\ builder' = builder /\ policy' = policy /\ l1' = l1 /\ calls' = calls
  BY DEF Builder!Compose
<1>2. calls \in Seq(SetterRecords)
  BY DEF BInv, BuilderTypes
<1>3. \A name \in PolicyNames : Builder!NewPolicy[name] \in Builder!Choices(name)
  BY NewPolicyTypes DEF PolicyNames, PolicyRecords
<1>4. \A name \in PolicyNames \cup {"label"} :
         (IF name = "label" THEN "composition" ELSE Builder!NewPolicy[name]) =
            ChosenIn(calls, "composition", name,
                     IF name = "label" THEN "composition" ELSE Builder!NewPolicy[name])
  BY <1>1 DEF BInv, BackendChosen, OfBackend
<1>5. "label" \notin PolicyNames
  BY DEF PolicyNames
<1> DEFINE new == Builder!NewComposition(l1, Builder!L2)
<1>6. /\ new \in Builder!Compositions(builder.type)
      /\ l1 = builder /\ new.l1 = builder /\ new.l2 = Builder!L2
      /\ \A name \in PolicyNames : new[name] = Builder!NewPolicy[name]
      /\ new["label"] = "composition"
      /\ new.l1_label = <<new.label, new.l1.label>>
      /\ new.l2_label = <<new.label, new.l2.label>>
  BY <1>1, ComposedTypes
<1> HIDE DEF new
<1>7. backend' = new
  BY <1>1 DEF new
<1>8. \A name \in PolicyNames \cup {"label"} :
         new[name] = ChosenIn(calls, "composition", name,
                        IF name = "label" THEN "composition" ELSE Builder!NewPolicy[name])
  BY <1>4, <1>5, <1>6
<1>9. QED
  BY <1>1, <1>2, <1>3, <1>6, <1>7, <1>8, BackendB

LEMMA WithPolicyTypes ==
    ASSUME NEW type, NEW c \in Builder!Compositions(type), NEW p \in PolicyRecords
    PROVE  LET with == Builder!WithPolicy(c, p)
           IN  /\ with \in Builder!Compositions(type)
               /\ with.l1 = c.l1 /\ with.l2 = c.l2 /\ with.label = c.label
               /\ with.l1_label = c.l1_label /\ with.l2_label = c.l2_label
               /\ \A name \in PolicyNames : with[name] = p[name]
<1>1. p.read \in {"Sequential", "Race", "Parallel"} /\ p.refill \in {"Always", "Never"}
      /\ p.write \in {"Sequential", "OptimisticParallel", "Race"}
  BY DEF PolicyRecords, Builder!Choices
<1>2. QED
  BY <1>1 DEF Builder!WithPolicy, Builder!Compositions, PolicyNames

(* compose_with() and with_policy() *)
LEMMA AllPolicies ==
    ASSUME BInv, l1 # None, NEW c \in Builder!Compositions(builder.type),
           c.l1 = builder, c.l2 = Builder!L2,
           c.l1_label = <<c.label, c.l1.label>>, c.l2_label = <<c.label, c.l2.label>>,
           c.label = OfBackend("label"),
           Builder!Called("composition", "policy", policy),
           backend' = Builder!WithPolicy(c, policy),
           builder' = builder, policy' = policy, l1' = l1
    PROVE  BInv'
<1> DEFINE e == <<"composition", "policy", policy>>
<1>1. /\ calls \in Seq(SetterRecords) /\ policy \in PolicyRecords /\ l1 = builder
      /\ builder.type \in Builder!Types
  BY DEF BInv, BuilderTypes
<1>2. e \in SetterRecords /\ calls' = Append(calls, e)
  BY <1>1, RecordTypes DEF Builder!Called
<1>3. e[1] = "composition" /\ e[2] = "policy" /\ e[3] = policy
  OBVIOUS
<1> HIDE DEF e
<1>4. calls' \in Seq(SetterRecords)
  BY <1>1, <1>2
<1>5. \A name, default : ChosenIn(calls', "builder", name, default)
                           = ChosenIn(calls, "builder", name, default)
  BY <1>1, <1>2, <1>3, ChosenAppend DEF Sets
<1>6. "label" \notin PolicyNames /\ "policy" \notin PolicyNames
  BY DEF PolicyNames
<1>7. \A name \in PolicyNames : \A default :
         ChosenIn(calls', "composition", name, default) = policy[name]
  BY <1>1, <1>2, <1>3, <1>6, ChosenAppend DEF Sets, ValueOf
<1>8. ChosenIn(calls', "composition", "label", "composition") = OfBackend("label")
  <2>1. ~Sets(e, "composition", "label")
    BY <1>3, <1>6 DEF Sets
  <2>2. ChosenIn(calls', "composition", "label", "composition") =
           ChosenIn(calls, "composition", "label", "composition")
    BY <1>1, <1>2, <2>1, ChosenAppend
  <2>3. QED
    BY <2>2 DEF BInv, BackendChosen
<1>9. \A name \in PolicyNames : policy[name] \in Builder!Choices(name)
  BY <1>1 DEF PolicyNames, PolicyRecords
<1> DEFINE with == Builder!WithPolicy(c, policy)
<1>10. /\ with \in Builder!Compositions(builder.type)
       /\ with.l1 = c.l1 /\ with.l2 = c.l2 /\ with["label"] = OfBackend("label")
       /\ with.l1_label = <<with.label, with.l1.label>>
       /\ with.l2_label = <<with.label, with.l2.label>>
       /\ \A name \in PolicyNames : with[name] = policy[name]
  BY <1>1, WithPolicyTypes
<1> HIDE DEF with
<1>11. backend' = with
  BY DEF with
<1>12. \A name \in PolicyNames \cup {"label"} :
         with[name] = ChosenIn(calls', "composition", name,
                        IF name = "label" THEN "composition" ELSE Builder!NewPolicy[name])
  BY <1>6, <1>7, <1>8, <1>10
<1>13. QED
  BY <1>1, <1>4, <1>5, <1>9, <1>10, <1>11, <1>12, BackendB

LEMMA ComposeWithB == ASSUME BInv, Builder!ComposeWith PROVE BInv'
<1>1. /\ l1 # None /\ backend = None
      /\ Builder!Called("composition", "policy", policy)
      /\ builder' = builder /\ policy' = policy /\ l1' = l1
  BY DEF Builder!ComposeWith
<1> DEFINE new == Builder!NewComposition(l1, Builder!L2)
<1>2. /\ new \in Builder!Compositions(builder.type)
      /\ new.l1 = builder /\ new.l2 = Builder!L2 /\ new.label = "composition"
      /\ new.l1_label = <<new.label, new.l1.label>>
      /\ new.l2_label = <<new.label, new.l2.label>>
  BY <1>1, ComposedTypes
<1>3. backend' = Builder!WithPolicy(new, policy)
  BY DEF Builder!ComposeWith
<1> HIDE DEF new
<1>4. new.label = OfBackend("label")
  BY <1>1, <1>2 DEF OfBackend
<1>5. QED
  BY <1>1, <1>2, <1>3, <1>4, AllPolicies

LEMMA AllB == ASSUME BInv, Builder!SetAll PROVE BInv'
<1>1. /\ backend # None /\ Builder!Called("composition", "policy", policy)
      /\ backend' = Builder!WithPolicy(backend, policy)
      /\ builder' = builder /\ policy' = policy /\ l1' = l1
  BY DEF Builder!SetAll
<1>2. /\ backend \in Builder!Compositions(builder.type) /\ l1 = builder
      /\ backend.l1 = builder /\ backend.l2 = Builder!L2
      /\ backend.l1_label = <<backend.label, backend.l1.label>>
      /\ backend.l2_label = <<backend.label, backend.l2.label>>
  BY <1>1 DEF BInv, BackendBuilt
<1>3. l1 # None
  BY <1>2, BuilderFacts DEF BInv, BuilderTypes
<1>4. backend.label = OfBackend("label")
  BY <1>1 DEF OfBackend
<1>5. QED
  BY <1>1, <1>2, <1>3, <1>4, AllPolicies

LEMMA OneB == ASSUME BInv, Builder!SetOne PROVE BInv'
<1>1. PICK name \in DOMAIN policy : \E v \in Builder!Choices(name) :
         Builder!Called("composition", name, v) /\ backend' = [backend EXCEPT ![name] = v]
  BY DEF Builder!SetOne
<1>2. PICK v \in Builder!Choices(name) :
         Builder!Called("composition", name, v) /\ backend' = [backend EXCEPT ![name] = v]
  BY <1>1
<1> DEFINE e == <<"composition", name, v>>
           type == builder.type
<1>3. backend # None /\ builder' = builder /\ policy' = policy /\ l1' = l1
      /\ calls' = Append(calls, e)
  BY <1>2 DEF Builder!SetOne, Builder!Called
<1>4. /\ calls \in Seq(SetterRecords) /\ policy \in PolicyRecords
      /\ backend \in Builder!Compositions(type) /\ l1 = builder
      /\ backend.l1 = builder /\ backend.l2 = Builder!L2
      /\ backend.l1_label = <<backend.label, backend.l1.label>>
      /\ backend.l2_label = <<backend.label, backend.l2.label>>
      /\ \A x \in PolicyNames : backend[x] \in Builder!Choices(x)
  BY <1>3 DEF BInv, BuilderTypes, BackendBuilt
<1>5. name \in PolicyNames
  BY <1>4, PolicySet
<1>6. e \in SetterRecords
  BY <1>5, RecordTypes
<1>7. e[1] = "composition" /\ e[2] = name /\ e[3] = v
  OBVIOUS
<1> HIDE DEF e
<1>8. calls' \in Seq(SetterRecords)
  BY <1>3, <1>4, <1>6
<1>9. \A x, default : ChosenIn(calls', "builder", x, default) = ChosenIn(calls, "builder", x, default)
  BY <1>3, <1>4, <1>6, <1>7, ChosenAppend DEF Sets
<1>10. /\ backend' \in Builder!Compositions(type)
       /\ backend'.l1 = builder /\ backend'.l2 = Builder!L2 /\ backend'.label = backend.label
       /\ backend'.l1_label = backend.l1_label /\ backend'.l2_label = backend.l2_label
       /\ \A x \in PolicyNames : backend'[x] = IF x = name THEN v ELSE backend[x]
  <2>1. CASE name = "read"
    <3>1. v \in {"Sequential", "Race", "Parallel"}
      BY <2>1 DEF Builder!Choices
    <3>2. QED
      BY <1>2, <1>4, <2>1, <3>1 DEF Builder!Compositions, PolicyNames
  <2>2. CASE name = "write"
    <3>1. v \in {"Sequential", "OptimisticParallel", "Race"}
      BY <2>2 DEF Builder!Choices
    <3>2. QED
      BY <1>2, <1>4, <2>2, <3>1 DEF Builder!Compositions, PolicyNames
  <2>3. CASE name = "refill"
    <3>1. v \in {"Always", "Never"}
      BY <2>3 DEF Builder!Choices
    <3>2. QED
      BY <1>2, <1>4, <2>3, <3>1 DEF Builder!Compositions, PolicyNames
  <2>4. QED
    BY <1>5, <2>1, <2>2, <2>3 DEF PolicyNames
<1>11. name # "policy" /\ name # "label" /\ "label" \notin PolicyNames
  BY <1>5 DEF PolicyNames
<1>12. ASSUME NEW x \in PolicyNames \cup {"label"}
       PROVE  backend'[x] = ChosenIn(calls', "composition", x,
                               IF x = "label" THEN "composition" ELSE Builder!NewPolicy[x])
  <2> DEFINE default == IF x = "label" THEN "composition" ELSE Builder!NewPolicy[x]
  <2>1. backend[x] = ChosenIn(calls, "composition", x, default)
    BY <1>3 DEF BInv, BackendChosen, OfBackend
  <2>2. backend'[x] = IF x = name THEN v ELSE backend[x]
    BY <1>10, <1>11
  <2> HIDE DEF default
  <2>3. ChosenIn(calls', "composition", x, default) =
           IF Sets(e, "composition", x) THEN ValueOf(e, x)
           ELSE ChosenIn(calls, "composition", x, default)
    BY <1>3, <1>4, <1>6, ChosenAppend
  <2>4. (Sets(e, "composition", x) <=> x = name) /\ ValueOf(e, name) = v
    BY <1>7, <1>11 DEF Sets, ValueOf
  <2>5. backend'[x] = ChosenIn(calls', "composition", x, default)
    BY <2>1, <2>2, <2>3, <2>4
  <2>6. QED
    BY <2>5 DEF default
<1>13. \A x \in PolicyNames : backend'[x] \in Builder!Choices(x)
  BY <1>4, <1>10
<1>14. /\ backend'.l1_label = <<backend'.label, backend'.l1.label>>
       /\ backend'.l2_label = <<backend'.label, backend'.l2.label>>
  BY <1>4, <1>10
<1>15. QED
  BY <1>3, <1>4, <1>8, <1>9, <1>10, <1>12, <1>13, <1>14, BackendB

LEMMA LabelB == ASSUME BInv, Builder!SetLabel PROVE BInv'
<1>1. PICK v \in Custom :
         Builder!Called("composition", "label", v) /\ backend' = Builder!Label(backend, v)
  BY DEF Builder!SetLabel
<1> DEFINE e == <<"composition", "label", v>>
           type == builder.type
<1>2. backend # None /\ builder' = builder /\ policy' = policy /\ l1' = l1
      /\ calls' = Append(calls, e)
  BY <1>1 DEF Builder!SetLabel, Builder!Called
<1>3. /\ calls \in Seq(SetterRecords)
      /\ backend \in Builder!Compositions(type) /\ l1 = builder /\ type \in Builder!Types
      /\ backend.l1 = builder /\ backend.l2 = Builder!L2
      /\ \A x \in PolicyNames : backend[x] \in Builder!Choices(x)
  BY <1>2 DEF BInv, BuilderTypes, BackendBuilt
<1>4. v \in Builder!Values /\ v \in Builder!Choices("label")
  BY DEF Builder!Values, Builder!Choices
<1>5. "label" \in SetterNames
  BY <1>3, SettingsNames, RecordTypes
<1>6. e \in SetterRecords
  BY <1>4, <1>5, RecordTypes
<1>7. e[1] = "composition" /\ e[2] = "label" /\ e[3] = v
  OBVIOUS
<1> HIDE DEF e
<1>8. calls' \in Seq(SetterRecords)
  BY <1>2, <1>3, <1>6
<1>9. \A x, default : ChosenIn(calls', "builder", x, default) = ChosenIn(calls, "builder", x, default)
  BY <1>2, <1>3, <1>6, <1>7, ChosenAppend DEF Sets
<1>10. builder.label \in Builder!Values /\ Builder!L2.label \in Builder!Values
  <2>1. builder \in Builder!Layers(type)
    BY DEF BInv, BuilderTypes
  <2>2. QED
    BY <1>3, <2>1, L2Type, LayerHasLabel DEF Builder!Types
<1>11. backend' = [backend EXCEPT !.label = v, !.l1_label = <<v, builder.label>>,
                                  !.l2_label = <<v, Builder!L2.label>>]
  BY <1>1, <1>3 DEF Builder!Label
<1> DEFINE l2 == Builder!L2
<1>12. backend'.l2 = l2 /\ l2.label \in Builder!Values /\ backend.l2 = l2
       /\ backend' = [backend EXCEPT !.label = v, !.l1_label = <<v, builder.label>>,
                                     !.l2_label = <<v, l2.label>>]
  BY <1>3, <1>10, <1>11 DEF Builder!Compositions
<1> HIDE DEF l2
<1>13. /\ backend' \in Builder!Compositions(type)
       /\ backend'.l1 = builder
       /\ \A x \in PolicyNames : backend'[x] = backend[x]
       /\ backend'["label"] = v
  BY <1>3, <1>4, <1>10, <1>12 DEF Builder!Compositions, PolicyNames
<1>14. /\ backend'.l1_label = <<backend'.label, backend'.l1.label>>
       /\ backend'.l2_label = <<backend'.label, backend'.l2.label>>
  BY <1>3, <1>12, <1>13 DEF Builder!Compositions
<1>15. "label" \notin PolicyNames
  BY DEF PolicyNames
<1>16. ASSUME NEW x \in PolicyNames \cup {"label"}
       PROVE  backend'[x] = ChosenIn(calls', "composition", x,
                               IF x = "label" THEN "composition" ELSE Builder!NewPolicy[x])
  <2> DEFINE default == IF x = "label" THEN "composition" ELSE Builder!NewPolicy[x]
  <2>1. backend[x] = ChosenIn(calls, "composition", x, default)
    BY <1>2 DEF BInv, BackendChosen, OfBackend
  <2>2. backend'[x] = IF x = "label" THEN v ELSE backend[x]
    BY <1>13, <1>15
  <2> HIDE DEF default
  <2>3. ChosenIn(calls', "composition", x, default) =
           IF Sets(e, "composition", x) THEN ValueOf(e, x)
           ELSE ChosenIn(calls, "composition", x, default)
    BY <1>2, <1>3, <1>6, ChosenAppend
  <2>4. (Sets(e, "composition", x) <=> x = "label") /\ ValueOf(e, "label") = v
    BY <1>7 DEF Sets, ValueOf
  <2>5. backend'[x] = ChosenIn(calls', "composition", x, default)
    BY <2>1, <2>2, <2>3, <2>4
  <2>6. QED
    BY <2>5 DEF default
<1>17. QED
  <2>1. \A x \in PolicyNames : backend'[x] \in Builder!Choices(x)
    BY <1>3, <1>13
  <2>2. backend'.l2 = Builder!L2
    BY <1>12 DEF l2
  <2>3. QED
    BY <1>2, <1>3, <1>8, <1>9, <1>13, <1>14, <1>16, <2>1, <2>2, BackendB

LEMMA NextB == BInv /\ (Builder!Next \/ UNCHANGED Builder!vars) => BInv'
<1>1. BInv /\ UNCHANGED Builder!vars => BInv'
  BY DEF BInv, Builder!vars, BuilderTypes, BuilderChosen, BackendChosen, BackendBuilt, OfBackend
<1>2. BInv /\ Builder!Next => BInv'
  BY SettingB, LayerB, PolicyB, ComposeB, ComposeWithB, OneB, LabelB, AllB DEF Builder!Next
<1>3. QED
  BY <1>1, <1>2

-----------------------------------------------------------------------------
LEMMA BuilderTypeOK == BInv => Builder!TypeOK
<1> SUFFICES ASSUME BInv PROVE Builder!TypeOK
  OBVIOUS
<1>1. DOMAIN policy = PolicyNames /\ \A name \in PolicyNames : policy[name] \in Builder!Choices(name)
  BY DEF BInv, BuilderTypes, PolicyRecords, PolicyNames
<1>2. builder.compressor \in {Builder!Passthrough} \cup {<<"Gzip", n>> : n \in 0..9}
                             \cup {<<"Zstd", n>> : n \in -7..22}
  BY DEF BInv, BuilderTypes, Compressors
<1>3. QED
  BY <1>1, <1>2 DEF Builder!TypeOK, BInv, BuilderTypes, BackendBuilt

LEMMA ChosenIsIn ==
    ASSUME BInv
    PROVE  \A what, name, default :
              Builder!Chosen(what, name, default) = ChosenIn(calls, what, name, default)
<1>1. DOMAIN policy = PolicyNames
  BY DEF BInv, BuilderTypes, PolicyRecords, PolicyNames
<1>2. QED
  BY <1>1 DEF Builder!Chosen, ChosenIn, Sets, ValueOf, Last

LEMMA BuilderChoices == BInv => Builder!EveryChoiceCounts /\ Builder!LabelsFollow
<1> SUFFICES ASSUME BInv, backend # None PROVE Builder!EveryChoiceCounts /\ Builder!LabelsFollow
  BY DEF Builder!EveryChoiceCounts, Builder!LabelsFollow
<1>1. DOMAIN policy = PolicyNames /\ "label" \notin PolicyNames
  BY DEF BInv, BuilderTypes, PolicyRecords, PolicyNames
<1>2. \A name \in Builder!Settings(backend.l1.type) :
         backend.l1[name] = ChosenIn(calls, "builder", name,
                                     Builder!DefaultOf(backend.l1.type, name))
  BY DEF BInv, BackendBuilt, BuilderChosen
<1>3. /\ \A name \in PolicyNames :
            backend[name] = ChosenIn(calls, "composition", name, Builder!NewPolicy[name])
      /\ backend.label = ChosenIn(calls, "composition", "label", "composition")
  BY <1>1 DEF BInv, BackendChosen, OfBackend
<1>4. Builder!EveryChoiceCounts
  BY <1>1, <1>2, <1>3, ChosenIsIn DEF Builder!EveryChoiceCounts
<1>5. QED
  BY <1>4 DEF Builder!LabelsFollow, BInv, BackendBuilt

-----------------------------------------------------------------------------
HeaderNameSet == Http!Range(HttpNames)
HeaderValues  == {"a", "b", "HIT", "MISS", "STALE"}
Pairs         == HeaderNameSet \X HeaderValues
Inserted(h, p) == [h EXCEPT ![p[1]] = Append(h[p[1]], p[2])]

(* A fold over a sequence goes through the initial parts of its domain. *)
Folding(fold, pairs, n) ==
    fold = [T \in SUBSET (1..n) |->
              IF T = {} THEN Http!NoHeaders
              ELSE Inserted(fold[T \ {Http!Max(T)}], pairs[Http!Max(T)])]

LEMMA MaxIsLast ==
    ASSUME NEW n \in Nat, NEW T \in SUBSET (1..n), T # {}
    PROVE  Http!Max(T) = Last(T) /\ Last(T) \in T /\ \A j \in T : j <= Last(T)
<1>1. T \in SUBSET (0..n)
  OBVIOUS
<1>2. Last(T) \in T /\ \A j \in T : j <= Last(T)
  BY <1>1, LastIn
<1>3. Http!Max(T) \in T /\ \A j \in T : Http!Max(T) >= j
  BY <1>2 DEF Http!Max
<1>4. Http!Max(T) = Last(T)
  <2>1. Http!Max(T) \in 1..n /\ Last(T) \in 1..n
    BY <1>2, <1>3
  <2>2. Http!Max(T) <= Last(T) /\ Last(T) <= Http!Max(T)
    BY <1>2, <1>3, <2>1
  <2>3. QED
    BY <2>1, <2>2
<1>5. QED
  BY <1>2, <1>4

LEMMA FoldExists == ASSUME NEW pairs PROVE \A n \in Nat : \E fold : Folding(fold, pairs, n)
<1> DEFINE F == {n \in Nat : \E fold : Folding(fold, pairs, n)}
<1>1. 0 \in F
  <2> DEFINE fold == [T \in SUBSET (1..0) |-> Http!NoHeaders]
  <2>1. \A T \in SUBSET (1..0) : T = {}
    OBVIOUS
  <2>2. Folding(fold, pairs, 0)
    BY <2>1 DEF Folding
  <2>3. QED
    BY <2>2
<1>2. ASSUME NEW n \in Nat, n \in F PROVE n + 1 \in F
  <2>1. PICK f : Folding(f, pairs, n)
    BY <1>2
  <2> DEFINE g == [T \in SUBSET (1..(n + 1)) |->
                     IF n + 1 \in T THEN Inserted(f[T \ {n + 1}], pairs[n + 1]) ELSE f[T]]
  <2>2. ASSUME NEW T \in SUBSET (1..(n + 1))
        PROVE  g[T] = IF T = {} THEN Http!NoHeaders
                      ELSE Inserted(g[T \ {Http!Max(T)}], pairs[Http!Max(T)])
    <3>1. CASE n + 1 \in T
      <4>1. Http!Max(T) = n + 1
        <5>1. n + 1 \in Nat /\ T \in SUBSET (0..(n + 1))
          OBVIOUS
        <5>2. Last(T) = n + 1
          BY <3>1, <5>1, LastIsEnd
        <5>3. QED
          BY <3>1, <5>1, <5>2, MaxIsLast
      <4>2. T \ {n + 1} \in SUBSET (1..n) /\ n + 1 \notin T \ {n + 1}
        OBVIOUS
      <4>3. g[T \ {n + 1}] = f[T \ {n + 1}]
        BY <4>2
      <4>4. g[T] = Inserted(f[T \ {n + 1}], pairs[n + 1])
        BY <3>1
      <4> HIDE DEF g
      <4>5. QED
        BY <3>1, <4>1, <4>3, <4>4
    <3>2. CASE n + 1 \notin T
      <4>1. T \in SUBSET (1..n)
        BY <3>2
      <4>2. g[T] = f[T] /\ g[T \ {Http!Max(T)}] = f[T \ {Http!Max(T)}]
        BY <3>2
      <4>3. f[T] = IF T = {} THEN Http!NoHeaders
                   ELSE Inserted(f[T \ {Http!Max(T)}], pairs[Http!Max(T)])
        BY <2>1, <4>1 DEF Folding
      <4> HIDE DEF g
      <4>4. QED
        BY <4>2, <4>3
    <3>3. QED
      BY <3>1, <3>2
  <2>3. g = [T \in SUBSET (1..(n + 1)) |-> g[T]]
    OBVIOUS
  <2> HIDE DEF g
  <2>4. Folding(g, pairs, n + 1)
    BY <2>2, <2>3 DEF Folding
  <2>5. QED
    BY <2>4
<1> HIDE DEF F
<1>3. Nat \subseteq F
  BY <1>1, <1>2, NatInd
<1>4. QED
  BY <1>3 DEF F

(* A fold depends on no more pairs than it has gone through. *)
LEMMA FoldStep ==
    ASSUME NEW pairs, NEW n \in Nat, NEW fold, Folding(fold, pairs, n)
    PROVE  /\ fold[{}] = Http!NoHeaders
           /\ \A k \in 0..(n - 1) : fold[1..(k + 1)] = Inserted(fold[1..k], pairs[k + 1])
<1>1. fold[{}] = Http!NoHeaders
  BY DEF Folding
<1>2. ASSUME NEW k \in 0..(n - 1) PROVE fold[1..(k + 1)] = Inserted(fold[1..k], pairs[k + 1])
  <2> DEFINE T == 1..(k + 1)
  <2>1. T \in SUBSET (1..n) /\ T # {} /\ k + 1 \in T /\ k + 1 \in Nat
    OBVIOUS
  <2>2. T \ {k + 1} = 1..k
    OBVIOUS
  <2>3. T \in SUBSET (0..(k + 1)) /\ T \in SUBSET (1..(k + 1))
    OBVIOUS
  <2> HIDE DEF T
  <2>4. Last(T) = k + 1
    BY <2>1, <2>3, LastIsEnd
  <2>5. Http!Max(T) = k + 1
    BY <2>1, <2>3, <2>4, MaxIsLast
  <2>6. fold[T] = Inserted(fold[T \ {Http!Max(T)}], pairs[Http!Max(T)])
    BY <2>1 DEF Folding
  <2>7. fold[T] = Inserted(fold[1..k], pairs[k + 1])
    BY <2>2, <2>5, <2>6
  <2>8. QED
    BY <2>7 DEF T
<1>3. QED
  BY <1>1, <1>2

LEMMA FoldsAgree ==
    ASSUME NEW pairs, NEW n \in Nat, NEW fold, Folding(fold, pairs, n),
           NEW more, NEW m \in Nat, NEW other, Folding(other, more, m),
           n <= m, \A k \in 1..n : more[k] = pairs[k]
    PROVE  other[1..n] = fold[1..n]
<1> DEFINE F == {k \in Nat : k <= n => other[1..k] = fold[1..k]}
<1>1. 0 \in F
  <2>1. 1..0 = {}
    OBVIOUS
  <2>2. fold[{}] = Http!NoHeaders /\ other[{}] = Http!NoHeaders
    BY FoldStep
  <2>3. QED
    BY <2>1, <2>2
<1>2. ASSUME NEW k \in Nat, k \in F PROVE k + 1 \in F
  <2> SUFFICES ASSUME k + 1 <= n PROVE other[1..(k + 1)] = fold[1..(k + 1)]
    OBVIOUS
  <2>1. k \in 0..(n - 1) /\ k \in 0..(m - 1) /\ k + 1 \in 1..n
    OBVIOUS
  <2>2. /\ fold[1..(k + 1)] = Inserted(fold[1..k], pairs[k + 1])
        /\ other[1..(k + 1)] = Inserted(other[1..k], more[k + 1])
    BY <2>1, FoldStep
  <2>3. other[1..k] = fold[1..k] /\ more[k + 1] = pairs[k + 1]
    BY <1>2, <2>1
  <2>4. QED
    BY <2>2, <2>3
<1> HIDE DEF F
<1>3. Nat \subseteq F
  BY <1>1, <1>2, NatInd
<1>4. QED
  BY <1>3 DEF F

LEMMA HeadersOfFold ==
    ASSUME NEW pairs \in Seq(Pairs)
    PROVE  \E fold : Folding(fold, pairs, Len(pairs)) /\ Http!HeadersOf(pairs) = fold[1..Len(pairs)]
<1> DEFINE fold == CHOOSE f : Folding(f, pairs, Len(pairs))
<1>1. Len(pairs) \in Nat /\ DOMAIN pairs = 1..Len(pairs)
  OBVIOUS
<1>2. Folding(fold, pairs, Len(pairs))
  BY <1>1, FoldExists
<1>3. Http!HeadersOf(pairs) = fold[1..Len(pairs)]
  BY <1>1 DEF Http!HeadersOf, Http!FoldLeft, Http!MapThenFoldSet, Folding, Inserted
<1>4. QED
  BY <1>2, <1>3

LEMMA HeadersOfNone == Http!HeadersOf(<<>>) = Http!NoHeaders
<1>1. <<>> \in Seq(Pairs) /\ Len(<<>>) = 0 /\ 1..0 = {} /\ 0 \in Nat
  OBVIOUS
<1>2. PICK fold : Folding(fold, <<>>, 0) /\ Http!HeadersOf(<<>>) = fold[1..0]
  <2>1. \E fold : Folding(fold, <<>>, Len(<<>>)) /\ Http!HeadersOf(<<>>) = fold[1..Len(<<>>)]
    BY <1>1, HeadersOfFold
  <2>2. QED
    BY <1>1, <2>1
<1>3. fold[{}] = Http!NoHeaders
  BY <1>1, <1>2, FoldStep
<1>4. QED
  BY <1>1, <1>2, <1>3

LEMMA HeadersOfAppend ==
    ASSUME NEW pairs \in Seq(Pairs), NEW p \in Pairs
    PROVE  Http!HeadersOf(Append(pairs, p)) = Inserted(Http!HeadersOf(pairs), p)
<1> DEFINE n == Len(pairs)
           more == Append(pairs, p)
<1>1. /\ n \in Nat /\ n + 1 \in Nat /\ more \in Seq(Pairs) /\ Len(more) = n + 1
      /\ more[n + 1] = p /\ \A k \in 1..n : more[k] = pairs[k]
  OBVIOUS
<1>2. PICK fold : Folding(fold, pairs, n) /\ Http!HeadersOf(pairs) = fold[1..n]
  BY HeadersOfFold
<1> HIDE DEF more
<1>3. PICK other : Folding(other, more, Len(more)) /\ Http!HeadersOf(more) = other[1..Len(more)]
  BY <1>1, HeadersOfFold
<1> HIDE DEF n
<1>4. Folding(other, more, n + 1) /\ Http!HeadersOf(more) = other[1..(n + 1)]
  BY <1>1, <1>3
<1>5. n \in 0..(n + 1 - 1) /\ n <= n + 1
  BY <1>1
<1>6. other[1..n] = fold[1..n]
  BY <1>1, <1>2, <1>4, <1>5, FoldsAgree
<1>7. other[1..(n + 1)] = Inserted(other[1..n], more[n + 1])
  BY <1>1, <1>4, <1>5, FoldStep
<1>8. QED
  BY <1>1, <1>2, <1>4, <1>6, <1>7 DEF more

-----------------------------------------------------------------------------
LEMMA HttpFacts ==
    /\ HttpNames \in Seq(STRING) /\ Len(HttpNames) \in Nat \ {0}
    /\ HeaderNameSet = {HttpNames[i] : i \in 1..Len(HttpNames)}
    /\ \A i, j \in 1..Len(HttpNames) : HttpNames[i] = HttpNames[j] => i = j
    /\ Http!DEFAULT_CACHE_STATUS_HEADER \in HeaderNameSet
    /\ StatusHeaders \subseteq HeaderNameSet \cup {None}
    /\ InnerServices \subseteq {"always", "limited"}
    /\ \A h \in Heads : h.version \in Http!Versions /\ h.headers \in Http!Headers
    /\ PERMITS \in Nat /\ Error # None /\ None \notin Nat
    /\ \A r \in Http!Futures, h \in Heads :
          Http!Response(r, h) # None /\ Http!Response(r, h) # Error
<1>1. Http!ConstantsOK
  BY ServiceAssumption
<1>2. HttpNames \in Seq(STRING) /\ Http!IsInjective(HttpNames)
  BY <1>1 DEF Http!ConstantsOK
<1>3. DOMAIN HttpNames = 1..Len(HttpNames) /\ Len(HttpNames) \in Nat
  BY <1>2
<1>4. HeaderNameSet = {HttpNames[i] : i \in 1..Len(HttpNames)}
  BY <1>3 DEF HeaderNameSet, Http!Range
<1>5. \A i, j \in 1..Len(HttpNames) : HttpNames[i] = HttpNames[j] => i = j
  BY <1>2, <1>3 DEF Http!IsInjective
<1>6. /\ Http!DEFAULT_CACHE_STATUS_HEADER \in HeaderNameSet
      /\ StatusHeaders \subseteq HeaderNameSet \cup {None}
      /\ InnerServices \subseteq {"always", "limited"}
      /\ \A h \in Heads : h.version \in Http!Versions /\ h.headers \in Http!Headers
      /\ PERMITS \in Nat /\ Error # None /\ None \notin Nat
  BY <1>1 DEF Http!ConstantsOK, HeaderNameSet
<1>7. Len(HttpNames) # 0
  BY <1>3, <1>4, <1>6
<1>8. ASSUME NEW r \in Http!Futures, NEW h \in Heads
      PROVE  Http!Response(r, h) # None /\ Http!Response(r, h) # Error
  <2>1. {Http!Response(r, h)} \cap {None, Error} = {}
    BY <1>1 DEF Http!ConstantsOK
  <2>2. QED
    BY <2>1
<1>9. QED
  BY <1>2, <1>3, <1>4, <1>5, <1>6, <1>7, <1>8

LEMMA HeadersType == Http!Headers = [HeaderNameSet -> Seq(HeaderValues)]
  BY DEF Http!Headers, HeaderNameSet, HeaderValues

Block(name, values, j) == [x \in 1..j |-> <<name, values[x]>>]

LEMMA BlockFacts ==
    ASSUME NEW name \in HeaderNameSet, NEW values \in Seq(HeaderValues), NEW s \in Seq(Pairs)
    PROVE  /\ \A j \in 0..Len(values) : /\ Block(name, values, j) \in Seq(Pairs)
                                        /\ s \o Block(name, values, j) \in Seq(Pairs)
           /\ s \o Block(name, values, 0) = s
           /\ \A j \in 0..(Len(values) - 1) :
                 /\ <<name, values[j + 1]>> \in Pairs
                 /\ s \o Block(name, values, j + 1) =
                       Append(s \o Block(name, values, j), <<name, values[j + 1]>>)
<1>1. ASSUME NEW j \in 0..Len(values)
      PROVE  Block(name, values, j) \in Seq(Pairs) /\ Len(Block(name, values, j)) = j
  <2>1. \A x \in 1..j : <<name, values[x]>> \in Pairs
    BY DEF Pairs
  <2>2. j \in Nat
    OBVIOUS
  <2>3. QED
    BY <2>1, <2>2 DEF Block
<1>2. s \o Block(name, values, 0) = s
  <2>1. Block(name, values, 0) = <<>>
    BY <1>1
  <2>2. QED
    BY <2>1
<1>3. ASSUME NEW j \in 0..(Len(values) - 1)
      PROVE  /\ <<name, values[j + 1]>> \in Pairs
             /\ s \o Block(name, values, j + 1) =
                   Append(s \o Block(name, values, j), <<name, values[j + 1]>>)
  <2> DEFINE a == Block(name, values, j)
             b == Block(name, values, j + 1)
             p == <<name, values[j + 1]>>
  <2>1. p \in Pairs
    BY DEF Pairs
  <2>2. /\ a \in Seq(Pairs) /\ Len(a) = j /\ b \in Seq(Pairs) /\ Len(b) = j + 1
        /\ j \in Nat
    BY <1>1
  <2>3. b[j + 1] = p /\ \A x \in 1..j : a[x] = b[x]
    BY DEF Block
  <2> HIDE DEF a, b, p
  <2>4. b = Append(a, p)
    <3>1. Append(a, p) \in Seq(Pairs) /\ Len(Append(a, p)) = j + 1
      BY <2>1, <2>2
    <3>2. \A x \in 1..(j + 1) : b[x] = Append(a, p)[x]
      BY <2>1, <2>2, <2>3
    <3>3. QED
      BY <2>2, <3>1, <3>2, SeqEqual
  <2>5. s \o Append(a, p) = Append(s \o a, p)
    BY <2>1, <2>2
  <2>6. QED
    BY <2>1, <2>4, <2>5 DEF a, b, p
<1>4. \A j \in 0..Len(values) : s \o Block(name, values, j) \in Seq(Pairs)
  BY <1>1
<1>5. QED
  BY <1>1, <1>2, <1>3, <1>4

(* The values of one name, appended one by one. *)
LEMMA BlockInserted ==
    ASSUME NEW name \in HeaderNameSet, NEW values \in Seq(HeaderValues), NEW s \in Seq(Pairs),
           NEW h \in [HeaderNameSet -> Seq(HeaderValues)], Http!HeadersOf(s) = h, h[name] = <<>>
    PROVE  Http!HeadersOf(s \o Block(name, values, Len(values))) = [h EXCEPT ![name] = values]
<1> DEFINE With(j) == [h EXCEPT ![name] = SubSeq(values, 1, j)]
           F == {j \in Nat : j <= Len(values) =>
                    Http!HeadersOf(s \o Block(name, values, j)) = With(j)}
<1>0. Len(values) \in Nat
  OBVIOUS
<1>1. 0 \in F
  <2>1. s \o Block(name, values, 0) = s
    BY BlockFacts
  <2>2. SubSeq(values, 1, 0) = <<>>
    OBVIOUS
  <2>3. With(0) = h
    BY <2>2
  <2> HIDE DEF With
  <2>4. QED
    BY <2>1, <2>3
<1>2. ASSUME NEW j \in Nat, j \in F PROVE j + 1 \in F
  <2> SUFFICES ASSUME j + 1 <= Len(values)
               PROVE  Http!HeadersOf(s \o Block(name, values, j + 1)) = With(j + 1)
    <3> HIDE DEF With
    <3>1. QED
      OBVIOUS
  <2>1. j \in 0..(Len(values) - 1) /\ j \in 0..Len(values)
    BY <1>0
  <2>2. Http!HeadersOf(s \o Block(name, values, j)) = With(j)
    BY <1>2, <2>1
  <2> DEFINE p == <<name, values[j + 1]>>
             front == s \o Block(name, values, j)
  <2>3. p \in Pairs /\ front \in Seq(Pairs) /\ s \o Block(name, values, j + 1) = Append(front, p)
    BY <2>1, BlockFacts
  <2> HIDE DEF front
  <2>4. Http!HeadersOf(Append(front, p)) = Inserted(Http!HeadersOf(front), p)
    <3> HIDE DEF p
    <3>1. QED
      BY <2>3, HeadersOfAppend
  <2>5. Inserted(With(j), p) = With(j + 1)
    <3>1. Append(SubSeq(values, 1, j), values[j + 1]) = SubSeq(values, 1, j + 1)
      <4> DEFINE a == Append(SubSeq(values, 1, j), values[j + 1])
                 b == SubSeq(values, 1, j + 1)
      <4>1. a \in Seq(HeaderValues) /\ b \in Seq(HeaderValues) /\ Len(a) = j + 1 /\ Len(b) = j + 1
        BY <2>1
      <4>2. \A x \in 1..(j + 1) : a[x] = b[x]
        BY <2>1
      <4> HIDE DEF a, b
      <4>3. a = b
        BY <4>1, <4>2, SeqEqual
      <4>4. QED
        BY <4>3 DEF a, b
    <3>2. With(j)[name] = SubSeq(values, 1, j)
      OBVIOUS
    <3>3. Inserted(With(j), p) = [With(j) EXCEPT ![name] = SubSeq(values, 1, j + 1)]
      <4> HIDE DEF With
      <4>1. QED
        BY <3>1, <3>2 DEF Inserted
    <3>4. QED
      BY <3>3
  <2> HIDE DEF With, p
  <2>6. QED
    BY <2>2, <2>3, <2>4, <2>5 DEF front
<1> HIDE DEF F
<1>3. Nat \subseteq F
  BY <1>1, <1>2, NatInd
<1>4. Http!HeadersOf(s \o Block(name, values, Len(values))) = With(Len(values))
  BY <1>0, <1>3 DEF F
<1>5. SubSeq(values, 1, Len(values)) = values
  <2>1. SubSeq(values, 1, Len(values)) \in Seq(HeaderValues)
        /\ Len(SubSeq(values, 1, Len(values))) = Len(values)
    OBVIOUS
  <2>2. \A x \in 1..Len(values) : SubSeq(values, 1, Len(values))[x] = values[x]
    OBVIOUS
  <2>3. QED
    BY <2>1, <2>2, SeqEqual
<1>6. QED
  BY <1>4, <1>5

LEMMA HeadersRoundTrip ==
    ASSUME NEW h \in Http!Headers
    PROVE  Http!HeadersOf(Http!HeaderPairs(h)) = h
<1> DEFINE m == Len(HttpNames)
           N(i) == HttpNames[i]
           B(i) == Block(N(i), h[N(i)], Len(h[N(i)]))
           seqs == [i \in 1..m |-> B(i)]
           Upto(i) == [n \in HeaderNameSet |-> IF \E k \in 1..i : N(k) = n THEN h[n] ELSE <<>>]
<1>1. h \in [HeaderNameSet -> Seq(HeaderValues)]
  BY HeadersType
<1>2. /\ m \in Nat \ {0} /\ HeaderNameSet = {N(i) : i \in 1..m}
      /\ \A i, j \in 1..m : N(i) = N(j) => i = j
  BY HttpFacts
<1>3. \A i \in 1..m : N(i) \in HeaderNameSet /\ h[N(i)] \in Seq(HeaderValues)
  BY <1>1, <1>2
<1>4. Http!HeaderPairs(h) = Http!FlattenSeq(seqs)
  BY DEF Http!HeaderPairs, Block
<1> HIDE DEF m
<1>5. ASSUME NEW i \in 1..m PROVE B(i) \in Seq(Pairs)
  <2> DEFINE values == h[N(i)]
  <2>1. N(i) \in HeaderNameSet /\ values \in Seq(HeaderValues) /\ <<>> \in Seq(Pairs)
    BY <1>3
  <2>2. Len(values) \in 0..Len(values)
    BY <2>1
  <2> HIDE DEF N, values
  <2>3. Block(N(i), values, Len(values)) \in Seq(Pairs)
    BY <2>1, <2>2, BlockFacts
  <2>4. QED
    BY <2>3 DEF values
<1> HIDE DEF B
<1>6. seqs \in Seq(Seq(Pairs)) /\ Len(seqs) = m
  BY <1>2, <1>5
<1>7. PICK fl : Flattening(fl, seqs, m) /\ Http!FlattenSeq(seqs) = fl[m]
  <2>1. Len(seqs) # 0
    BY <1>2, <1>6
  <2>2. \E fl : Flattening(fl, seqs, Len(seqs)) /\ Http!FlattenSeq(seqs) = fl[Len(seqs)]
    <3> HIDE DEF seqs
    <3>1. QED
      BY <1>6, <2>1, FlattenIs
  <2> HIDE DEF seqs
  <2>3. QED
    BY <1>6, <2>2
<1>8. \A i \in 1..m : fl[i] = IF i = 1 THEN B(i) ELSE fl[i - 1] \o B(i)
  BY <1>7 DEF Flattening
<1> HIDE DEF seqs
(* The step from one name to the next. *)
<1>9. ASSUME NEW i \in 1..m, NEW s \in Seq(Pairs), Http!HeadersOf(s) = Upto(i - 1)
      PROVE  s \o B(i) \in Seq(Pairs) /\ Http!HeadersOf(s \o B(i)) = Upto(i)
  <2> DEFINE before == Upto(i - 1)
             values == h[N(i)]
  <2>1. before \in [HeaderNameSet -> Seq(HeaderValues)] /\ N(i) \in HeaderNameSet
        /\ values \in Seq(HeaderValues)
    <3>1. \A n \in HeaderNameSet : h[n] \in Seq(HeaderValues) /\ <<>> \in Seq(HeaderValues)
      BY <1>1
    <3>2. QED
      BY <1>3, <3>1
  <2>2. before[N(i)] = <<>>
    <3>1. \A k \in 1..(i - 1) : k \in 1..m /\ k # i
      BY <1>2
    <3>2. ~\E k \in 1..(i - 1) : N(k) = N(i)
      BY <1>2, <3>1
    <3>3. QED
      BY <1>3, <3>2
  <2>3. Upto(i) = [before EXCEPT ![N(i)] = values]
    <3>1. ASSUME NEW n \in HeaderNameSet
          PROVE  (\E k \in 1..i : N(k) = n) <=> (N(i) = n \/ \E k \in 1..(i - 1) : N(k) = n)
      <4>1. \A k : k \in 1..i <=> k = i \/ k \in 1..(i - 1)
        BY <1>2
      <4>2. QED
        BY <4>1
    <3>2. QED
      BY <3>1
  <2> HIDE DEF Upto, before, N
  <2>4. Http!HeadersOf(s) = before
    BY <1>9 DEF before
  <2> HIDE DEF values
  <2>5. Http!HeadersOf(s \o Block(N(i), values, Len(values))) = [before EXCEPT ![N(i)] = values]
    BY <2>1, <2>2, <2>4, BlockInserted
  <2>6. B(i) = Block(N(i), values, Len(values))
    BY DEF B, values
  <2>7. QED
    BY <1>5, <2>3, <2>5, <2>6
<1>10. Upto(0) = Http!NoHeaders
  BY DEF Http!NoHeaders, HeaderNameSet
<1> DEFINE F == {i \in Nat : i \in 1..m => fl[i] \in Seq(Pairs) /\ Http!HeadersOf(fl[i]) = Upto(i)}
<1>11. 0 \in F
  OBVIOUS
<1>12. ASSUME NEW i \in Nat, i \in F PROVE i + 1 \in F
  <2> SUFFICES ASSUME i + 1 \in 1..m
               PROVE  fl[i + 1] \in Seq(Pairs) /\ Http!HeadersOf(fl[i + 1]) = Upto(i + 1)
    <3> HIDE DEF Upto
    <3>1. QED
      OBVIOUS
  <2> DEFINE k == i + 1
  <2>1. k \in 1..m /\ k - 1 = i /\ (k = 1 <=> i = 0) /\ (i # 0 => i \in 1..m)
    BY <1>2
  <2> HIDE DEF k, Upto
  <2>2. fl[k] = IF k = 1 THEN B(k) ELSE fl[k - 1] \o B(k)
    BY <1>8, <2>1
  <2>3. CASE i = 0
    <3>1. fl[k] = B(k) /\ B(k) = <<>> \o B(k)
      BY <1>5, <2>1, <2>2, <2>3
    <3>2. <<>> \in Seq(Pairs) /\ Http!HeadersOf(<<>>) = Upto(k - 1)
      BY <1>10, <2>1, <2>3, HeadersOfNone
    <3>3. <<>> \o B(k) \in Seq(Pairs) /\ Http!HeadersOf(<<>> \o B(k)) = Upto(k)
      BY <1>9, <2>1, <3>2
    <3>4. QED
      BY <3>1, <3>3 DEF k
  <2>4. CASE i # 0
    <3>1. fl[i] \in Seq(Pairs) /\ Http!HeadersOf(fl[i]) = Upto(k - 1)
      BY <1>12, <2>1, <2>4
    <3>2. fl[k] = fl[i] \o B(k)
      BY <2>1, <2>2, <2>4
    <3>3. fl[i] \o B(k) \in Seq(Pairs) /\ Http!HeadersOf(fl[i] \o B(k)) = Upto(k)
      BY <1>9, <2>1, <3>1
    <3>4. QED
      BY <3>2, <3>3 DEF k
  <2>5. QED
    BY <2>3, <2>4
<1> HIDE DEF F
<1>13. Nat \subseteq F
  BY <1>11, <1>12, NatInd
<1>14. Http!HeadersOf(fl[m]) = Upto(m)
  <2> HIDE DEF Upto
  <2>1. m \in Nat /\ m \in 1..m
    BY <1>2
  <2>2. QED
    BY <1>13, <2>1 DEF F
<1>15. Upto(m) = h
  BY <1>1, <1>2
<1>16. QED
  BY <1>4, <1>7, <1>14, <1>15

Bare(r, h) == [version |-> h.version, headers |-> h.headers, body |-> r,
               extensions |-> FALSE, trailers |-> FALSE]

LEMMA VersionsRoundTrip ==
    \A v \in Http!Versions : Http!U8ToVersion(Http!VersionToU8[v]) = v
<1>1. \A v, w \in Http!Versions : Http!VersionToU8[v] = Http!VersionToU8[w] => v = w
  BY DEF Http!Versions, Http!VersionToU8
<1>2. QED
  BY <1>1 DEF Http!U8ToVersion

(* What is stored is read as it was, in either format. *)
LEMMA StoredReads ==
    ASSUME NEW r \in Http!Futures, NEW h \in Heads
    PROVE  /\ Http!FromCached(Http!IntoCached(Http!Response(r, h))) = Bare(r, h)
           /\ Http!FromCached(Http!Deserialize(Http!Serialize(Http!IntoCached(Http!Response(r, h)))))
                 = Bare(r, h)
<1> DEFINE cached == [version |-> h.version, headers |-> h.headers, body |-> r]
<1>1. Http!IntoCached(Http!Response(r, h)) = cached
  BY DEF Http!IntoCached, Http!Response
<1>2. Http!FromCached(cached) = Bare(r, h)
  BY DEF Http!FromCached, Bare
<1>3. h.version \in Http!Versions /\ h.headers \in Http!Headers
  BY HttpFacts
<1>4. CASE format = "serde"
  BY <1>1, <1>2, <1>4 DEF Http!Deserialize, Http!Serialize
<1>5. CASE format # "serde"
  <2> DEFINE bytes == [version |-> Http!VersionToU8[h.version],
                       headers |-> Http!HeaderPairs(h.headers), body |-> r]
  <2>1. Http!Serialize(cached) = bytes
    BY <1>5 DEF Http!Serialize
  <2>2. Http!Deserialize(bytes) = [version |-> Http!U8ToVersion(bytes.version),
                                   headers |-> Http!HeadersOf(bytes.headers), body |-> r]
    BY <1>5 DEF Http!Deserialize
  <2>3. Http!U8ToVersion(bytes.version) = h.version /\ Http!HeadersOf(bytes.headers) = h.headers
    BY <1>3, VersionsRoundTrip, HeadersRoundTrip
  <2>4. QED
    BY <1>1, <1>2, <2>1, <2>2, <2>3
<1>6. QED
  BY <1>4, <1>5

-----------------------------------------------------------------------------
Statuses == {"HIT", "MISS", "STALE"}
Messages == [version : Http!Versions, headers : Http!Headers, body : Http!Futures,
             extensions : BOOLEAN, trailers : BOOLEAN]
Mails == {None, Error} \cup {Http!IntoCached(Http!Response(f, h)) : f \in Http!Futures, h \in Heads}
Records == [state : Http!States, service : Services \cup {None}, keyed : BOOLEAN,
            permit : BOOLEAN, mail : Mails, past : SUBSET Http!Futures,
            answer : Messages \cup {None, Error}]

HTypes ==
    /\ adapter \in Adapters /\ inner \in {"always", "limited"} /\ format \in Formats
    /\ header \in HeaderNameSet /\ caching \in Caching
    /\ free \in 0..PERMITS /\ reserved \subseteq Services /\ flight \in Nat \cup {None}
    /\ req \in [Http!Futures -> Records]
    /\ called \subseteq Http!Futures /\ bare \subseteq called
    /\ DOMAIN sent = Http!Futures
    /\ age \in {"Actual", "Stale", "Expired"}

SentBy(by, h) == sent[by] = Http!Response(by, h)

Passes(r) ==
    \E by \in Http!Futures, h \in Heads, s \in Statuses :
        /\ SentBy(by, h)
        /\ req[r].answer.body = by /\ req[r].answer.version = h.version
        /\ req[r].answer.headers = [h.headers EXCEPT ![header] = <<s>>]
        /\ r \in called => by = r
        /\ s = "MISS" => by = r \/ (caching.limit # None /\ by \notin req[r].past)
        /\ s # "MISS" => r \notin called

(* A future calls the upstream once and has its extensions. *)
FutureOK(f) ==
    /\ req[f].state \in {"New", "Ready", "Running", "Waiting"} => f \notin called
    /\ req[f].state = "Upstream" => f \in called \ bare
    /\ req[f].state # "Done" => sent[f] = None

Unborn(f) == req[f].state = "NotSpawned" /\ f \notin called

(* What a waiter finds in its mail was under way when it came. *)
MailOK(r) ==
    req[r].state = "Waiting" =>
        /\ caching.limit # None
        /\ req[r].mail \notin {None, Error} =>
              \E by \in Http!Futures, h \in Heads :
                  /\ SentBy(by, h) /\ by \notin req[r].past
                  /\ req[r].mail = Http!IntoCached(Http!Response(by, h))

RequestOK(r) ==
    /\ req[r].state \in {"New", "Ready", "Running", "Waiting"} => Unborn(Http!Revalidation(r))
    /\ req[r].state \in {"New", "Ready", "Running"} => req[r].mail = None
    /\ \A f \in req[r].past : req[f].state = "Done"
    /\ MailOK(r)
    /\ req[r].state = "Done" /\ req[r].answer # Error => Passes(r)

StoredOK ==
    stored # None => \E by \in Http!Futures, h \in Heads :
        SentBy(by, h) /\ stored = Http!Serialize(Http!IntoCached(Http!Response(by, h)))

HInv ==
    /\ HTypes
    /\ \A f \in Http!Futures : FutureOK(f)
    /\ \A r \in Requests : RequestOK(r)
    /\ StoredOK

LEMMA FutureFacts ==
    /\ Requests \subseteq Http!Futures
    /\ \A r \in Requests : Http!Revalidation(r) \in Http!Futures \ Requests
    /\ \A r, q \in Requests : Http!Revalidation(r) = Http!Revalidation(q) => r = q
<1>1. \A r \in Requests : Http!Revalidation(r) \notin Requests
  BY ServiceAssumption DEF Http!ConstantsOK
<1>2. \A r, q \in Requests : Http!Revalidation(r) = Http!Revalidation(q) => r = q
  BY DEF Http!Revalidation
<1>3. QED
  BY <1>1, <1>2 DEF Http!Futures

LEMMA CachingFacts ==
    \A c \in Caching : c.limit \in (Nat \ {0}) \cup {None}
  BY ServiceAssumption DEF Http!ConstantsOK

LEMMA WithStatusIs ==
    ASSUME HTypes, NEW r \in Http!Futures, NEW h \in Heads, NEW s \in Statuses,
           NEW m \in {Http!Response(r, h), Bare(r, h)}
    PROVE  LET told == Http!WithStatus(m, s)
           IN  /\ told \in Messages
               /\ told.body = r /\ told.version = h.version
               /\ told.headers = [h.headers EXCEPT ![header] = <<s>>]
<1>1. h.version \in Http!Versions /\ h.headers \in [HeaderNameSet -> Seq(HeaderValues)]
  BY HttpFacts, HeadersType
<1>2. <<s>> \in Seq(HeaderValues)
  BY DEF Statuses, HeaderValues
<1>3. header \in HeaderNameSet
  BY DEF HTypes
<1>4. [h.headers EXCEPT ![header] = <<s>>] \in Http!Headers
  <2>1. [h.headers EXCEPT ![header] = <<s>>] \in [HeaderNameSet -> Seq(HeaderValues)]
    BY <1>1, <1>2, <1>3
  <2>2. QED
    BY <2>1, HeadersType
<1> DEFINE With(b) == [version |-> h.version, headers |-> h.headers, body |-> r,
                       extensions |-> b, trailers |-> b]
<1>5. m = With(TRUE) \/ m = With(FALSE)
  BY DEF Http!Response, Bare
<1>6. PICK b \in BOOLEAN : m = With(b)
  <2> HIDE DEF With
  <2>1. QED
    BY <1>5
<1>7. Http!WithStatus(m, s) = [version |-> h.version, headers |-> [h.headers EXCEPT ![header] = <<s>>],
                               body |-> r, extensions |-> b, trailers |-> b]
  BY <1>6 DEF Http!WithStatus
<1>8. QED
  BY <1>1, <1>4, <1>7 DEF Messages

LEMMA InitH == Http!Init => HInv
<1> SUFFICES ASSUME Http!Init PROVE HInv
  OBVIOUS
<1>1. \A f \in Http!Futures : req[f] = Http!Idle(IF f \in Requests THEN "New" ELSE "NotSpawned")
  BY DEF Http!Init
<1>2. \A s \in Http!States : Http!Idle(s) \in Records
  BY DEF Http!Idle, Records, Mails
<1>3. req \in [Http!Futures -> Records]
  BY <1>2 DEF Http!Init, Http!States
<1>4. HTypes
  BY <1>3, HttpFacts DEF Http!Init, HTypes, Http!CacheStatusHeader
<1>5. \A f \in Http!Futures : FutureOK(f)
  BY <1>1, FutureFacts DEF Http!Init, Http!Idle, FutureOK
<1>6. \A r \in Requests : RequestOK(r)
  BY <1>1, FutureFacts DEF RequestOK, MailOK, Unborn, Http!Idle, Http!Init
<1>7. StoredOK
  BY DEF Http!Init, StoredOK
<1>8. QED
  BY <1>4, <1>5, <1>6, <1>7 DEF HInv

-----------------------------------------------------------------------------
(* A step: what moved is as it should be, the rest stays but for its mail.  *)
Monotone ==
    /\ header' = header /\ format' = format /\ caching' = caching
    /\ \A f \in Http!Futures : sent[f] # None => sent'[f] = sent[f]
    /\ \A f \in Http!Futures : req[f].state = "Done" => req'[f].state = "Done"

NewMail(f) ==
    \/ req'[f].mail = req[f].mail
    \/ /\ req[f].state = "Waiting"
       /\ \/ req'[f].mail = Error
          \/ \E by \in Http!Futures, h \in Heads :
                /\ SentBy(by, h)' /\ req[by].state # "Done"
                /\ req'[f].mail = Http!IntoCached(Http!Response(by, h))

Stays(f) ==
    /\ req'[f].state = req[f].state /\ req'[f].past = req[f].past
    /\ req'[f].answer = req[f].answer
    /\ f \in called' <=> f \in called
    /\ f \in bare' <=> f \in bare
    /\ sent'[f] = sent[f]

LEMMA SentStays ==
    ASSUME Monotone, NEW by \in Http!Futures, NEW h \in Heads, SentBy(by, h)
    PROVE  SentBy(by, h)'
<1>1. sent[by] # None
  BY HttpFacts DEF SentBy
<1>2. QED
  BY <1>1 DEF Monotone, SentBy

LEMMA FutureStays ==
    ASSUME NEW f \in Http!Futures, FutureOK(f), Stays(f)
    PROVE  FutureOK(f)'
  BY DEF FutureOK, Stays

LEMMA RequestStays ==
    ASSUME HInv, NEW r \in Requests, Monotone, Stays(r), NewMail(r),
           Unborn(Http!Revalidation(r)) => Unborn(Http!Revalidation(r))'
    PROVE  RequestOK(r)'
<1>1. RequestOK(r) /\ r \in Http!Futures /\ req[r].past \subseteq Http!Futures
  BY FutureFacts DEF HInv, HTypes, Records
<1>2. \A f \in req'[r].past : req'[f].state = "Done"
  BY <1>1 DEF RequestOK, Stays, Monotone
<1>3. MailOK(r)'
  <2> SUFFICES ASSUME req'[r].state = "Waiting", req'[r].mail \notin {None, Error}
               PROVE  \E by \in Http!Futures, h \in Heads :
                          /\ SentBy(by, h)' /\ by \notin req'[r].past
                          /\ req'[r].mail = Http!IntoCached(Http!Response(by, h))
    BY <1>1 DEF MailOK, RequestOK, Stays, Monotone
  <2>1. CASE req'[r].mail = req[r].mail
    <3>1. PICK by \in Http!Futures, h \in Heads :
             /\ SentBy(by, h) /\ by \notin req[r].past
             /\ req[r].mail = Http!IntoCached(Http!Response(by, h))
      BY <1>1, <2>1 DEF RequestOK, MailOK, Stays
    <3>2. SentBy(by, h)'
      BY <3>1, SentStays
    <3>3. QED
      BY <2>1, <3>1, <3>2 DEF Stays
  <2>2. CASE \E by \in Http!Futures, h \in Heads :
                /\ SentBy(by, h)' /\ req[by].state # "Done"
                /\ req'[r].mail = Http!IntoCached(Http!Response(by, h))
    <3>1. \A f \in req[r].past : req[f].state = "Done"
      BY <1>1 DEF RequestOK
    <3>2. QED
      BY <2>2, <3>1 DEF Stays
  <2>3. QED
    BY <2>1, <2>2 DEF NewMail
<1>4. ASSUME req'[r].state = "Done", req'[r].answer # Error PROVE Passes(r)'
  <2>1. PICK by \in Http!Futures, h \in Heads, s \in Statuses :
           /\ SentBy(by, h)
           /\ req[r].answer.body = by /\ req[r].answer.version = h.version
           /\ req[r].answer.headers = [h.headers EXCEPT ![header] = <<s>>]
           /\ r \in called => by = r
           /\ s = "MISS" => by = r \/ (caching.limit # None /\ by \notin req[r].past)
           /\ s # "MISS" => r \notin called
    BY <1>1, <1>4 DEF RequestOK, Stays, Passes
  <2>2. SentBy(by, h)'
    BY <2>1, SentStays
  <2>3. QED
    BY <2>1, <2>2 DEF Passes, Stays, Monotone
<1>5. req'[r].state \in {"New", "Ready", "Running"} => req'[r].mail = None
  BY <1>1 DEF RequestOK, Stays, NewMail
<1>6. req'[r].state \in {"New", "Ready", "Running", "Waiting"} => Unborn(Http!Revalidation(r))'
  BY <1>1 DEF RequestOK, Stays
<1>7. QED
  BY <1>2, <1>3, <1>4, <1>5, <1>6 DEF RequestOK

LEMMA StoredStays ==
    ASSUME HInv, Monotone, stored' = stored
    PROVE  StoredOK'
<1>1. SUFFICES ASSUME stored # None PROVE StoredOK'
  BY DEF StoredOK
<1>2. PICK by \in Http!Futures, h \in Heads :
         SentBy(by, h) /\ stored = Http!Serialize(Http!IntoCached(Http!Response(by, h)))
  BY <1>1 DEF HInv, StoredOK
<1>3. SentBy(by, h)' /\ stored' = Http!Serialize(Http!IntoCached(Http!Response(by, h)))'
  BY <1>2, SentStays DEF Http!Serialize, Monotone
<1>4. QED
  BY <1>3 DEF StoredOK

(* The futures in M move, the others stay. *)
LEMMA MoveH ==
    ASSUME HInv, NEW M \in SUBSET Http!Futures, HTypes', Monotone, StoredOK',
           \A f \in Http!Futures \ M : Stays(f) /\ NewMail(f),
           \A f \in M : FutureOK(f)',
           \A r \in Requests \cap M : RequestOK(r)',
           \A r \in Requests \ M : Http!Revalidation(r) \in M => ~Unborn(Http!Revalidation(r))
    PROVE  HInv'
<1>1. \A f \in Http!Futures : FutureOK(f)'
  BY FutureStays DEF HInv
<1>2. ASSUME NEW r \in Requests, r \notin M PROVE RequestOK(r)'
  <2>1. r \in Http!Futures /\ Http!Revalidation(r) \in Http!Futures
    BY FutureFacts
  <2>2. Stays(r) /\ NewMail(r)
    BY <1>2, <2>1
  <2>3. Unborn(Http!Revalidation(r)) => Unborn(Http!Revalidation(r))'
    BY <1>2, <2>1 DEF Stays, Unborn
  <2>4. QED
    BY <2>2, <2>3, RequestStays
<1>3. QED
  BY <1>1, <1>2 DEF HInv

-----------------------------------------------------------------------------
(* What the updates of a future make of the futures.                        *)
LEMMA AnsweredIs ==
    ASSUME HTypes, NEW f \in Http!Futures, NEW s \in Statuses, NEW m,
           m = Error \/ Http!WithStatus(m, s) \in Messages
    PROVE  LET reqs == Http!Answered(f, m, s) IN
           /\ reqs \in [Http!Futures -> Records]
           /\ \A g \in Http!Futures : g # f => reqs[g] = req[g]
           /\ reqs[f].state = "Done" /\ reqs[f].past = req[f].past
           /\ f \in Requests => reqs[f].answer = IF m = Error THEN Error ELSE Http!WithStatus(m, s)
<1> DEFINE told == IF f \notin Requests THEN None
                   ELSE IF m = Error THEN Error ELSE Http!WithStatus(m, s)
           next == [req[f] EXCEPT !.state = "Done", !.answer = told]
<1>1. told \in Messages \cup {None, Error}
  OBVIOUS
<1>2. f \in Requests => told = IF m = Error THEN Error ELSE Http!WithStatus(m, s)
  OBVIOUS
<1>3. req \in [Http!Futures -> Records]
  BY DEF HTypes
<1>4. Http!Answered(f, m, s) = [req EXCEPT ![f] = next]
  BY <1>3 DEF Http!Answered
<1> HIDE DEF told
<1>5. next \in Records /\ next.state = "Done" /\ next.past = req[f].past /\ next.answer = told
  <2>1. req[f] \in Records
    BY <1>3
  <2>2. QED
    BY <1>1, <2>1 DEF Records, Http!States
<1> HIDE DEF next
<1>6. QED
  BY <1>2, <1>3, <1>4, <1>5

LEMMA DeliverIs ==
    ASSUME NEW reqs \in [Http!Futures -> Records], NEW m \in Mails
    PROVE  LET told == Http!Deliver(reqs, m) IN
           /\ told \in [Http!Futures -> Records]
           /\ \A f \in Http!Futures :
                 /\ told[f].state = reqs[f].state /\ told[f].past = reqs[f].past
                 /\ told[f].answer = reqs[f].answer
                 /\ \/ told[f].mail = reqs[f].mail
                    \/ reqs[f].state = "Waiting" /\ told[f].mail = m
<1> DEFINE with(f) == IF reqs[f].state = "Waiting" /\ reqs[f].mail = None
                      THEN [reqs[f] EXCEPT !.mail = m] ELSE reqs[f]
<1>1. ASSUME NEW f \in Http!Futures
      PROVE  /\ with(f) \in Records
             /\ with(f).state = reqs[f].state /\ with(f).past = reqs[f].past
             /\ with(f).answer = reqs[f].answer
             /\ \/ with(f).mail = reqs[f].mail
                \/ reqs[f].state = "Waiting" /\ with(f).mail = m
  <2>1. reqs[f] \in Records
    OBVIOUS
  <2>2. QED
    BY <2>1 DEF Records
<1>2. Http!Deliver(reqs, m) = [f \in Http!Futures |-> with(f)]
  BY DEF Http!Deliver
<1> HIDE DEF with
<1>3. QED
  BY <1>1, <1>2

(* A request comes, or gets ready, or begins to wait. *)
LEMMA ComesH ==
    ASSUME HInv, NEW r \in Requests, NEW next \in Records, req' = [req EXCEPT ![r] = next],
           req[r].state \in {"New", "Ready", "Running"},
           next.state \in {"Ready", "Running", "Waiting"},
           next.past \in {req[r].past, {f \in Http!Futures : req[f].state = "Done"}},
           next.mail = req[r].mail, next.state = "Waiting" => caching.limit # None,
           free' \in 0..PERMITS, reserved' \subseteq Services,
           UNCHANGED <<adapter, inner, format, header, caching, flight, called, bare, sent, stored, age>>
    PROVE  HInv'
<1>1. r \in Http!Futures /\ Http!Revalidation(r) \in Http!Futures \ {r}
  BY FutureFacts
<1>2. /\ req \in [Http!Futures -> Records] /\ FutureOK(r) /\ RequestOK(r)
      /\ \A f \in Http!Futures : req[f].state = "Done" => f # r
  BY <1>1 DEF HInv, HTypes
<1>3. req' \in [Http!Futures -> Records] /\ req'[r] = next
      /\ \A f \in Http!Futures \ {r} : req'[f] = req[f]
  BY <1>1, <1>2
<1>4. HTypes'
  BY <1>3 DEF HInv, HTypes
<1>5. Monotone
  BY <1>2, <1>3 DEF Monotone
<1>6. StoredOK'
  BY <1>5, StoredStays
<1>7. \A f \in Http!Futures \ {r} : Stays(f) /\ NewMail(f)
  BY <1>3 DEF Stays, NewMail
<1>8. FutureOK(r)'
  BY <1>2, <1>3 DEF FutureOK
<1>9. RequestOK(r)'
  <2>1. Unborn(Http!Revalidation(r))'
    BY <1>1, <1>2, <1>3 DEF RequestOK, Unborn
  <2>2. \A f \in next.past : req'[f].state = "Done"
    BY <1>1, <1>2, <1>3 DEF RequestOK, Records
  <2>3. req'[r].mail = None
    BY <1>2, <1>3 DEF RequestOK
  <2>4. QED
    BY <1>3, <2>1, <2>2, <2>3 DEF RequestOK, MailOK
<1>10. {r} \in SUBSET Http!Futures /\ \A q \in Requests : Http!Revalidation(q) \notin {r}
  BY <1>1, FutureFacts
<1>11. QED
  BY <1>4, <1>5, <1>6, <1>7, <1>8, <1>9, <1>10, MoveH

LEMMA QuietH ==
    ASSUME HInv, NEW r \in Requests,
           \/ \E s \in Services : Http!PollReady(r, s)
           \/ Http!Call(r) \/ Http!Handle(r) \/ Http!Waits(r)
    PROVE  HInv'
<1>1. r \in Http!Futures /\ req[r] \in Records /\ req \in [Http!Futures -> Records]
      /\ free \in 0..PERMITS /\ reserved \subseteq Services /\ PERMITS \in Nat
  BY FutureFacts, HttpFacts DEF HInv, HTypes
<1>2. ASSUME NEW s \in Services, Http!PollReady(r, s) PROVE HInv'
  <2> DEFINE next == [req[r] EXCEPT !.state = "Ready", !.service = s]
  <2>1. /\ req[r].state = "New" /\ req' = [req EXCEPT ![r] = next]
        /\ UNCHANGED <<adapter, inner, format, header, caching, flight, called, bare, sent, stored, age>>
    BY <1>1, <1>2 DEF Http!PollReady, Http!In, Http!config
  <2>2. free' \in 0..PERMITS /\ reserved' \subseteq Services
    <3>1. CASE inner = "limited" /\ s \notin reserved
      <4>1. free > 0 /\ free' = free - 1 /\ reserved' = reserved \cup {s}
        BY <1>2, <3>1 DEF Http!PollReady
      <4>2. QED
        BY <1>1, <4>1
    <3>2. CASE ~(inner = "limited" /\ s \notin reserved)
      <4>1. free' = free /\ reserved' = reserved
        BY <1>2, <3>2 DEF Http!PollReady
      <4>2. QED
        BY <1>1, <4>1
    <3>3. QED
      BY <3>1, <3>2
  <2>3. next \in Records /\ next.state = "Ready" /\ next.past = req[r].past /\ next.mail = req[r].mail
    BY <1>1 DEF Records, Http!States
  <2> HIDE DEF next
  <2>4. QED
    BY <2>1, <2>2, <2>3, ComesH
<1>3. ASSUME Http!Call(r) \/ Http!Handle(r) PROVE HInv'
  <2> DEFINE ended == {f \in Http!Futures : req[f].state = "Done"}
             next  == [req[r] EXCEPT !.state = "Running", !.past = ended]
  <2>1. /\ req[r].state \in {"New", "Ready"} /\ req' = [req EXCEPT ![r] = next]
        /\ UNCHANGED <<adapter, inner, format, header, caching, free, reserved, flight, called, bare,
                       sent, stored, age>>
    BY <1>1, <1>3 DEF Http!Call, Http!Handle, Http!Comes, Http!In, Http!config
  <2>2. next \in Records /\ next.state = "Running" /\ next.past = ended /\ next.mail = req[r].mail
    <3>1. ended \in SUBSET Http!Futures
      OBVIOUS
    <3> HIDE DEF ended
    <3>2. QED
      BY <1>1, <3>1 DEF Records, Http!States
  <2> HIDE DEF next
  <2>3. free' \in 0..PERMITS /\ reserved' \subseteq Services
    BY <1>1, <2>1
  <2>4. QED
    BY <2>1, <2>2, <2>3, ComesH
<1>4. ASSUME Http!Waits(r) PROVE HInv'
  <2> DEFINE next == [req[r] EXCEPT !.state = "Waiting"]
  <2>1. /\ req[r].state = "Running" /\ req' = [req EXCEPT ![r] = next] /\ caching.limit # None
        /\ UNCHANGED <<adapter, inner, format, header, caching, free, reserved, flight, called, bare,
                       sent, stored, age>>
    BY <1>1, <1>4 DEF Http!Waits, Http!In, Http!config
  <2>2. next \in Records /\ next.state = "Waiting" /\ next.past = req[r].past /\ next.mail = req[r].mail
    BY <1>1 DEF Records, Http!States
  <2> HIDE DEF next
  <2>3. free' \in 0..PERMITS /\ reserved' \subseteq Services
    BY <1>1, <2>1
  <2>4. QED
    BY <2>1, <2>2, <2>3, ComesH
<1>5. QED
  BY <1>2, <1>3, <1>4

(* A request calls the upstream, and may have turned others away. *)
LEMMA CallH ==
    ASSUME HInv, NEW r \in Requests, req[r].state \in {"Running", "Waiting"},
           NEW reqs \in [Http!Futures -> Records], NEW k \in BOOLEAN, NEW p \in BOOLEAN,
           \A f \in Http!Futures :
              /\ reqs[f].state = req[f].state /\ reqs[f].past = req[f].past
              /\ reqs[f].answer = req[f].answer
              /\ \/ reqs[f].mail = req[f].mail
                 \/ req[f].state = "Waiting" /\ reqs[f].mail = Error,
           Http!CallUpstream(r, reqs, k, p), flight' \in Nat \cup {None}
    PROVE  HInv'
<1> DEFINE next == IF inner = "limited" THEN [reqs[r] EXCEPT !.state = "Panicked"]
                   ELSE [reqs[r] EXCEPT !.state = "Upstream", !.keyed = k, !.permit = p]
<1>1. r \in Http!Futures /\ Http!Revalidation(r) \in Http!Futures \ {r}
  BY FutureFacts
<1>2. HTypes /\ FutureOK(r) /\ RequestOK(r)
  BY <1>1 DEF HInv
<1>3. r \notin called /\ Http!Revalidation(r) \notin called /\ r \notin bare
  BY <1>2 DEF FutureOK, RequestOK, Unborn, HTypes
<1>4. /\ req' = [reqs EXCEPT ![r] = next] /\ called' = called \cup {r} /\ bare' = bare
      /\ UNCHANGED <<adapter, inner, format, header, caching, free, reserved, sent, stored, age>>
  <2>1. req' = [reqs EXCEPT ![r] = next]
    BY <1>1 DEF Http!CallUpstream
  <2>2. QED
    BY <1>3, <2>1 DEF Http!CallUpstream, Http!NotesCall, Http!config
<1>5. next \in Records /\ next.state \in {"Panicked", "Upstream"} /\ next.past = req[r].past
  BY <1>1 DEF Records, Http!States
<1> HIDE DEF next
<1>6. req' \in [Http!Futures -> Records] /\ req'[r] = next
      /\ \A f \in Http!Futures \ {r} : req'[f] = reqs[f]
  BY <1>1, <1>4, <1>5
<1>7. HTypes'
  BY <1>1, <1>2, <1>4, <1>6 DEF HTypes
<1>8. Monotone
  BY <1>4, <1>6 DEF Monotone
<1>9. StoredOK'
  BY <1>4, <1>8, StoredStays
<1>10. \A f \in Http!Futures \ {r} : Stays(f) /\ NewMail(f)
  BY <1>4, <1>6 DEF Stays, NewMail
<1>11. FutureOK(r)'
  BY <1>2, <1>3, <1>4, <1>5, <1>6 DEF FutureOK
<1>12. RequestOK(r)'
  <2>1. \A f \in next.past : req'[f].state = "Done"
    BY <1>1, <1>2, <1>5, <1>8 DEF RequestOK, Records, HTypes, Monotone
  <2>2. QED
    BY <1>5, <1>6, <2>1 DEF RequestOK, MailOK
<1>13. {r} \in SUBSET Http!Futures /\ \A q \in Requests : Http!Revalidation(q) \notin {r}
  BY <1>1, FutureFacts
<1>14. QED
  BY <1>7, <1>8, <1>9, <1>10, <1>11, <1>12, <1>13, MoveH

LEMMA CallsH ==
    ASSUME HInv, NEW r \in Requests,
           \/ Http!Bypasses(r) \/ Http!StaleRevalidates(r) \/ Http!MissesUnlimited(r)
           \/ Http!Proceeds(r) \/ Http!TurnedAway(r)
    PROVE  HInv'
<1>1. req \in [Http!Futures -> Records] /\ flight \in Nat \cup {None} /\ caching \in Caching
  BY DEF HInv, HTypes
<1>2. CASE Http!Bypasses(r) \/ Http!StaleRevalidates(r) \/ Http!MissesUnlimited(r)
  <2>1. PICK k \in BOOLEAN : Http!CallUpstream(r, req, k, FALSE)
    BY <1>2 DEF Http!Bypasses, Http!StaleRevalidates, Http!MissesUnlimited
  <2>2. req[r].state = "Running" /\ flight' = flight
    BY <1>2 DEF Http!Bypasses, Http!StaleRevalidates, Http!MissesUnlimited, Http!IsStaleHit, Http!In
  <2>3. QED
    BY <1>1, <2>1, <2>2, CallH
<1>3. CASE Http!Proceeds(r)
  <2>1. req[r].state = "Running" /\ Http!CallUpstream(r, req, TRUE, TRUE)
    BY <1>3 DEF Http!Proceeds, Http!In
  <2>2. flight' \in Nat \cup {None}
    <3> DEFINE permits == IF flight = None THEN caching.limit ELSE flight
    <3>1. caching.limit # None /\ flight # 0
      BY <1>3 DEF Http!Proceeds
    <3>2. permits \in Nat \ {0}
      BY <1>1, <3>1, CachingFacts
    <3>3. flight' = IF inner = "limited" THEN permits ELSE permits - 1
      BY <1>3 DEF Http!Proceeds
    <3> HIDE DEF permits
    <3>4. QED
      BY <3>2, <3>3
  <2>3. QED
    BY <1>1, <2>1, <2>2, CallH
<1>4. CASE Http!TurnedAway(r)
  <2> DEFINE reqs == Http!Deliver(req, Error)
  <2>1. req[r].state = "Waiting" /\ flight' = None /\ Http!CallUpstream(r, reqs, TRUE, FALSE)
    BY <1>4 DEF Http!TurnedAway, Http!In
  <2>2. Error \in Mails
    BY DEF Mails
  <2>3. /\ reqs \in [Http!Futures -> Records]
        /\ \A f \in Http!Futures :
              /\ reqs[f].state = req[f].state /\ reqs[f].past = req[f].past
              /\ reqs[f].answer = req[f].answer
              /\ \/ reqs[f].mail = req[f].mail
                 \/ req[f].state = "Waiting" /\ reqs[f].mail = Error
    BY <1>1, <2>2, DeliverIs
  <2> HIDE DEF reqs
  <2>4. QED
    BY <2>1, <2>3, CallH
<1>5. QED
  BY <1>2, <1>3, <1>4

-----------------------------------------------------------------------------
(* A request that has not called the upstream is answered with what another *)
(* future was sent: in the first place, what its answer is.                 *)
LEMMA OtherAnswerIs ==
    ASSUME HInv, NEW r \in Requests, req[r].state \in {"Running", "Waiting"},
           NEW by \in Http!Futures, NEW h \in Heads, SentBy(by, h), NEW s \in Statuses,
           s = "MISS" => caching.limit # None /\ by \notin req[r].past,
           NEW reqs, reqs = Http!Answered(r, Bare(by, h), s)
    PROVE  /\ reqs \in [Http!Futures -> Records]
           /\ \A f \in Http!Futures : f # r => reqs[f] = req[f]
           /\ reqs[r].state = "Done"
           /\ /\ req'[r] = reqs[r] /\ Monotone /\ sent' = sent
              /\ called' \in {called, called \cup {Http!Revalidation(r)}}
              => RequestOK(r)'
<1>1. r \in Http!Futures /\ Http!Revalidation(r) # r
  BY FutureFacts
<1>2. HTypes /\ FutureOK(r) /\ RequestOK(r)
  BY <1>1 DEF HInv
<1> DEFINE told == Http!WithStatus(Bare(by, h), s)
<1>3. /\ told \in Messages /\ told.body = by /\ told.version = h.version
      /\ told.headers = [h.headers EXCEPT ![header] = <<s>>]
  BY <1>2, WithStatusIs
<1> HIDE DEF told
<1>4. Bare(by, h) # Error => told \in Messages
  BY <1>3
<1>5. /\ reqs \in [Http!Futures -> Records]
      /\ \A f \in Http!Futures : f # r => reqs[f] = req[f]
      /\ reqs[r].state = "Done" /\ reqs[r].past = req[r].past
      /\ reqs[r].answer # Error => reqs[r].answer = told
  BY <1>1, <1>2, <1>3, AnsweredIs DEF told
<1>6. ASSUME req'[r] = reqs[r], called' \in {called, called \cup {Http!Revalidation(r)}},
             Monotone, sent' = sent
      PROVE  RequestOK(r)'
  <2>1. r \notin called'
    BY <1>1, <1>2, <1>6 DEF FutureOK
  <2>2. \A f \in req'[r].past : req'[f].state = "Done"
    BY <1>1, <1>2, <1>5, <1>6 DEF RequestOK, HTypes, Records, Monotone
  <2>3. ASSUME req'[r].answer # Error PROVE Passes(r)'
    <3>1. /\ req'[r].answer.body = by /\ req'[r].answer.version = h.version
          /\ req'[r].answer.headers = [h.headers EXCEPT ![header'] = <<s>>]
      BY <1>3, <1>5, <1>6, <2>3 DEF Monotone
    <3>2. s = "MISS" => caching'.limit # None /\ by \notin req'[r].past
      BY <1>5, <1>6 DEF Monotone
    <3>3. SentBy(by, h)'
      BY <1>6 DEF SentBy, Http!Response
    <3>4. QED
      BY <2>1, <3>1, <3>2, <3>3 DEF Passes
  <2>4. QED
    BY <1>5, <1>6, <2>2, <2>3 DEF RequestOK, MailOK
<1>7. QED
  BY <1>5, <1>6

LEMMA AnswerH ==
    ASSUME HInv, NEW r \in Requests, req[r].state \in {"Running", "Waiting"},
           NEW by \in Http!Futures, NEW h \in Heads, SentBy(by, h), NEW s \in Statuses,
           s = "MISS" => caching.limit # None /\ by \notin req[r].past,
           req' = Http!Answered(r, Bare(by, h), s),
           UNCHANGED <<Http!config, free, reserved, flight, called, bare, sent, stored, age>>
    PROVE  HInv'
<1>1. r \in Http!Futures /\ {r} \in SUBSET Http!Futures
      /\ \A q \in Requests : Http!Revalidation(q) \notin {r}
  BY FutureFacts
<1>2. /\ req' \in [Http!Futures -> Records] /\ req'[r].state = "Done"
      /\ \A f \in Http!Futures : f # r => req'[f] = req[f]
  BY OtherAnswerIs
<1>3. HTypes'
  BY <1>2 DEF HInv, HTypes, Http!config
<1>4. Monotone
  BY <1>2 DEF Monotone, Http!config
<1>5. StoredOK'
  BY <1>4, StoredStays
<1>6. \A f \in Http!Futures \ {r} : Stays(f) /\ NewMail(f)
  BY <1>2 DEF Stays, NewMail
<1>7. FutureOK(r)'
  BY <1>2 DEF FutureOK
<1>8. RequestOK(r)'
  <2>1. called' \in {called, called \cup {Http!Revalidation(r)}} /\ sent' = sent
    OBVIOUS
  <2>2. QED
    BY <1>4, <2>1, OtherAnswerIs
<1>9. QED
  BY <1>1, <1>3, <1>4, <1>5, <1>6, <1>7, <1>8, MoveH

LEMMA StoredIs ==
    ASSUME HInv, stored # None
    PROVE  \E by \in Http!Futures, h \in Heads :
              SentBy(by, h) /\ Http!FromCached(Http!Deserialize(stored)) = Bare(by, h)
<1>1. PICK by \in Http!Futures, h \in Heads :
         SentBy(by, h) /\ stored = Http!Serialize(Http!IntoCached(Http!Response(by, h)))
  BY DEF HInv, StoredOK
<1>2. QED
  BY <1>1, StoredReads

LEMMA AnswersH ==
    ASSUME HInv, NEW r \in Requests,
           Http!Hit(r) \/ Http!StaleReturns(r) \/ Http!Receives(r)
    PROVE  HInv'
<1>1. UNCHANGED <<Http!config, free, reserved, flight, called, bare, sent, stored, age>>
  BY DEF Http!Hit, Http!StaleReturns, Http!Receives
<1>2. CASE Http!Hit(r) \/ Http!StaleReturns(r)
  <2>1. PICK s \in {"HIT", "STALE"} :
           req' = Http!Answered(r, Http!FromCached(Http!Deserialize(stored)), s)
    BY <1>2 DEF Http!Hit, Http!StaleReturns, Http!AnswerStored
  <2>2. req[r].state = "Running" /\ stored # None
    BY <1>2 DEF Http!Hit, Http!StaleReturns, Http!IsStaleHit, Http!In
  <2>3. PICK by \in Http!Futures, h \in Heads :
           SentBy(by, h) /\ Http!FromCached(Http!Deserialize(stored)) = Bare(by, h)
    BY <2>2, StoredIs
  <2>4. s \in Statuses /\ s # "MISS" /\ req' = Http!Answered(r, Bare(by, h), s)
    BY <2>1, <2>3 DEF Statuses
  <2>5. QED
    BY <1>1, <2>2, <2>3, <2>4, AnswerH
<1>3. CASE Http!Receives(r)
  <2>1. /\ req[r].state = "Waiting" /\ req[r].mail \notin {None, Error}
        /\ req' = Http!Answered(r, Http!FromCached(req[r].mail), "MISS")
    BY <1>3 DEF Http!Receives, Http!In
  <2>2. PICK by \in Http!Futures, h \in Heads :
           /\ SentBy(by, h) /\ by \notin req[r].past
           /\ req[r].mail = Http!IntoCached(Http!Response(by, h))
    BY <2>1 DEF HInv, RequestOK, MailOK
  <2>3. caching.limit # None
    BY <2>1 DEF HInv, RequestOK, MailOK
  <2>4. Http!FromCached(req[r].mail) = Bare(by, h)
    BY <2>2, StoredReads
  <2>5. "MISS" \in Statuses /\ req' = Http!Answered(r, Bare(by, h), "MISS")
    BY <2>1, <2>4 DEF Statuses
  <2>6. QED
    BY <1>1, <2>1, <2>2, <2>3, <2>5, AnswerH
<1>4. QED
  BY <1>2, <1>3

(* A stale hit answers, and its task calls the upstream. *)
LEMMA OffloadH ==
    ASSUME HInv, NEW r \in Requests, Http!StaleOffloads(r)
    PROVE  HInv'
<1> DEFINE job == Http!Revalidation(r)
           M   == {r, job}
<1>1. r \in Http!Futures /\ job \in Http!Futures /\ job \notin Requests /\ job # r
  BY FutureFacts
<1>2. HTypes /\ FutureOK(r) /\ RequestOK(r) /\ FutureOK(job)
  BY <1>1 DEF HInv
<1>3. req[r].state = "Running" /\ stored # None
  BY DEF Http!StaleOffloads, Http!IsStaleHit, Http!In
<1>4. r \notin called /\ Unborn(job) /\ job \notin bare
  BY <1>2, <1>3 DEF FutureOK, RequestOK, Unborn, HTypes
<1>5. /\ called' = called \cup {job} /\ bare' = bare
      /\ UNCHANGED <<adapter, inner, format, header, caching, free, reserved, flight, sent, stored, age>>
  BY <1>4 DEF Http!StaleOffloads, Http!NotesCall, Http!config, Unborn
<1>6. M \in SUBSET Http!Futures /\ \A q \in Requests \ M : Http!Revalidation(q) \notin M
  BY <1>1, FutureFacts
<1>7. PICK by \in Http!Futures, h \in Heads :
         SentBy(by, h) /\ Http!FromCached(Http!Deserialize(stored)) = Bare(by, h)
  BY <1>3, StoredIs
<1> DEFINE reqs == Http!Answered(r, Bare(by, h), "STALE")
<1>8. /\ reqs \in [Http!Futures -> Records]
      /\ \A f \in Http!Futures : f # r => reqs[f] = req[f]
      /\ reqs[r].state = "Done"
  BY <1>3, <1>7, OtherAnswerIs DEF Statuses
<1>9. \/ req' = [req EXCEPT ![r].state = "Panicked"]
      \/ \E to \in {"Upstream", "Dropped"} :
            req' = [reqs EXCEPT ![job].state = to, ![job].keyed = TRUE]
  BY <1>7 DEF Http!StaleOffloads
<1>10. CASE req' = [req EXCEPT ![r].state = "Panicked"]
  <2> DEFINE next == [req[r] EXCEPT !.state = "Panicked"]
  <2>1. req \in [Http!Futures -> Records] /\ req' = [req EXCEPT ![r] = next]
    BY <1>2, <1>10 DEF HTypes
  <2>2. next \in Records /\ next.state = "Panicked" /\ next.past = req[r].past
    BY <1>1, <2>1 DEF Records, Http!States
  <2> HIDE DEF next
  <2>3. req' \in [Http!Futures -> Records] /\ req'[r] = next
        /\ \A f \in Http!Futures : f # r => req'[f] = req[f]
    BY <1>1, <2>1, <2>2
  <2>4. HTypes'
    BY <1>1, <1>2, <1>5, <2>3 DEF HTypes
  <2>5. Monotone
    BY <1>3, <1>5, <2>3 DEF Monotone
  <2>6. StoredOK'
    BY <1>5, <2>5, StoredStays
  <2>7. \A f \in Http!Futures \ M : Stays(f) /\ NewMail(f)
    BY <1>5, <2>3 DEF Stays, NewMail
  <2>8. FutureOK(r)'
    BY <1>2, <1>3, <1>5, <2>2, <2>3 DEF FutureOK
  <2>9. FutureOK(job)'
    BY <1>1, <1>2, <1>4, <1>5, <2>3 DEF FutureOK, Unborn
  <2>10. RequestOK(r)'
    <3>1. \A f \in next.past : req'[f].state = "Done"
      BY <1>1, <1>2, <2>2, <2>5 DEF RequestOK, Records, HTypes, Monotone
    <3>2. QED
      BY <2>2, <2>3, <3>1 DEF RequestOK, MailOK
  <2>11. \A f \in M : FutureOK(f)'
    BY <2>8, <2>9
  <2>12. \A q \in Requests \cap M : RequestOK(q)'
    BY <1>1, <2>10
  <2> HIDE DEF M
  <2>13. QED
    BY <1>6, <2>4, <2>5, <2>6, <2>7, <2>11, <2>12, MoveH
<1>11. ASSUME NEW to \in {"Upstream", "Dropped"},
              req' = [reqs EXCEPT ![job].state = to, ![job].keyed = TRUE]
       PROVE  HInv'
  <2> DEFINE next == [reqs[job] EXCEPT !.state = to, !.keyed = TRUE]
  <2> HIDE DEF reqs
  <2>1. req' = [reqs EXCEPT ![job] = next]
    BY <1>8, <1>11
  <2>2. next \in Records /\ next.state = to
    <3>1. reqs[job] \in Records
      BY <1>1, <1>8
    <3> HIDE DEF job
    <3>2. QED
      BY <3>1 DEF Records, Http!States
  <2> HIDE DEF next
  <2>3. req' \in [Http!Futures -> Records] /\ req'[job] = next /\ req'[r] = reqs[r]
        /\ \A f \in Http!Futures \ M : req'[f] = req[f]
    BY <1>1, <1>8, <2>1, <2>2
  <2>4. HTypes'
    BY <1>1, <1>2, <1>5, <2>3 DEF HTypes
  <2>5. Monotone
    <3>1. req[job].state # "Done"
      BY <1>4 DEF Unborn
    <3>2. QED
      BY <1>3, <1>5, <2>3, <3>1 DEF Monotone
  <2>6. StoredOK'
    BY <1>5, <2>5, StoredStays
  <2>7. \A f \in Http!Futures \ M : Stays(f) /\ NewMail(f)
    BY <1>5, <2>3 DEF Stays, NewMail
  <2>8. FutureOK(r)'
    BY <1>8, <2>3 DEF FutureOK
  <2>9. FutureOK(job)'
    BY <1>1, <1>2, <1>4, <1>5, <2>2, <2>3 DEF FutureOK, Unborn
  <2>10. RequestOK(r)'
    <3>1. "STALE" \in Statuses /\ "STALE" # "MISS"
      BY DEF Statuses
    <3>2. called' \in {called, called \cup {Http!Revalidation(r)}} /\ sent' = sent
      BY <1>5
    <3>3. QED
      BY <1>3, <1>7, <2>3, <2>5, <3>1, <3>2, OtherAnswerIs DEF reqs
  <2>11. \A f \in M : FutureOK(f)'
    BY <2>8, <2>9
  <2>12. \A q \in Requests \cap M : RequestOK(q)'
    BY <1>1, <2>10
  <2> HIDE DEF M
  <2>13. QED
    BY <1>6, <2>4, <2>5, <2>6, <2>7, <2>11, <2>12, MoveH
<1>12. QED
  BY <1>9, <1>10, <1>11

-----------------------------------------------------------------------------
(* The upstream answers: what becomes of the futures. *)
LEMMA EndsIs ==
    ASSUME HInv, NEW f \in Http!Futures, NEW a, NEW m \in Mails,
           a = Error \/ Http!WithStatus(a, "MISS") \in Messages, Http!Ends(f, a, m)
    PROVE  /\ req' \in [Http!Futures -> Records] /\ flight' \in Nat \cup {None}
           /\ req'[f].state = "Done" /\ req'[f].past = req[f].past
           /\ f \in Requests => req'[f].answer = IF a = Error THEN Error ELSE Http!WithStatus(a, "MISS")
           /\ \A g \in Http!Futures : g # f =>
                 /\ req'[g].state = req[g].state /\ req'[g].past = req[g].past
                 /\ req'[g].answer = req[g].answer
                 /\ \/ req'[g].mail = req[g].mail
                    \/ req[g].state = "Waiting" /\ req'[g].mail = m
<1> DEFINE reqs == Http!Answered(f, a, "MISS")
<1>1. HTypes /\ "MISS" \in Statuses
  BY DEF HInv, Statuses
<1>2. /\ reqs \in [Http!Futures -> Records]
      /\ \A g \in Http!Futures : g # f => reqs[g] = req[g]
      /\ reqs[f].state = "Done" /\ reqs[f].past = req[f].past
      /\ f \in Requests => reqs[f].answer = IF a = Error THEN Error ELSE Http!WithStatus(a, "MISS")
  BY <1>1, AnsweredIs
<1>3. /\ \/ req' = Http!Deliver(reqs, m) /\ flight' = None
         \/ req' = reqs /\ flight' = flight
  BY DEF Http!Ends
<1> HIDE DEF reqs
<1>4. flight' \in Nat \cup {None}
  BY <1>1, <1>3 DEF HTypes
<1>5. CASE req' = reqs
  BY <1>2, <1>4, <1>5
<1>6. CASE req' = Http!Deliver(reqs, m)
  <2>1. /\ req' \in [Http!Futures -> Records]
        /\ \A g \in Http!Futures :
              /\ req'[g].state = reqs[g].state /\ req'[g].past = reqs[g].past
              /\ req'[g].answer = reqs[g].answer
              /\ \/ req'[g].mail = reqs[g].mail
                 \/ reqs[g].state = "Waiting" /\ req'[g].mail = m
    BY <1>2, <1>6, DeliverIs
  <2>2. QED
    BY <1>2, <1>4, <2>1
<1>7. QED
  BY <1>3, <1>5, <1>6

(* x is what the upstream sends, a what the client gets, m what the waiters *)
(* find.                                                                    *)
LEMMA EndH ==
    ASSUME HInv, NEW f \in Http!Futures, req[f].state = "Upstream",
           NEW x, NEW a, NEW m, sent' = [sent EXCEPT ![f] = x], Http!Ends(f, a, m),
           \/ x = Error /\ a = Error /\ m = Error /\ stored' = stored
           \/ \E h \in Heads :
                 /\ x = Http!Response(f, h) /\ a \in {x, Bare(f, h)}
                 /\ m \in {Error, Http!IntoCached(x)}
                 /\ stored' \in {stored, Http!Serialize(Http!IntoCached(x))},
           age' \in {"Actual", "Stale", "Expired"},
           UNCHANGED <<Http!config, free, reserved, called, bare>>
    PROVE  HInv'
<1> DEFINE told == Http!WithStatus(a, "MISS")
<1>1. HTypes /\ FutureOK(f) /\ sent[f] = None /\ DOMAIN sent = Http!Futures /\ "MISS" \in Statuses
  BY DEF HInv, HTypes, FutureOK, Statuses
<1>2. sent'[f] = x /\ \A g \in Http!Futures : g # f => sent'[g] = sent[g]
  BY <1>1
<1>3. m \in Mails
  BY DEF Mails
<1>4. ASSUME a # Error
      PROVE  \E h \in Heads : /\ x = Http!Response(f, h) /\ told \in Messages /\ told.body = f
                              /\ told.version = h.version
                              /\ told.headers = [h.headers EXCEPT ![header] = <<"MISS">>]
  <2>1. PICK h \in Heads : x = Http!Response(f, h) /\ a \in {Http!Response(f, h), Bare(f, h)}
    BY <1>4
  <2>2. /\ Http!WithStatus(a, "MISS") \in Messages /\ Http!WithStatus(a, "MISS").body = f
        /\ Http!WithStatus(a, "MISS").version = h.version
        /\ Http!WithStatus(a, "MISS").headers = [h.headers EXCEPT ![header] = <<"MISS">>]
    BY <1>1, <2>1, WithStatusIs
  <2> HIDE DEF told
  <2>3. QED
    BY <2>1, <2>2 DEF told
<1> HIDE DEF told
<1>5. /\ req' \in [Http!Futures -> Records] /\ flight' \in Nat \cup {None}
      /\ req'[f].state = "Done" /\ req'[f].past = req[f].past
      /\ f \in Requests => req'[f].answer = IF a = Error THEN Error ELSE told
      /\ \A g \in Http!Futures : g # f =>
            /\ req'[g].state = req[g].state /\ req'[g].past = req[g].past
            /\ req'[g].answer = req[g].answer
            /\ \/ req'[g].mail = req[g].mail
               \/ req[g].state = "Waiting" /\ req'[g].mail = m
  <2>1. a = Error \/ Http!WithStatus(a, "MISS") \in Messages
    BY <1>4 DEF told
  <2>2. QED
    BY <1>3, <2>1, EndsIs DEF told
<1>6. HTypes'
  BY <1>1, <1>5 DEF HTypes, Http!config
<1>7. Monotone
  BY <1>1, <1>2, <1>5 DEF Monotone, Http!config
<1>8. \A h : x = Http!Response(f, h) => SentBy(f, h)'
  BY <1>2 DEF SentBy, Http!Response
<1>9. StoredOK'
  <2>1. CASE stored' = stored
    BY <1>7, <2>1, StoredStays
  <2>2. CASE \E h \in Heads : x = Http!Response(f, h) /\ stored' = Http!Serialize(Http!IntoCached(x))
    <3>1. PICK h \in Heads : x = Http!Response(f, h) /\ stored' = Http!Serialize(Http!IntoCached(x))
      BY <2>2
    <3>2. stored' = Http!Serialize(Http!IntoCached(Http!Response(f, h)))'
      BY <1>7, <3>1 DEF Http!Serialize, Monotone
    <3>3. QED
      BY <1>8, <3>1, <3>2 DEF StoredOK
  <2>3. QED
    BY <2>1, <2>2
<1>10. ASSUME NEW g \in Http!Futures \ {f} PROVE Stays(g) /\ NewMail(g)
  <2>1. Stays(g)
    BY <1>2, <1>5 DEF Stays
  <2>2. CASE req'[g].mail = req[g].mail
    BY <2>1, <2>2 DEF NewMail
  <2>3. CASE req[g].state = "Waiting" /\ req'[g].mail = m
    <3>1. m = Error \/ \E h \in Heads : x = Http!Response(f, h) /\ m = Http!IntoCached(Http!Response(f, h))
      OBVIOUS
    <3>2. QED
      BY <1>8, <2>1, <2>3, <3>1 DEF NewMail
  <2>4. QED
    BY <1>5, <2>2, <2>3, <2>1
<1>11. FutureOK(f)'
  BY <1>5 DEF FutureOK
<1>12. ASSUME f \in Requests PROVE RequestOK(f)'
  <2>1. \A g \in req'[f].past : req'[g].state = "Done"
    BY <1>1, <1>5, <1>7, <1>12 DEF HInv, RequestOK, HTypes, Records, Monotone
  <2>2. ASSUME req'[f].answer # Error PROVE Passes(f)'
    <3>1. req'[f].answer = told /\ a # Error
      BY <1>5, <1>12, <2>2
    <3>2. PICK h \in Heads : /\ x = Http!Response(f, h) /\ told.body = f /\ told.version = h.version
                             /\ told.headers = [h.headers EXCEPT ![header] = <<"MISS">>]
      BY <1>4, <3>1
    <3>3. SentBy(f, h)' /\ told.headers = [h.headers EXCEPT ![header'] = <<"MISS">>]
      BY <1>7, <1>8, <3>2 DEF Monotone
    <3>4. QED
      BY <1>1, <3>1, <3>2, <3>3 DEF Passes
  <2>3. QED
    BY <1>5, <2>1, <2>2 DEF RequestOK, MailOK
<1>13. /\ {f} \in SUBSET Http!Futures
       /\ \A q \in Requests : Http!Revalidation(q) \in {f} => ~Unborn(Http!Revalidation(q))
  BY DEF Unborn
<1>14. QED
  BY <1>6, <1>7, <1>9, <1>10, <1>11, <1>12, <1>13, MoveH

LEMMA EndingsH ==
    ASSUME HInv, NEW f \in Http!Futures,
           Http!UpstreamFails(f) \/ Http!NotCacheable(f) \/ Http!CacheableResponse(f)
    PROVE  HInv'
<1>1. /\ req[f].state = "Upstream" /\ age \in {"Actual", "Stale", "Expired"}
      /\ UNCHANGED <<Http!config, free, reserved, called, bare>>
  BY DEF Http!UpstreamFails, Http!NotCacheable, Http!CacheableResponse, Http!In, HInv, HTypes
<1>2. CASE Http!UpstreamFails(f)
  <2>1. sent' = [sent EXCEPT ![f] = Error] /\ Http!Ends(f, Error, Error) /\ UNCHANGED <<stored, age>>
    BY <1>2 DEF Http!UpstreamFails
  <2>2. QED
    BY <1>1, <2>1, EndH
<1>3. CASE Http!NotCacheable(f)
  <2>1. PICK h \in Heads : /\ sent' = [sent EXCEPT ![f] = Http!Response(f, h)]
                           /\ Http!Ends(f, Http!Response(f, h), Error)
    BY <1>3 DEF Http!NotCacheable
  <2>2. UNCHANGED <<stored, age>>
    BY <1>3 DEF Http!NotCacheable
  <2>3. QED
    BY <1>1, <2>1, <2>2, EndH
<1>4. CASE Http!CacheableResponse(f)
  <2>1. PICK h \in Heads :
           /\ sent' = [sent EXCEPT ![f] = Http!Response(f, h)]
           /\ \/ stored' = Http!Serialize(Http!IntoCached(Http!Response(f, h))) /\ age' = "Actual"
              \/ UNCHANGED <<stored, age>>
           /\ Http!Ends(f, Http!FromCached(Http!IntoCached(Http!Response(f, h))),
                        Http!IntoCached(Http!Response(f, h)))
    BY <1>4 DEF Http!CacheableResponse
  <2>2. Http!Ends(f, Bare(f, h), Http!IntoCached(Http!Response(f, h)))
    BY <2>1, StoredReads
  <2>3. age' \in {"Actual", "Stale", "Expired"}
    BY <1>1, <2>1
  <2>4. QED
    BY <1>1, <2>1, <2>2, <2>3, EndH
<1>5. QED
  BY <1>2, <1>3, <1>4

(* A step that leaves the messages alone. *)
LEMMA RestH ==
    ASSUME HInv, age' \in {"Actual", "Stale", "Expired"},
           UNCHANGED <<adapter, inner, format, header, caching, free, reserved, flight, req, called,
                       bare, sent, stored>>
    PROVE  HInv'
<1>1. HTypes'
  BY DEF HInv, HTypes
<1>2. Monotone
  BY DEF Monotone
<1>3. StoredOK'
  BY <1>2, StoredStays
<1>4. \A f \in Http!Futures : Stays(f) /\ NewMail(f)
  BY DEF Stays, NewMail
<1>5. {} \in SUBSET Http!Futures
  OBVIOUS
<1>6. QED
  BY <1>1, <1>2, <1>3, <1>4, <1>5, MoveH

LEMMA NextH == HInv /\ (Http!Next \/ UNCHANGED Http!vars) => HInv'
<1> SUFFICES ASSUME HInv, Http!Next \/ UNCHANGED Http!vars PROVE HInv'
  OBVIOUS
<1>1. CASE UNCHANGED Http!vars
  BY <1>1, RestH DEF HInv, HTypes, Http!vars, Http!config
<1>2. CASE Http!Ages
  BY <1>2, RestH DEF Http!Ages, Http!config
<1>3. ASSUME NEW r \in Requests,
             \/ \E s \in Services : Http!PollReady(r, s)
             \/ Http!Call(r) \/ Http!Handle(r) \/ Http!Waits(r)
      PROVE  HInv'
  BY <1>3, QuietH
<1>4. ASSUME NEW r \in Requests,
             \/ Http!Bypasses(r) \/ Http!StaleRevalidates(r) \/ Http!MissesUnlimited(r)
             \/ Http!Proceeds(r) \/ Http!TurnedAway(r)
      PROVE  HInv'
  BY <1>4, CallsH
<1>5. ASSUME NEW r \in Requests,
             Http!Hit(r) \/ Http!StaleReturns(r) \/ Http!Receives(r) \/ Http!StaleOffloads(r)
      PROVE  HInv'
  BY <1>5, AnswersH, OffloadH
<1>6. ASSUME NEW f \in Http!Futures,
             Http!UpstreamFails(f) \/ Http!NotCacheable(f) \/ Http!CacheableResponse(f)
      PROVE  HInv'
  BY <1>6, EndingsH
<1>7. QED
  BY <1>1, <1>2, <1>3, <1>4, <1>5, <1>6 DEF Http!Next, Http!Ended

LEMMA HttpTypes == HInv => Http!TypeOK
<1> SUFFICES ASSUME HInv PROVE Http!TypeOK
  OBVIOUS
<1>1. HTypes
  BY DEF HInv
<1>2. \A f \in Http!Futures :
         /\ req[f].state \in Http!States /\ req[f].service \in Services \cup {None}
         /\ req[f].keyed \in BOOLEAN /\ req[f].permit \in BOOLEAN /\ req[f].past \subseteq Http!Futures
  BY <1>1 DEF HTypes, Records
<1>3. HeaderNameSet = Http!Range(HttpNames)
  BY DEF HeaderNameSet, Http!Range
<1>4. QED
  BY <1>1, <1>2, <1>3 DEF HTypes, Http!TypeOK

LEMMA AnswersPass ==
    HInv => /\ Http!AnswersAreTheUpstreams /\ Http!StatusHeaderTellsSource
            /\ Http!ExtensionsReachUpstream
<1> SUFFICES ASSUME HInv
             PROVE  /\ Http!AnswersAreTheUpstreams /\ Http!StatusHeaderTellsSource
                    /\ Http!ExtensionsReachUpstream
  OBVIOUS
<1>1. Http!ExtensionsReachUpstream
  BY DEF HInv, FutureOK, Http!ExtensionsReachUpstream, Http!In
<1>2. ASSUME NEW r \in Requests, Http!IsAnswered(r)
      PROVE  LET by == req[r].answer.body IN
             /\ Http!IsSent(by) /\ Http!SameHead(req[r].answer, sent[by])
             /\ r \in called => by = r
             /\ \E s \in {"HIT", "MISS", "STALE"} :
                   /\ req[r].answer.headers[header] = <<s>>
                   /\ s = "MISS" => by = r \/ (caching.limit # None /\ by \notin req[r].past)
                   /\ s # "MISS" => r \notin called
  <2> DEFINE a == req[r].answer
  <2>1. Passes(r)
    BY <1>2 DEF HInv, RequestOK, Http!IsAnswered, Http!In
  <2>2. PICK by \in Http!Futures, h \in Heads, s \in Statuses :
           /\ SentBy(by, h)
           /\ a.body = by /\ a.version = h.version
           /\ a.headers = [h.headers EXCEPT ![header] = <<s>>]
           /\ r \in called => by = r
           /\ s = "MISS" => by = r \/ (caching.limit # None /\ by \notin req[r].past)
           /\ s # "MISS" => r \notin called
    BY <2>1 DEF Passes
  <2>3. h.headers \in [HeaderNameSet -> Seq(HeaderValues)] /\ header \in HeaderNameSet
    <3>1. h.headers \in Http!Headers
      BY HttpFacts
    <3>2. QED
      BY <3>1, HeadersType DEF HInv, HTypes
  <2>4. sent[by] = Http!Response(by, h) /\ Http!IsSent(by)
    BY <2>2, HttpFacts DEF SentBy, Http!IsSent
  <2>5. sent[by].version = h.version /\ sent[by].headers = h.headers
    BY <2>4 DEF Http!Response
  <2> HIDE DEF a
  <2>6. a.headers[header] = <<s>> /\ \A n \in HeaderNameSet \ {header} : a.headers[n] = h.headers[n]
    BY <2>2, <2>3
  <2>7. HeaderNameSet = Http!Range(HttpNames)
    BY DEF HeaderNameSet, Http!Range
  <2>8. Http!SameHead(a, sent[by])
    BY <2>2, <2>5, <2>6, <2>7 DEF Http!SameHead
  <2>9. QED
    BY <2>2, <2>4, <2>6, <2>8 DEF a, Statuses
<1>3. QED
  BY <1>1, <1>2 DEF Http!AnswersAreTheUpstreams, Http!StatusHeaderTellsSource

-----------------------------------------------------------------------------
(* All of it. *)
SInv ==
    /\ part \in {"config", "messages", "keys", "builder", "tasks"}
    /\ part = "config" => CInv
    /\ part = "messages" => HInv
    /\ part = "keys" => KInv
    /\ part = "builder" => BInv
    /\ part = "tasks" => TP!MInv

LEMMA InitSInv == Init => SInv
<1> SUFFICES ASSUME Init PROVE SInv
  OBVIOUS
<1>1. CASE part = "config" /\ Setup!Init
  BY <1>1, InitC DEF SInv
<1>2. CASE part = "messages" /\ Http!Init
  BY <1>2, InitH DEF SInv
<1>3. CASE part = "keys" /\ Extraction!Init
  BY <1>3, InitK DEF SInv
<1>4. CASE part = "builder" /\ Builder!Init
  BY <1>4, InitB DEF SInv
<1>5. CASE part = "tasks" /\ Tasks!MetricsInit
  BY <1>5, InitTasks DEF SInv
<1>6. QED
  BY <1>1, <1>2, <1>3, <1>4, <1>5 DEF Init

LEMMA NextSInv == SInv /\ [Next]_vars => SInv'
<1> SUFFICES ASSUME SInv, [Next]_vars PROVE SInv'
  OBVIOUS
<1>1. CASE part = "config" /\ part' = part /\ (Setup!Next \/ UNCHANGED Setup!vars)
  BY <1>1, NextC DEF SInv
<1>2. CASE part = "messages" /\ part' = part /\ (Http!Next \/ UNCHANGED Http!vars)
  BY <1>2, NextH DEF SInv
<1>3. CASE part = "keys" /\ part' = part /\ (Extraction!Next \/ UNCHANGED Extraction!vars)
  BY <1>3, NextK DEF SInv
<1>4. CASE part = "builder" /\ part' = part /\ (Builder!Next \/ UNCHANGED Builder!vars)
  BY <1>4, NextB DEF SInv
<1>5. CASE part = "tasks" /\ part' = part /\ (Tasks!MetricsNext \/ UNCHANGED Tasks!all_vars)
  BY <1>5, NextTasks DEF SInv
<1>6. CASE Next
  BY <1>1, <1>2, <1>3, <1>4, <1>5, <1>6
  DEF Next, ConfigNext, MessagesNext, KeysNext, BuilderNext, TasksNext
<1>7. CASE UNCHANGED vars
  <2>1. /\ part' = part /\ UNCHANGED Setup!vars /\ UNCHANGED Http!vars
        /\ UNCHANGED Extraction!vars /\ UNCHANGED Builder!vars /\ UNCHANGED Tasks!all_vars
    BY <1>7 DEF vars, configVars, messageVars, keyVars, builderVars, taskVars, Setup!vars,
                Http!vars, Http!config, Extraction!vars, Builder!vars, Tasks!all_vars, Tasks!vars,
                Tasks!metrics_vars
  <2>2. part \in {"config", "messages", "keys", "builder", "tasks"}
    BY DEF SInv
  <2>3. QED
    BY <1>1, <1>2, <1>3, <1>4, <1>5, <2>1, <2>2
<1>8. QED
  BY <1>6, <1>7

LEMMA AlwaysSInv == Spec => []SInv
  BY InitSInv, NextSInv, PTL DEF Spec

(* State stays within its types, whichever part is done: the setters,       *)
(* build() and caching of a configuration, the requests of the two          *)
(* adapters, the builder of a backend, the tasks with their metrics.        *)
THEOREM ServiceTypes == Spec => []TypeOK
<1>1. SInv => TypeOK
  BY ConfigTypes, HttpTypes, BuilderTypeOK, TasksCounted DEF SInv, TypeOK
<1>2. QED
  BY <1>1, AlwaysSInv, PTL

(* The last call for a field of PolicyConfigBuilder or of a backend's       *)
(* builder decides, one call keeps what the others chose, a label computed  *)
(* ahead is that of the backend it labels, and what is cached is stale      *)
(* before it is expired.                                                    *)
THEOREM ServiceChoicesCount == Spec => []ChoicesCount
<1>1. SInv => ChoicesCount
  BY ConfigChoices, ConfigStale, BuilderChoices DEF SInv, ChoicesCount
<1>2. QED
  BY <1>1, AlwaysSInv, PTL

(* A client of CacheService or of CacheMiddleware gets version, headers and *)
(* body of one response of the upstream, through either format, whether it  *)
(* called the upstream, found the response, or waited for it under a        *)
(* concurrency limit: the one sent to its own call, if it made one.  Where  *)
(* the status header says MISS, that response is its own or was still to    *)
(* come when it asked; where it says HIT or STALE, only a background task   *)
(* may have called the upstream for it.  And the upstream gets the          *)
(* extensions of the request that it is called for.                         *)
THEOREM ServiceAdaptersPassOn == Spec => []AdaptersPassOn
<1>1. SInv => AdaptersPassOn
  BY AnswersPass DEF SInv, AdaptersPassOn
<1>2. QED
  BY <1>1, AlwaysSInv, PTL

(* Whatever the extractors, the requests and the orders in which maps yield *)
(* their parameters: a request is answered with an entry of its own, one of *)
(* a request that is the same to every extractor, when no two of them use   *)
(* one name for different things; two requests that are the same to all of  *)
(* them share an entry; and the default form of a key is read back          *)
(* (Extractor::get, CacheKeyFormat).                                        *)
THEOREM ServiceKeysApart == Spec => []KeysTellRequestsApart
<1>1. SInv => KeysTellRequestsApart
  BY RequestsToldApart DEF SInv, KeysTellRequestsApart
<1>2. QED
  BY <1>1, AlwaysSInv, PTL

(* At rest the counters of the offload manager account for every call of    *)
(* spawn(), whatever its tasks came to; the gauge of active tasks is back   *)
(* at zero unless one of them broke.                                        *)
THEOREM ServiceCountersAddUp == Spec => []CountersAddUp
<1>1. SInv => CountersAddUp
  BY TasksCounted DEF SInv, CountersAddUp
<1>2. QED
  BY <1>1, AlwaysSInv, PTL
=============================================================================
