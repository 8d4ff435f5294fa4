--------------------------- MODULE ServiceConfig ---------------------------
(***************************************************************************)
(* The configuration of a service as a program builds it, and what its     *)
(* policy makes of a response.  A policy is built by PolicyConfigBuilder   *)
(* (hitbox/src/policy.rs); the configuration by ConfigBuilder              *)
(* (hitbox/src/config.rs), which the compiler does not let build() before  *)
(* every part is set, or by EndpointBuilder (hitbox-configuration), which  *)
(* fills in what an empty configuration file stands for.  Setters may be   *)
(* called in any order and more than once.                                 *)
(***************************************************************************)
EXTENDS CacheValue, FiniteSets, Sequences, SequencesExt

CONSTANTS
    Parts,        \* the predicates and extractors of a program
    Default,      \* those of ConfigEndpoint::default()
    NotSet,
    Disabled,     \* PolicyConfig::Disabled
    Durations,    \* times to live and stale times
    Policies,     \* StalePolicy values but for the default, "Return"
    Limits,       \* ConcurrencyLimit values
    MAX_CALLS, MAX_TIME    \* bounds on the setters called and on the clock

Builders == {"Config", "Endpoint"}
Names    == {"request_predicate", "response_predicate", "extractor"}

(* What an instance has to give the constants. *)
ConstantsOK ==
    /\ Durations \subseteq Nat /\ Limits \subseteq 1..255
    /\ {Default, NotSet} \cap Parts = {}
    /\ Policies \subseteq {"Revalidate", "OffloadRevalidate"}
    /\ MAX_CALLS \in Nat /\ MAX_TIME \in Nat

VARIABLES
    builder,         \* the configuration's builder: its kind, parts and policy
    policy_builder,
    calls,           \* history: the setters called
    config,          \* what was built, or None
    value,           \* a response that was cached, or None
    stored,          \* history: when that was
    now

vars == <<builder, policy_builder, calls, config, value, stored, now>>

(* PolicyConfigBuilder::default() and EnabledCacheConfig::default(). *)
NewPolicy == [ttl |-> None, stale |-> None, stale_policy |-> "Return",
              concurrency |-> None]
DefaultPolicy == [NewPolicy EXCEPT !.ttl = 5 * SECOND]

(* new(): nothing is set, the policy is the default one. *)
New(kind) == [kind |-> kind, parts |-> [name \in Names |-> NotSet],
              policy |-> DefaultPolicy]

Init ==
    /\ \E kind \in Builders : builder = New(kind)
    /\ policy_builder = NewPolicy
    /\ calls = <<>>
    /\ config = None /\ value = None
    /\ stored = 0 /\ now = 0

-----------------------------------------------------------------------------
Call(name, to) ==
    /\ config = None /\ Len(calls) < MAX_CALLS
    /\ calls' = Append(calls, [set |-> name, to |-> to])
    /\ UNCHANGED <<config, value, stored, now>>

SetPolicyFieldAnew(field, to) ==      \* mutant: ..Self::default() for ..self
    /\ Call(field, to)
    /\ policy_builder' = [NewPolicy EXCEPT ![field] = to]
    /\ UNCHANGED builder

(* ttl(), stale(), stale_policy(), concurrency() *)
SetPolicyField(field, to) ==
    /\ Call(field, to)
    /\ policy_builder' = [policy_builder EXCEPT ![field] = to]
    /\ UNCHANGED builder

(* policy(), with the policy built so far or with PolicyConfig::disabled(); *)
(* the next PolicyConfig::builder() starts anew.                            *)
SetPolicy(policy) ==
    /\ Call("policy", policy)
    /\ builder' = [builder EXCEPT !.policy = policy]
    /\ policy_builder' = NewPolicy

(* request_predicate(), response_predicate(), extractor() *)
SetPart(name, part) ==
    /\ Call(name, part)
    /\ builder' = [builder EXCEPT !.parts[name] = part]
    /\ UNCHANGED policy_builder

BuildNoDefaults == builder.parts      \* mutant: unwrap() without the defaults

BuildDefaults ==
    [name \in Names |-> IF builder.parts[name] = NotSet THEN Default
                        ELSE builder.parts[name]]

(* build() *)
Build ==
    /\ config = None
    /\ builder.kind = "Config" => NotSet \notin Range(builder.parts)
    /\ config' = [parts |-> BuildDefaults, policy |-> builder.policy]
    /\ UNCHANGED <<builder, policy_builder, calls, value, stored, now>>

-----------------------------------------------------------------------------
(* What cache_policy() is given: both times of the policy as they are. *)
EntityPolicyConfig == [ttl |-> config.policy.ttl, stale_ttl |-> config.policy.stale]

(* A cacheable response; with caching disabled no response gets this far. *)
Store ==
    /\ config # None /\ config.policy # Disabled /\ value = None
    /\ value' = FreshValue(0, EntityPolicyConfig, now)
    /\ stored' = now
    /\ UNCHANGED <<builder, policy_builder, calls, config, now>>

Tick ==
    /\ config # None /\ now < MAX_TIME
    /\ now' = now + 1
    /\ UNCHANGED <<builder, policy_builder, calls, config, value, stored>>

Next ==
    \/ \E field \in {"ttl", "stale"}, d \in Durations : SetPolicyField(field, d)
    \/ \E p \in Policies : SetPolicyField("stale_policy", p)
    \/ \E n \in Limits : SetPolicyField("concurrency", n)
    \/ SetPolicy(policy_builder) \/ SetPolicy(Disabled)
    \/ \E name \in Names, part \in Parts : SetPart(name, part)
    \/ Build \/ Store \/ Tick

Spec == Init /\ [][Next]_vars

-----------------------------------------------------------------------------
PolicyConfigs ==
    [ttl : Durations \cup {None, 5 * SECOND}, stale : Durations \cup {None},
     stale_policy : Policies \cup {"Return"}, concurrency : Limits \cup {None}]

TypeOK ==
    /\ builder.kind \in Builders /\ builder.parts \in [Names -> Parts \cup {NotSet}]
    /\ builder.policy \in PolicyConfigs \cup {Disabled}
    /\ policy_builder \in PolicyConfigs
    /\ config # None => /\ config.parts \in [Names -> Parts \cup {Default}]
                        /\ config.policy \in PolicyConfigs \cup {Disabled}
    /\ value \in CacheValues \cup {None}
    /\ now \in 0..MAX_TIME /\ stored \in 0..now

LastOf(seq, name, otherwise) ==
    LET at == {i \in DOMAIN seq : seq[i].set = name}
    IN IF at = {} THEN otherwise ELSE seq[CHOOSE i \in at : \A j \in at : j <= i].to

(* The calls between the i-th one and the last policy() before it. *)
Since(i) ==
    LET before == {j \in 0..(i - 1) : j = 0 \/ calls[j].set = "policy"}
        from   == CHOOSE j \in before : \A k \in before : k <= j
    IN SubSeq(calls, from + 1, i - 1)

AskedPolicy(i) ==
    IF calls[i].to = Disabled THEN Disabled
    ELSE [field \in DOMAIN NewPolicy |-> LastOf(Since(i), field, NewPolicy[field])]

(* Every setter counts, in whatever order they are called, and of several   *)
(* calls of one the last (config.rs:173-211, policy.rs:107-135).            *)
EveryChoiceCounts ==
    config # None =>
        /\ \A name \in Names : config.parts[name] = LastOf(calls, name, Default)
        /\ LET at == {i \in DOMAIN calls : calls[i].set = "policy"}
           IN config.policy = IF at = {} THEN DefaultPolicy
                              ELSE AskedPolicy(CHOOSE i \in at : \A j \in at : j <= i)

Age == now - stored
Over(d) == d # None /\ Age >= d

(* A response is fresh until its stale time, then stale until its ttl, and  *)
(* expired from then on - at once, if its stale time is not before its ttl, *)
(* and never without a ttl (core/policy.rs:67-68).                          *)
StaleBeforeExpired ==
    value # None =>
        CacheState(value, now) =
            IF Over(config.policy.ttl) THEN "Expired"
            ELSE IF Over(config.policy.stale) THEN "Stale" ELSE "Actual"
=============================================================================
