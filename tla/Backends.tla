------------------------------ MODULE Backends ------------------------------
(***************************************************************************)
(* Cache backends as they are put together: the builders of the three      *)
(* stores (hitbox-moka, hitbox-redis, hitbox-feoxdb), the compositions     *)
(* made of them (hitbox-backend/src/composition) and their compressors.    *)
(* A backend under construction is the record of its settings.             *)
(***************************************************************************)
EXTENDS Integers

CONSTANTS
    None,      \* an option that is not set
    Options,   \* values of the options that are only passed on
    Levels,    \* compression levels a program asks for
    Custom     \* labels a program chooses

(* What an instance has to give the constants. *)
ConstantsOK == None \notin Options /\ Levels \subseteq Int

Types == {"Moka", "Redis", "FeOxDb"}

(* The options only one store has; the first one says where it stores. *)
Place == [Moka |-> "capacity", Redis |-> "mode", FeOxDb |-> "path"]
Own(type) == {Place[type]} \cup
    CASE type = "Moka"   -> {"eviction_policy"}
      [] type = "Redis"  -> {"connection_timeout", "response_timeout",
                             "number_of_retries", "username", "password"}
      [] type = "FeOxDb" -> {"max_file_size", "max_memory"}
Settings(type) == {"key_format", "value_format", "compressor", "label"} \cup Own(type)

Passthrough == <<"Passthrough", 0>>
Gzip(level) == <<"Gzip", IF level > 9 THEN 9 ELSE level>>
Zstd(level) == <<"Zstd", CASE level < -7 -> -7 [] level > 22 -> 22 [] OTHER -> level>>

(* builder(): the settings of a store before any is chosen. *)
DefaultOf(type, name) ==
    CASE name = "key_format"   -> "Bitcode"
      [] name = "value_format" -> IF type = "Redis" THEN "Bincode" ELSE "Json"
      [] name = "compressor"   -> Passthrough
      [] name = "label"        -> [Moka |-> "moka", Redis |-> "redis", FeOxDb |-> "feoxdb"][type]
      [] OTHER                 -> None
NewBuilder(type) ==
    [name \in Settings(type) \cup {"type"} |->
        IF name = "type" THEN type ELSE DefaultOf(type, name)]

(* The setters of a builder.  value_format and compressor change its type: *)
(* they move every field into a new builder.                               *)
Set(b, name, v) == [b EXCEPT ![name] = v]

(* A Moka builder has no build() before its capacity is chosen, a Redis one *)
(* fails without a connection mode, FeOxDB then stores in memory.           *)
Buildable(b) == b.type = "Moka" => b.capacity # None
Build(b) == IF b.type = "Redis" /\ b.mode = None THEN None ELSE b

-----------------------------------------------------------------------------
(* CompositionPolicy::new() *)
NewPolicy == [read |-> "Sequential", write |-> "OptimisticParallel", refill |-> "Never"]

(* The labels of the two layers are computed when the label is set. *)
Label(c, label) ==
    [c EXCEPT !.label = label,
              !.l1_label = <<label, c.l1.label>>, !.l2_label = <<label, c.l2.label>>]

(* with_policy() *)
WithPolicy(c, policy) ==
    [c EXCEPT !.read = policy.read, !.write = policy.write, !.refill = policy.refill]

(* CompositionBackend::new() *)
NewComposition(l1, l2) ==
    [type |-> "Composition", l1 |-> l1, l2 |-> l2,
     read |-> NewPolicy.read, write |-> NewPolicy.write, refill |-> NewPolicy.refill,
     label |-> "composition",
     l1_label |-> <<"composition", l1.label>>, l2_label |-> <<"composition", l2.label>>]
=============================================================================
