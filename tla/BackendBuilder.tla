--------------------------- MODULE BackendBuilder ---------------------------
(***************************************************************************)
(* A program that builds a composition: the builder of its first layer,    *)
(* the policies, Compose::compose or Compose::compose_with, and then the   *)
(* setters of the composition, in any order and any number of times.       *)
(***************************************************************************)
EXTENDS Backends, Sequences

CONSTANT MAX_CALLS    \* bound on the setters called

(* What settings, layers and compositions are made of. *)
Words == {"Bitcode", "UrlEncoded", "Json", "Bincode", "moka", "redis", "feoxdb", "composition"}
Values == Types \cup Words \cup Custom \cup Options \cup {None}
          \cup ({"Passthrough", "Gzip", "Zstd"} \X Int)
Layers(type) == [Settings(type) \cup {"type"} -> Values]
Compositions(type) ==
    [type : {"Composition"}, l1 : Layers(type), l2 : Layers("Redis"),
     read : {"Sequential", "Race", "Parallel"}, refill : {"Always", "Never"},
     write : {"Sequential", "OptimisticParallel", "Race"},
     label : Values, l1_label : Values \X Values, l2_label : Values \X Values]

(* What an instance has to give the constants. *)
BuilderOK ==
    /\ ConstantsOK /\ Options # {}
    /\ \A type \in Types : None \notin Compositions(type) /\ None \notin Layers(type)

VARIABLES
    builder,    \* the builder of the first layer
    policy,     \* the CompositionPolicy to compose with
    l1,         \* the layer built, or None
    backend,    \* the composition, or None
    failed,     \* build() returned an error
    calls       \* history: the setters called, as <<of what, which, value>>

vars == <<builder, policy, l1, backend, failed, calls>>

Choices(name) ==
    CASE name = "key_format"   -> {"Bitcode", "UrlEncoded"}
      [] name = "value_format" -> {"Json", "Bincode"}
      [] name = "compressor"   -> {Gzip(n) : n \in Levels \cap Nat} \cup {Zstd(n) : n \in Levels}
      [] name = "label"        -> Custom
      [] name = "read"         -> {"Sequential", "Race", "Parallel"}
      [] name = "write"        -> {"Sequential", "OptimisticParallel", "Race"}
      [] name = "refill"       -> {"Always", "Never"}
      [] OTHER                 -> Options

Init ==
    /\ \E type \in Types : builder = NewBuilder(type)
    /\ policy = NewPolicy
    /\ l1 = None /\ backend = None /\ failed = FALSE
    /\ calls = <<>>

Called(of, name, v) ==
    /\ Len(calls) < MAX_CALLS /\ ~failed
    /\ calls' = Append(calls, <<of, name, v>>)

(* key_format(), value_format(), compressor(), label() and the options; a   *)
(* Moka builder with a capacity has no setter for it any more.              *)
SetOption ==
    /\ l1 = None
    /\ \E name \in Settings(builder.type) : \E v \in Choices(name) :
          /\ name = "capacity" => builder.capacity = None
          /\ Called("builder", name, v)
          /\ builder' = Set(builder, name, v)
    /\ UNCHANGED <<policy, l1, backend, failed>>

(* build() *)
BuildLayer ==
    /\ l1 = None /\ ~failed /\ Buildable(builder)
    /\ l1' = Build(builder)
    /\ failed' = (Build(builder) = None)
    /\ UNCHANGED <<builder, policy, backend, calls>>

(* CompositionPolicy::{read, write, refill} *)
SetPolicy ==
    /\ backend = None
    /\ \E name \in DOMAIN policy : \E v \in Choices(name) :
          /\ Called("policy", name, v)
          /\ policy' = [policy EXCEPT ![name] = v]
    /\ UNCHANGED <<builder, l1, backend, failed>>

(* The second layer is a Redis store with the default settings. *)
L2 == Set(NewBuilder("Redis"), "mode", CHOOSE v \in Options : TRUE)

(* l1.compose(l2, offload) *)
Compose ==
    /\ l1 # None /\ backend = None
    /\ backend' = NewComposition(l1, L2)
    /\ UNCHANGED <<builder, policy, l1, failed, calls>>

(* l1.compose_with(l2, offload, policy) *)
ComposeWith ==
    /\ l1 # None /\ backend = None
    /\ Called("composition", "policy", policy)
    /\ backend' = WithPolicy(NewComposition(l1, L2), policy)
    /\ UNCHANGED <<builder, policy, l1, failed>>

(* CompositionBackend::{read, write, refill} *)
SetOne ==
    /\ backend # None
    /\ \E name \in DOMAIN policy : \E v \in Choices(name) :
          /\ Called("composition", name, v)
          /\ backend' = [backend EXCEPT ![name] = v]
    /\ UNCHANGED <<builder, policy, l1, failed>>

(* CompositionBackend::label *)
SetLabel ==
    /\ backend # None
    /\ \E label \in Custom :
          /\ Called("composition", "label", label)
          /\ backend' = Label(backend, label)
    /\ UNCHANGED <<builder, policy, l1, failed>>

(* CompositionBackend::with_policy *)
SetAll ==
    /\ backend # None
    /\ Called("composition", "policy", policy)
    /\ backend' = WithPolicy(backend, policy)
    /\ UNCHANGED <<builder, policy, l1, failed>>

Next ==
    \/ SetOption \/ BuildLayer \/ SetPolicy \/ Compose \/ ComposeWith
    \/ SetOne \/ SetLabel \/ SetAll

Spec == Init /\ [][Next]_vars

-----------------------------------------------------------------------------
(* What a builder, a policy and a composition may hold: formats,           *)
(* compressors within the levels of their libraries, policies that exist.  *)
TypeOK ==
    /\ builder.type \in Types
    /\ builder.key_format \in Choices("key_format")
    /\ builder.value_format \in Choices("value_format")
    /\ builder.compressor \in {Passthrough} \cup {<<"Gzip", n>> : n \in 0..9}
                              \cup {<<"Zstd", n>> : n \in -7..22}
    /\ \A name \in DOMAIN policy : policy[name] \in Choices(name)
    /\ l1 \in {None, builder}
    /\ backend # None => \A name \in DOMAIN policy : backend[name] \in Choices(name)

(* The value of the last call that set name of what, or default. *)
Chosen(what, name, default) ==
    LET Sets == {i \in DOMAIN calls :
                    /\ calls[i][1] = what
                    /\ \/ calls[i][2] = name
                       \/ calls[i][2] = "policy" /\ name \in DOMAIN policy}
        last == CHOOSE i \in Sets : \A j \in Sets : j <= i
    IN  IF Sets = {} THEN default
        ELSE IF calls[last][2] = name THEN calls[last][3] ELSE calls[last][3][name]

(* Whatever the order in which the setters are called, and whichever of    *)
(* them move everything into a new builder (value_format, compressor,      *)
(* read, write, with_policy), what a program chose last is what the built  *)
(* backend has, and what it did not choose has its default.                *)
EveryChoiceCounts ==
    backend # None =>
        /\ \A name \in Settings(backend.l1.type) :
              backend.l1[name] = Chosen("builder", name, DefaultOf(backend.l1.type, name))
        /\ \A name \in DOMAIN policy :
              backend[name] = Chosen("composition", name, NewPolicy[name])
        /\ backend.label = Chosen("composition", "label", "composition")

(* The labels of the layers that reads, metrics and cached formats use are *)
(* computed ahead: they never lag behind the labels they are made of.      *)
LabelsFollow ==
    backend # None =>
        /\ backend.l1_label = <<backend.label, backend.l1.label>>
        /\ backend.l2_label = <<backend.label, backend.l2.label>>
=============================================================================
