---------------------------- MODULE BackendConfig ----------------------------
(***************************************************************************)
(* A backend described in a configuration file (hitbox-configuration/src/  *)
(* backend): the file is read, with what it leaves out filled in, and then *)
(* turned into stores and compositions, as far as the features the program *)
(* was compiled with allow.                                                *)
(***************************************************************************)
EXTENDS Backends, Sequences

CONSTANT Files    \* the files, as trees; what they leave out is None

Features == {"moka", "redis", "feoxdb", "gzip", "zstd", "rkyv_format"}

VARIABLES
    file,
    features,    \* those the program was compiled with
    opens,       \* whether FeOxDB can open its files
    config,      \* the file as read, or None
    result       \* None, an error, or what was built

vars == <<file, features, opens, config, result>>

IsError(r)   == r.type = "Error"
Failed(what) == [type |-> "Error", what |-> what]
Orelse(v, default) == IF v = None THEN default ELSE v

Init ==
    /\ file \in Files
    /\ features \in SUBSET Features
    /\ opens \in BOOLEAN
    /\ config = None /\ result = None

-----------------------------------------------------------------------------
(* Deserialization: a format that was compiled out is no variant of         *)
(* ValueSerialization, and the whole file is refused.                       *)
RECURSIVE Readable(_)
Readable(f) ==
    IF f.type = "Composition" THEN Readable(f.l1) /\ Readable(f.l2)
    ELSE f.format = "Rkyv" => "rkyv_format" \in features

(* Compression, with the levels a file may leave out. *)
ReadCompression(c) ==
    CASE c = None       -> Passthrough
      [] c[1] = "Gzip"  -> <<"Gzip", Orelse(c[2], 6)>>
      [] c[1] = "Zstd"  -> <<"Zstd", Orelse(c[2], 3)>>

(* CompositionPolicyConfig *)
ReadPolicy(p) ==
    [read   |-> Orelse(p.read, "Sequential"),
     write  |-> Orelse(p.write, "OptimisticParallel"),
     refill |-> Orelse(p.refill, "Never")]

RECURSIVE Read(_)
Read(f) ==
    IF f.type = "Composition"
    THEN [f EXCEPT !.l1 = Read(f.l1), !.l2 = Read(f.l2), !.policy = ReadPolicy(f.policy)]
    ELSE [f EXCEPT !.compression = ReadCompression(f.compression)]

Deserialize ==
    /\ config = None /\ result = None
    /\ IF Readable(file) THEN config' = Read(file) /\ UNCHANGED result
                         ELSE result' = Failed("Yaml") /\ UNCHANGED config
    /\ UNCHANGED <<file, features, opens>>

-----------------------------------------------------------------------------
(* to_compressor() *)
Available(c) ==
    CASE c[1] = "Gzip" -> "gzip" \in features
      [] c[1] = "Zstd" -> "zstd" \in features
      [] OTHER         -> TRUE
Compressor(c) ==
    CASE c[1] = "Gzip" -> Gzip(c[2])
      [] c[1] = "Zstd" -> Zstd(c[2])
      [] OTHER         -> Passthrough

FeatureOf == [Moka |-> "moka", Redis |-> "redis", FeOxDb |-> "feoxdb"]

(* BackendConfig<T>::into_backend(): the setters of the store's builder, the *)
(* label only if there is one, then build().                                 *)
Configured(c) ==
    [NewBuilder(c.type) EXCEPT
        !.key_format = c.key, !.value_format = c.format,
        !.compressor = Compressor(c.compression),
        !.label = Orelse(c.label, @), ![Place[c.type]] = c.place]
Store(c) ==
    CASE FeatureOf[c.type] \notin features                -> Failed(FeatureOf[c.type])
      [] /\ FeatureOf[c.type] \in features
         /\ ~Available(c.compression)                     -> Failed(c.compression[1])
      [] /\ FeatureOf[c.type] \in features
         /\ Available(c.compression)
         /\ c.type = "FeOxDb" /\ c.place # None /\ ~opens -> Failed("open")
      [] OTHER -> Configured(c)

(* The nine branches of read and write policies, and the refill policy. *)
Policy(p) == p

Composition(c, l1, l2) ==
    LET made == WithPolicy(NewComposition(l1, l2), Policy(c.policy))
    IN  IF c.label = None THEN made ELSE Label(made, c.label)

RECURSIVE IntoBackendAnyway(_)
IntoBackendAnyway(c) ==    \* mutant: goes on with the layer that could be built
    IF c.type # "Composition" THEN Store(c)
    ELSE LET l1 == IntoBackendAnyway(c.l1)  l2 == IntoBackendAnyway(c.l2)
         IN  CASE IsError(l1) -> l2
               [] ~IsError(l1) /\ IsError(l2) -> l1
               [] OTHER -> Composition(c, l1, l2)

(* Backend::into_backend() *)
RECURSIVE IntoBackend(_)
IntoBackend(c) ==
    IF c.type # "Composition" THEN Store(c)
    ELSE LET l1 == IntoBackend(c.l1)  l2 == IntoBackend(c.l2)
         IN  CASE IsError(l1) -> l1
               [] ~IsError(l1) /\ IsError(l2) -> l2
               [] OTHER -> Composition(c, l1, l2)

Make ==
    /\ config # None /\ result = None
    /\ result' = IntoBackend(config)
    /\ UNCHANGED <<file, features, opens, config>>

Next == Deserialize \/ Make

Spec == Init /\ [][Next]_vars

-----------------------------------------------------------------------------
(* The subtrees of a file with the paths that lead to them. *)
RECURSIVE Nodes(_)
Nodes(t) ==
    {<<>>} \cup
    (IF t.type # "Composition" THEN {}
     ELSE {<<"l1">> \o path : path \in Nodes(t.l1)} \cup {<<"l2">> \o path : path \in Nodes(t.l2)})
RECURSIVE At(_, _)
At(t, path) == IF path = <<>> THEN t ELSE At(t[Head(path)], Tail(path))

Leaves(t) == {path \in Nodes(t) : At(t, path).type # "Composition"}

(* What a node of a file needs. *)
Needs(f) ==
    {FeatureOf[f.type]}
    \cup (IF f.format = "Rkyv" THEN {"rkyv_format"} ELSE {})
    \cup (IF f.compression = None THEN {} ELSE {[Gzip |-> "gzip", Zstd |-> "zstd"][f.compression[1]]})

Built == result # None /\ ~IsError(result)

(* A file that is read leaves nothing out, and what is built of it is made *)
(* of stores and compositions that exist, with levels in their ranges.     *)
TypeOK ==
    /\ config # None => \A path \in Leaves(config) : At(config, path).compression # None
    /\ Built => \A path \in Leaves(result) :
          LET s == At(result, path)
          IN  /\ s.type \in Types
              /\ s.compressor \in {Passthrough} \cup {<<"Gzip", n>> : n \in 0..9}
                                  \cup {<<"Zstd", n>> : n \in -7..22}

(* What is built has the shape of the file, and at every place of it the   *)
(* settings that place of the file chooses; where it chooses none, the     *)
(* defaults the documentation gives, whichever way there is to leave it    *)
(* out.                                                                    *)
AsConfigured ==
    Built =>
        /\ Nodes(result) = Nodes(file)
        /\ \A path \in Nodes(file) :
              LET f == At(file, path)
                  b == At(result, path)
              IN  /\ b.type = f.type
                  /\ f.label # None => b.label = f.label
                  /\ IF f.type = "Composition"
                     THEN /\ b.read = Orelse(f.policy.read, "Sequential")
                          /\ b.write = Orelse(f.policy.write, "OptimisticParallel")
                          /\ b.refill = Orelse(f.policy.refill, "Never")
                          /\ f.label = None => b.label = "composition"
                          /\ b.l1_label = <<b.label, b.l1.label>>
                          /\ b.l2_label = <<b.label, b.l2.label>>
                     ELSE /\ b.key_format = f.key /\ b.value_format = f.format
                          /\ b[Place[f.type]] = f.place
                          /\ f.compression = None <=> b.compressor = Passthrough
                          /\ f.label = None => b.label = DefaultOf(f.type, "label")

(* A backend is built if and only if everything its file needs, at any     *)
(* depth, was compiled in and can be opened: no part is left out, and no   *)
(* missing part goes unnoticed until requests come.                        *)
AllOrNothing ==
    result # None =>
        (Built <=> \A path \in Leaves(file) :
                      LET f == At(file, path)
                      IN  /\ Needs(f) \subseteq features
                          /\ f.type = "FeOxDb" /\ f.place # None => opens)
=============================================================================
