--------------------------- MODULE MCBackendConfig ---------------------------
(* Files for BackendConfig: every single store, pairs of stores under every *)
(* policy, and compositions of compositions.                               *)
EXTENDS Naturals

CONSTANTS None, place, mine

Types == {"Moka", "Redis", "FeOxDb"}

Compressions == {None} \cup {<<kind, level>> : kind \in {"Gzip", "Zstd"}, level \in {None, 0, 30}}

Leaf(types, keys, formats, compressions, labels, places) ==
    {s \in [type : types, key : keys, format : formats, compression : compressions,
            label : labels, place : places] : s.place = None => s.type = "FeOxDb"}

Stores == Leaf(Types, {"Bitcode", "UrlEncoded"}, {"Json", "Bincode", "Rkyv"}, Compressions,
               {None, mine}, {None, place})
Few == Leaf({"Moka", "FeOxDb"}, {"Bitcode"}, {"Json"}, {None, <<"Zstd", 0>>}, {mine}, {place})
       \cup Leaf({"Redis"}, {"UrlEncoded"}, {"Rkyv"}, {None}, {None}, {place})

PolicyConfigs ==
    [read : {None, "Sequential", "Race", "Parallel"},
     write : {None, "Sequential", "OptimisticParallel", "Race"},
     refill : {None, "Always", "Never"}]
Compositions(first, second, policies, labels) ==
    [type : {"Composition"}, l1 : first, l2 : second, policy : policies, label : labels]

Some == {p \in PolicyConfigs : p.write = "Race" /\ p.refill # "Never"}
One  == {CHOOSE s \in Few : s.type = "Moka"}
Pairs == Compositions(One, Few, PolicyConfigs, {None, mine})
Inner == Compositions(One, Few, Some, {mine})

SomeFiles == Stores \cup Pairs \cup Compositions(Inner, One, Some, {None})
               \cup Compositions(One, Inner, Some, {None})
=============================================================================
