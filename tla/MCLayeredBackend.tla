-------------------------- MODULE MCLayeredBackend --------------------------
(* Trees for LayeredBackend: pairs; a composition as the second or as the   *)
(* first layer of another; two compositions whose layers agree in their     *)
(* formats and compressors; three levels.                                   *)
EXTENDS BackendTree

Near   == Leaf("moka", "Bincode", "Passthrough")
Remote == Leaf("redis", "Json", "Gzip")
Disk   == Leaf("feoxdb", "Bincode", "Zstd")
Spare  == Leaf("spare", "Json", "Passthrough")
Refills == {"Always", "Never"}

Pairs ==
    {Node("outer", Near, l2, refill, isDyn) :
        l2 \in {Remote, Disk}, refill \in Refills, isDyn \in BOOLEAN}
Inner == {Node("inner", Remote, Disk, refill, isDyn) : refill \in Refills, isDyn \in BOOLEAN}
NestedTrees ==
    {Node("outer", Near, i, refill, isDyn) : i \in Inner, refill \in Refills, isDyn \in BOOLEAN}
    \cup
    {Node("outer", i, Near, refill, isDyn) : i \in Inner, refill \in Refills, isDyn \in BOOLEAN}
Twins ==
    {Node("outer", Node("near", Near, Remote, refill, FALSE),
        Node("far", [Near EXCEPT !.label = "moka2"], [Remote EXCEPT !.label = "redis2"],
                    "Always", isDyn), "Always", FALSE) :
        refill \in Refills, isDyn \in BOOLEAN}
Deep ==
    {Node("outer", Near, Node("middle", Remote,
        Node("inner", Spare, Disk, r3, FALSE), r2, FALSE), "Always", FALSE) :
        r2 \in Refills, r3 \in Refills}

AllTrees == Pairs \cup NestedTrees \cup Twins \cup Deep
=============================================================================
