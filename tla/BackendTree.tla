---------------------------- MODULE BackendTree ----------------------------
(***************************************************************************)
(* A backend is a tree.  A leaf is a store, with the format and the        *)
(* compressor of its values.  A node is a CompositionBackend of two        *)
(* layers, held by its own type or (dyn) as a trait object.                *)
(***************************************************************************)
EXTENDS Sequences

Leaf(label, format, compressor) ==
    [label |-> label, format |-> format, compressor |-> compressor]

Node(label, l1, l2, refill, isDyn) ==
    [label |-> label, l1 |-> l1, l2 |-> l2, refill |-> refill, dyn |-> isDyn]

IsLeaf(t)   == "format" \in DOMAIN t
IsStatic(t) == ~IsLeaf(t) /\ ~t.dyn     \* has methods of its own for get and set
Layers      == {"l1", "l2"}

RECURSIVE Leaves(_)
Leaves(t) == IF IsLeaf(t) THEN <<t>> ELSE Leaves(t.l1) \o Leaves(t.l2)

Labels(t) == {Leaves(t)[i].label : i \in DOMAIN Leaves(t)}
=============================================================================
