--------------------------- MODULE LayeredBackend ---------------------------
(***************************************************************************)
(* Compositions of compositions (hitbox-backend/src/composition and        *)
(* src/backend.rs): which bytes reach which store, what a get makes of     *)
(* them, which layers a refill writes, and what the source of a response   *)
(* is called.                                                              *)
(*                                                                         *)
(* A backend is a tree (BackendTree).  A value is put into a leaf as bytes, *)
(* in the format of that leaf and, on the way through an inner composition, *)
(* in an envelope.                                                         *)
(*                                                                         *)
(* One operation runs at a time, no layer fails, and reads are sequential: *)
(* policies, failures and interleavings are in the module Composition.     *)
(***************************************************************************)
EXTENDS BackendTree, Integers, FiniteSets

CONSTANTS
    Trees,       \* the backends to consider, see Leaf and Node
    Values,
    None

(* What an instance has to give the constants. *)
ConstantsOK ==
    \A t \in Trees : Cardinality(Labels(t)) = Len(Leaves(t))     \* one store per leaf

VARIABLES
    tree,
    store,    \* leaf label -> its entry: bytes, and whether they expire
    last,     \* the value that was set last, None after a delete (history)
    reply     \* what the last operation returned (history)

vars == <<tree, store, last, reply>>

-----------------------------------------------------------------------------
(* Formats and compressors.  Decoding fails on bytes of another format or   *)
(* compressor.                                                              *)
Failed == "Failed"

FormatTypeId(t) == IF IsLeaf(t) THEN t.format ELSE "composition"
Compressor(t)   == IF IsLeaf(t) THEN t.compressor ELSE "Passthrough"

SameFormatAlways(t) == TRUE                         \* mutant of SameFormat

SameFormat(t) == FormatTypeId(t.l1) = FormatTypeId(t.l2)

Compress(t, bytes) ==
    IF Compressor(t) = "Passthrough" THEN bytes
    ELSE [compressed |-> bytes, by |-> Compressor(t)]

Compressed(t, l, bytes) == Compress(t[l], bytes)

Decompress(t, bytes) ==
    IF Compressor(t) = "Passthrough" THEN bytes
    ELSE IF "by" \in DOMAIN bytes /\ bytes.by = Compressor(t) THEN bytes.compressed
    ELSE [text |-> None, in |-> Failed]

Envelope(kind, l1, l2, timed) == [of |-> kind, l1 |-> l1, l2 |-> l2, timed |-> timed]
IsEnvelope(bytes) == "of" \in DOMAIN bytes

(* The bytes of a value for a backend.  A composition serializes for both   *)
(* of its layers, once if they have the same format, and puts no times into *)
(* the envelope.                                                            *)
RECURSIVE Encode(_, _)
LayerBytes(t, l, value) ==
    Compressed(t, l, IF l = "l2" /\ ~SameFormat(t) THEN Encode(t.l2, value)
                     ELSE Encode(t.l1, value))
Encode(t, value) ==
    IF IsLeaf(t) THEN [text |-> value, in |-> t.format]
    ELSE Envelope("Both", LayerBytes(t, "l1", value), LayerBytes(t, "l2", value), FALSE)

EnvelopeLayer(t, bytes) == IF bytes.of = "L2" THEN "l2" ELSE "l1"

(* The value in some bytes, and through which layer of which composition    *)
(* they came, which an envelope tells (CompositionContext): the outermost   *)
(* of nested ones.                                                          *)
NotDecoded == [value |-> Failed, layer |-> None, path |-> <<>>]

RECURSIVE Decode(_, _)
Decode(t, bytes) ==
    IF IsLeaf(t)
    THEN IF "in" \in DOMAIN bytes /\ bytes.in = t.format
         THEN [value |-> bytes.text, layer |-> None, path |-> <<>>]
         ELSE NotDecoded
    ELSE IF ~IsEnvelope(bytes) THEN NotDecoded
    ELSE LET l == EnvelopeLayer(t, bytes)
             inner == Decode(t[l], Decompress(t[l], bytes[l]))
         IN  IF inner.value = Failed THEN inner
             ELSE [value |-> inner.value, layer |-> l, path |-> <<t.label, t[l].label>>]

-----------------------------------------------------------------------------
(* Backend::read and Backend::write. *)
Entry(bytes, timed) == [bytes |-> bytes, timed |-> timed]

RECURSIVE Read(_, _)
Read(t, st) ==
    IF IsLeaf(t) THEN st[t.label]
    ELSE LET found == [l \in Layers |-> Read(t[l], st)] IN
         IF found["l1"] # None
         THEN Entry(Envelope("L1", found["l1"].bytes, None, found["l1"].timed), found["l1"].timed)
         ELSE IF found["l2"] # None
         THEN Entry(Envelope("L2", None, found["l2"].bytes, found["l2"].timed), found["l2"].timed)
         ELSE None

RECURSIVE Write(_, _, _)
Write(t, entry, st) ==
    IF IsLeaf(t) THEN [st EXCEPT ![t.label] = entry]
    ELSE IF ~IsEnvelope(entry.bytes) THEN st                         \* an error
    ELSE LET env == entry.bytes
             st1 == IF env.of \in {"Both", "L1"} THEN Write(t.l1, Entry(env.l1, env.timed), st) ELSE st
         IN  IF env.of \in {"Both", "L2"} THEN Write(t.l2, Entry(env.l2, env.timed), st1) ELSE st1

Reached(t, st) == {i \in DOMAIN Leaves(t) : st[Leaves(t)[i].label] # None}

RECURSIVE Remove(_, _)
Remove(t, st) ==
    IF IsLeaf(t) THEN [st EXCEPT ![t.label] = None]
    ELSE Remove(t.l2, Remove(t.l1, st))

RECURSIVE Deleted(_, _)
Deleted(t, st) ==                                   \* 0 is DeleteStatus::Missing
    IF IsLeaf(t) THEN IF st[t.label] = None THEN 0 ELSE 1
    ELSE Deleted(t.l1, st) + Deleted(t.l2, st)

-----------------------------------------------------------------------------
(* CacheBackend::get: the value, whether it expires, the read mode that is  *)
(* left in the context, and the source.                                     *)
Answer(value, timed, mode, source) ==
    [value |-> value, timed |-> timed, mode |-> mode, source |-> source]
Nothing == Answer(None, FALSE, "Direct", <<>>)

GetLayer(t, l, st) ==
    LET entry == Read(t[l], st) IN
    IF entry = None THEN Nothing
    ELSE LET d == Decode(t[l], Decompress(t[l], entry.bytes)) IN
         Answer(d.value, entry.timed, "Direct",
                IF d.layer = None THEN <<t[l].label>> ELSE d.path)

ModeOf(t, l) == IF l = "l2" /\ t.refill = "Always" THEN "Refill" ELSE "Direct"

From(t, l, answer) == [answer EXCEPT !.mode = ModeOf(t, l), !.source = <<t.label>> \o @]

StaticGet(t, st) ==
    LET l1 == GetLayer(t, "l1", st)
        l2 == GetLayer(t, "l2", st)
    IN  CASE l1.value \notin {None, Failed} -> From(t, "l1", l1)
          [] l2.value \notin {None, Failed} -> From(t, "l2", l2)
          [] OTHER                          -> [Nothing EXCEPT !.value = l2.value]

(* The default methods, of leaves and of trait objects. *)
DefaultGet(t, st) ==
    LET entry == Read(t, st) IN
    IF entry = None THEN Nothing
    ELSE LET d == Decode(t, Decompress(t, entry.bytes)) IN
         Answer(d.value, entry.timed, IF d.layer = "l2" THEN "Refill" ELSE "Direct", <<t.label>>)

Get(t, st) == IF IsStatic(t) THEN StaticGet(t, st) ELSE DefaultGet(t, st)

(* CacheBackend::set. *)
DefaultSet(t, value, timed, mode, st) ==
    IF mode = "Refill" THEN st
    ELSE Write(t, Entry(Compress(t, Encode(t, value)), timed), st)

RECURSIVE RefillTopOnly(_, _, _, _)                 \* mutant of Refill
RefillTopOnly(t, value, timed, st) ==
    IF ~IsStatic(t) \/ t.refill = "Never" THEN st
    ELSE Write(t.l1, Entry(LayerBytes(t, "l1", value), timed), st)

(* In refill mode L1 is written, and then L2 is given the same call. *)
RECURSIVE Refill(_, _, _, _)
Refill(t, value, timed, st) ==
    IF ~IsStatic(t) \/ t.refill = "Never" THEN st
    ELSE Refill(t.l2, value, timed, Write(t.l1, Entry(LayerBytes(t, "l1", value), timed), st))

Set(t, value, timed, mode, st) ==
    CASE ~IsStatic(t)      -> DefaultSet(t, value, timed, mode, st)
      [] mode = "Refill"   -> Refill(t, value, timed, st)
      [] OTHER -> Write(t.l2, Entry(LayerBytes(t, "l2", value), timed),
                        Write(t.l1, Entry(LayerBytes(t, "l1", value), timed), st))

-----------------------------------------------------------------------------
Reply(op, answer, count) == [op |-> op, answer |-> answer, count |-> count]

Init ==
    /\ tree \in Trees
    /\ store = [label \in Labels(tree) |-> None]
    /\ last = None
    /\ reply = Reply("none", Nothing, 0)

(* A miss ends with a set of the fresh response, which has a time to live. *)
SetValue(value) ==
    /\ store' = Set(tree, value, TRUE, "Direct", store)
    /\ last' = value
    /\ reply' = Reply("set", Nothing, 0)
    /\ UNCHANGED tree

(* After a hit CacheFuture puts the value back if the context says so. *)
GetValue ==
    LET found == Get(tree, store) IN
    /\ store' = IF found.mode = "Refill"
                THEN Set(tree, found.value, found.timed, "Refill", store)
                ELSE store
    /\ reply' = Reply("get", found, 0)
    /\ UNCHANGED <<tree, last>>

Delete ==
    /\ store' = Remove(tree, store)
    /\ last' = None
    /\ reply' = Reply("delete", Nothing, Deleted(tree, store))
    /\ UNCHANGED tree

(* A store drops an entry: it is full, or its server was restarted. *)
Evict(label) ==
    /\ store[label] # None
    /\ store' = [store EXCEPT ![label] = None]
    /\ reply' = Reply("evict", Nothing, 0)
    /\ UNCHANGED <<tree, last>>

Next ==
    \/ \E value \in Values : SetValue(value)
    \/ GetValue
    \/ Delete
    \/ \E label \in Labels(tree) : Evict(label)

Spec == Init /\ [][Next]_vars

-----------------------------------------------------------------------------
TypeOK ==
    /\ tree \in Trees
    /\ DOMAIN store = Labels(tree)
    /\ last \in Values \cup {None}
    /\ reply.answer.value \in Values \cup {None, Failed}
    /\ reply.count \in 0..Cardinality(Labels(tree))

(* What is set can be read back from every layer it was written to, through *)
(* whatever formats, compressors and envelopes it went: as long as one leaf *)
(* holds something, a get answers the value that was set last, and a get    *)
(* without a leaf that holds anything is a miss.                            *)
FoundWhileHeld ==
    Get(tree, store).value = IF Reached(tree, store) = {} THEN None ELSE last

(* The leaf a sequential read comes to first, and the labels on the way. *)
FirstHolding(t, st) ==
    Leaves(t)[CHOOSE i \in Reached(t, st) : \A j \in Reached(t, st) : i <= j].label

RECURSIVE PathTo(_, _)
PathTo(t, label) ==
    IF IsLeaf(t) THEN <<t.label>>
    ELSE <<t.label>> \o PathTo(IF label \in Labels(t.l1) THEN t.l1 ELSE t.l2, label)

(* The source of a hit leads to the leaf the value comes from. *)
SourceNamesTheLeaf ==
    LET found == Get(tree, store) IN
    found.value \in Values => found.source = PathTo(tree, FirstHolding(tree, store))

(* It does so for a composition that is held by its own type, whose layers  *)
(* are stores or compositions of stores.                                    *)
ShallowSourceNamesTheLeaf ==
    (IsStatic(tree) /\ \A label \in Labels(tree) : Len(PathTo(tree, label)) <= 3)
        => SourceNamesTheLeaf

(* The compositions a refill has to reach: the whole tree, and the second   *)
(* layers below it, as far as they all refill and are held by their type.   *)
RECURSIVE Chain(_)
Chain(t) == IF ~IsStatic(t) \/ t.refill = "Never" THEN {} ELSE {t} \cup Chain(t.l2)

HitIn(t) == store # [label \in Labels(tree) |-> None] /\ FirstHolding(tree, store) \in Labels(t)

RefillsAfterHit(nodes) ==
    reply'.op = "get" => \A n \in nodes : HitIn(n.l2) => Read(n.l1, store') # None

(* After a hit below the second layers of a chain of compositions, the      *)
(* first layer of each of them holds the value.                             *)
RefillsCascade == RefillsAfterHit(Chain(tree))
RefillCascades == [][RefillsCascade]_vars

(* A delete empties every leaf and reports how many of them had an entry.   *)
DeleteEmpties ==
    reply'.op = "delete" =>
        /\ reply'.count = Cardinality(Reached(tree, store))
        /\ Reached(tree', store') = {}
DeleteReachesEveryLeaf == [][DeleteEmpties]_vars

(* No refill writes a value where another one was set, or one that was      *)
(* deleted: a get leaves every leaf as it is or brings it to what a set of  *)
(* the last value leaves there, times aside.                                *)
GetRestores ==
    reply'.op = "get" =>
        \A label \in Labels(tree) :
            \/ store'[label] = store[label]
            \/ store'[label].bytes = Set(tree, last, TRUE, "Direct", store)[label].bytes
GetOnlyRestores == [][GetRestores]_vars
=============================================================================
