-------------------------- MODULE MCKeyExtraction --------------------------
(* Configurations of extractors and requests for KeyExtraction. *)
EXTENDS SequencesExt

CONSTANTS None, Bad, Broken, Nested

Names    == <<"_version", "body", "filter", "id", "method", "path", "q", "qq", "version", "x-a", "x-b">>
PrefixPairs == {<<"q", "q">>, <<"qq", "q">>, <<"qq", "qq">>, <<"x-a", "x-">>, <<"x-b", "x-">>}
Lower    == [n \in ToSet(Names) \cup {"x-", "X-", "X-A"} |->
                CASE n = "X-" -> "x-" [] n = "X-A" -> "x-a" [] OTHER -> n]

Texts      == {"", "one", "ONE", "two", "opaque"}
Hashed     == [t \in Texts \cup {"a", "b"} |-> CASE t = "" -> "h0" [] t = "one" -> "h1" [] t = "ONE" -> "h2"
                  [] t = "two" -> "h3" [] t = "a" -> "h4" [] t = "b" -> "h5" [] OTHER -> "h6"]
Transforms == [hash      |-> Hashed,
               lowercase |-> [t \in Texts |-> IF t = "ONE" THEN "one" ELSE t],
               uppercase |-> [t \in Texts |-> IF t = "one" THEN "ONE" ELSE t]]

Full     == [t \in Texts |-> t]
OneOrTwo == [t \in {"one", "two"} |-> t]   \* a regular expression

Header(name, select, value, transforms) ==
    [on |-> "Header", name |-> name, select |-> select, value |-> value, transforms |-> transforms]
Query(name, select, value) ==
    [on |-> "Query", name |-> name, select |-> select, value |-> value, transforms |-> <<>>]

(* Bodies and what filters and expressions make of them. *)
Scalar(text) == [type |-> "Scalar", text |-> text]
Object(id)   == [type |-> "Object", fields |-> <<<<"id", id>>>>]
Array(items) == [type |-> "Array", items |-> items]
Jq(filter)   == [on |-> "Body", form |-> "Jq", filter |-> filter]
Regex(matches, key, global, transforms) ==
    [on |-> "Body", form |-> "Regex", matches |-> matches, key |-> key, global |-> global,
     transforms |-> transforms]
NoTransforms == [kind |-> "None"]

Bodies == {
    [on |-> "Body", form |-> "Hash"],
    Jq([b \in {"a", "b"} |-> <<Object(IF b = "a" THEN "one" ELSE None), Scalar("one")>>]),
    Jq([b \in {"a", "b"} |-> <<Array(IF b = "a" THEN <<Scalar("one"), Object("two")>> ELSE <<>>)>>]),
    Jq(Bad), Regex(Bad, None, FALSE, NoTransforms),
    Regex([b \in {"a"} |-> <<<<<<"id", "one">>>>, <<<<"id", "two">>>>>>], None, TRUE,
          [kind |-> "PerKey", chains |-> [id |-> <<"uppercase">>]]),
    Regex([b \in {"a", "b"} |-> <<<<<<None, IF b = "a" THEN "ONE" ELSE "one">>>>, <<<<None, "two">>>>>>],
          "q", FALSE, [kind |-> "FullBody", chain |-> <<"lowercase", "hash">>])}

Headers == {
    Header("x-a", "Exact", Full, <<>>), Header("X-A", "Exact", Full, <<"lowercase">>),
    Header("x-b", "Exact", OneOrTwo, <<>>), Header("x-a", "Exact", Bad, <<>>),
    Header("x-", "Starts", Full, <<>>), Header("X-", "Starts", Full, <<>>)}

Queries == {
    Query("q", "Exact", Full), Query("qq", "Exact", OneOrTwo), Query("q", "Starts", OneOrTwo),
    Query("_version", "Exact", Full), Query("x-a", "Exact", Full), Query("q", "Starts", Bad)}

PathId == [on |-> "Path", captures |-> [p \in {"/a", "/b"} |-> <<<<"id", p>>>>]]
Others == {[on |-> "Method"], [on |-> "Version"], PathId}

Entries == Bodies \cup Headers \cup Queries \cup Others

WholePath == [p \in {"/a", "/b", "/c"} |-> <<<<"path", p>>>>]

AllConfigs ==
    {[kind |-> "Null"], [kind |-> "Undefined"]}
    \cup {[kind |-> "Value", list |-> <<e>>] : e \in Entries}
    \cup {[kind |-> "Value", list |-> <<e, f>>] : e \in Headers, f \in Queries \cup Others}
    \cup {[kind |-> "Value", list |-> <<e, f>>] : e \in Queries \cup {PathId}, f \in Bodies}

NoParameters == [n \in {} |-> <<>>]
Basic == [method |-> "GET", path |-> "/a", version |-> "1.1", query |-> NoParameters, headers |-> <<>>, body |-> "a"]

SomeRequests ==
    {Basic, [Basic EXCEPT !.method = "POST"], [Basic EXCEPT !.version = "2"],
     [Basic EXCEPT !.body = "b"], [Basic EXCEPT !.body = Broken]}
    \cup {[Basic EXCEPT !.path = p] : p \in {"/b", "/c"}}
    \cup {[Basic EXCEPT !.query = q] :
            q \in {[q |-> <<"one">>], [q |-> <<"one", "two">>], [q |-> <<"">>], [qq |-> <<"two">>],
                   [q |-> <<"one">>, qq |-> <<"two">>], [q |-> <<"one">>, qq |-> <<"one", "two">>],
                   [q |-> <<"two">>, filter |-> Nested], [_version |-> <<"one">>],
                   [n \in {"x-a"} |-> <<"one">>]}}
    \cup {[Basic EXCEPT !.headers = h] :
            h \in {<<<<"x-a", "one">>>>, <<<<"x-a", "ONE">>>>, <<<<"x-a", "">>>>, <<<<"x-a", "opaque">>>>,
                   <<<<"x-a", "one">>, <<"x-a", "two">>, <<"x-b", "two">>>>,
                   <<<<"x-b", "two">>, <<"x-a", "one">>, <<"x-a", "two">>>>,
                   <<<<"x-b", "two">>>>}}
=============================================================================
