-------------------------- MODULE MCEndpointConfig --------------------------
(* Configurations of endpoints and messages for EndpointConfig. *)
EXTENDS Naturals

CONSTANTS NoQuery, Bad

UpTo2(S)   == UNION {[1..k -> S] : k \in 0..2}
Combined(S) == S \cup [op : {"And", "Or"}, of : UpTo2(S)]
Negated(S) == S \cup [op : {"Not"}, of : S]
Flat(S)    == [op : {"Flat"}, of : UpTo2(S)]
Absent     == {[op |-> "Null"], [op |-> "Undefined"]}

Values(op, values)       == [op |-> op, values |-> values]
Entry(name, form, values) == [name |-> name, form |-> form, values |-> values]
Header(form, values)     == [op |-> "Header", entries |-> <<Entry("x", form, values)>>]
Query(form, values)      == [op |-> "Query", entries |-> <<Entry("q", form, values)>>]
Status(form, values)     == [op |-> "Status", form |-> form, values |-> values]

Get   == Values("Method", {"GET"})
PathA == Values("Path", {"/a"})
AorB  == [op |-> "PathIn", patterns |-> <<{"/a"}, {"/b"}>>]

RequestLeaves == {
    Get, PathA, AorB, Values("Method", {Bad}), [op |-> "PathIn", patterns |-> <<>>],
    Values("Version", {"1.1"}), Values("Body", {"title"}), Values("Body", {Bad}),
    Query("Eq", {"1"}), Query("Exists", {}), Header("Eq", {"opaque"}), Header("Exist", {}),
    Header("Contains", {"one", "opaque"}), Header("Regex", {Bad}),
    [op |-> "Header", entries |-> <<Entry("x", "In", {"one"}), Entry("y", "Exist", {})>>]}

Basic == [method |-> "GET", path |-> "/a", query |-> NoQuery,
          headers |-> [x |-> <<"one">>, y |-> <<"one">>], version |-> "1.1", body |-> "title"]

SomeRequests ==
    [method : {"GET", "POST"}, path : {"/a", "/b", "/c"}, query : {NoQuery},
     headers : {Basic.headers}, version : {"1.1"}, body : {"title"}]
    \cup {[Basic EXCEPT !.query = q] : q \in {[q |-> <<"1">>], [q |-> <<"2", "1">>], [q |-> <<"2">>]}}
    \cup {[Basic EXCEPT !.headers = h] :
             h \in {[x |-> <<"two", "one">>], [x |-> <<"opaque">>], [y |-> <<"one">>]}}
    \cup {[Basic EXCEPT !.version = "2"], [Basic EXCEPT !.body = "none"]}

Ok == Status("Eq", {200})

ResponseLeaves == {
    Ok, Status("In", {200, 404}), Status("Eq", {1000}), [op |-> "Status", form |-> "Class", class |-> "Success"],
    [op |-> "Status", form |-> "Range", first |-> 200, last |-> 300], Header("Exist", {}),
    Values("Body", {"title"}), Values("Version", {Bad})}

SomeResponses ==
    [status : {200, 204, 300, 404}, headers : {Basic.headers, [y |-> <<"one">>]},
     version : {"1.1"}, body : {"title", "none"}]

DeepRequests  == Combined(Combined(Negated({Get, PathA, AorB})))
BadRequests   == Combined(Combined({Get, Values("Method", {Bad})}))
DeepResponses == Combined(Combined({Ok, Status("In", {200, 404}), Header("Exist", {})}))

Pair(requests, responses) == [request : requests, response : responses]

AllConfigs ==
    Pair(DeepRequests \cup BadRequests \cup Flat(RequestLeaves) \cup Absent, {[op |-> "Null"]})
    \cup Pair({[op |-> "Null"]}, DeepResponses \cup Flat(ResponseLeaves) \cup Absent)
    \cup Pair(RequestLeaves, ResponseLeaves)
=============================================================================
