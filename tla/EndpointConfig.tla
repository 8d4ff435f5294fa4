--------------------------- MODULE EndpointConfig ---------------------------
(***************************************************************************)
(* From the configuration file of an endpoint to its predicates            *)
(* (hitbox-configuration): what ConfigEndpoint::into_endpoint builds out   *)
(* of the nested And, Or and Not of a file, and what the endpoint then     *)
(* says of the requests and the responses it is asked about.               *)
(*                                                                         *)
(* Every part of a configuration is given the predicate built so far, the  *)
(* inner one, and returns the predicate that replaces it.  An expression   *)
(* is a record whose "op" names it.  A value of the file that does not     *)
(* parse (a method, a version, a header, a regular expression) is Bad.     *)
(* The spellings of one condition in the file are one form here.           *)
(***************************************************************************)
EXTENDS Predicates

CONSTANTS
    Bad,          \* the text that parses as nothing
    Configs,      \* the configurations to load: records of "request" and "response"
    Requests,
    Responses,
    Error,        \* a ConfigError
    None

VARIABLES
    config,     \* the ConfigEndpoint
    endpoint,   \* the Endpoint, None before it is built, or Error
    asked,      \* the message of the last check, or None
    verdict     \* what Check said of it

vars == <<config, endpoint, asked, verdict>>

Wrap(t, inner) == IF Error \in {t, inner} THEN Error ELSE Test(t, inner)

(* One condition each.  JqOperationConfig::Exist ignores its flag.          *)
MethodTest(m)  == IF Bad \in m.values THEN Error ELSE [on |-> "Method", values |-> m.values]
VersionTest(v) == IF Bad \in v.values THEN Error ELSE [on |-> "Version", values |-> v.values]
BodyTest(b)    == IF Bad \in b.values THEN Error ELSE [on |-> "Body", values |-> b.values]
QueryTest(q)   == [on |-> "Query", name |-> q.name, form |-> q.form, values |-> q.values]

HeaderTest(h) ==
    IF h.name = Bad \/ (h.form \in {"Eq", "In", "Regex"} /\ Bad \in h.values) THEN Error
    ELSE [on |-> "Header", name |-> h.name, form |-> h.form, values |-> h.values]

StatusTest(s) ==
    CASE s.form \in {"Eq", "In"} ->
            IF s.values \subseteq 100..999
            THEN [on |-> "Status", form |-> s.form, values |-> s.values] ELSE Error
      [] s.form = "Range" ->
            IF {s.first, s.last} \subseteq 100..999
            THEN [on |-> "Status", form |-> "Range", first |-> s.first, last |-> s.last] ELSE Error
      [] s.form = "Class" -> [on |-> "Status", form |-> "Class", class |-> s.class]

(* The parameters and headers of one entry, wrapped from the last.          *)
RECURSIVE Params(_, _)
Params(qs, inner) ==
    IF qs = <<>> THEN inner ELSE Wrap(QueryTest(Head(qs)), Params(Tail(qs), inner))

RECURSIVE Headers(_, _)
Headers(hs, inner) ==
    IF hs = <<>> THEN inner ELSE Wrap(HeaderTest(Head(hs)), Headers(Tail(hs), inner))

(* Mutant: the Or of its last alternative only.                             *)
OrWithLast(next, acc) == IF Error \in {next, acc} THEN Error ELSE next

(* Or::new(next, those before it).                                          *)
OrWith(next, acc) == IF Error \in {next, acc} THEN Error ELSE Or(next, acc)

(* A list of paths: one of them, instead of the inner predicate.            *)
RECURSIVE AnyPath(_)
AnyPath(patterns) ==
    IF patterns = <<>> THEN Error
    ELSE LET last  == patterns[Len(patterns)]
             path  == Test([on |-> "Path", values |-> last], Neutral)
             front == SubSeq(patterns, 1, Len(patterns) - 1)
         IN  IF front = <<>> THEN path ELSE OrWith(path, AnyPath(front))

(* Predicate::into_predicates, for requests and for responses.              *)
RequestLeaf(e, inner) ==
    CASE e.op = "Method"  -> Wrap(MethodTest(e), inner)
      [] e.op = "Path"    -> Wrap([on |-> "Path", values |-> e.values], inner)
      [] e.op = "PathIn"  -> AnyPath(e.patterns)
      [] e.op = "Query"   -> Params(e.entries, inner)
      [] e.op = "Header"  -> Headers(e.entries, inner)
      [] e.op = "Body"    -> Wrap(BodyTest(e), inner)
      [] e.op = "Version" -> Wrap(VersionTest(e), inner)

ResponseLeaf(e, inner) ==
    CASE e.op = "Status"  -> Wrap(StatusTest(e), inner)
      [] e.op = "Header"  -> Headers(e.entries, inner)
      [] e.op = "Body"    -> Wrap(BodyTest(e), inner)
      [] e.op = "Version" -> Wrap(VersionTest(e), inner)

(* The And of requests folds from its last expression to its first, so the  *)
(* last one is innermost; Or and Not start from Neutral.                    *)
RECURSIVE IntoRequest(_, _), RequestAnd(_, _), RequestOr(_)
RequestAnd(es, inner) ==
    IF es = <<>> THEN inner ELSE IntoRequest(Head(es), RequestAnd(Tail(es), inner))
RequestOr(es) ==
    LET last  == IntoRequest(es[Len(es)], Neutral)
        front == SubSeq(es, 1, Len(es) - 1)
    IN  IF front = <<>> THEN last ELSE OrWith(last, RequestOr(front))
IntoRequest(e, inner) ==
    IF inner = Error THEN Error
    ELSE CASE e.op = "And" -> RequestAnd(e.of, inner)
           [] e.op = "Or"  -> IF e.of = <<>> THEN inner ELSE RequestOr(e.of)
           [] e.op = "Not" -> LET p == IntoRequest(e.of, Neutral) IN
                              IF p = Error THEN Error ELSE Not(p)
           [] OTHER        -> RequestLeaf(e, inner)

(* The And of responses folds from its first expression to its last.        *)
RECURSIVE IntoResponse(_, _), ResponseAnd(_, _), ResponseOr(_)
ResponseAnd(es, inner) ==
    IF es = <<>> THEN inner ELSE ResponseAnd(Tail(es), IntoResponse(Head(es), inner))
ResponseOr(es) ==
    LET last  == IntoResponse(es[Len(es)], Neutral)
        front == SubSeq(es, 1, Len(es) - 1)
    IN  IF front = <<>> THEN last ELSE OrWith(last, ResponseOr(front))
IntoResponse(e, inner) ==
    IF inner = Error THEN Error
    ELSE CASE e.op = "And" -> ResponseAnd(e.of, inner)
           [] e.op = "Or"  -> IF e.of = <<>> THEN inner ELSE ResponseOr(e.of)
           [] OTHER        -> ResponseLeaf(e, inner)

(* A flat list folds from its last predicate, on both sides.                *)
RECURSIVE ResponseFlat(_)
ResponseFlat(es) ==
    IF es = <<>> THEN Neutral
    ELSE LET inner == ResponseFlat(Tail(es)) IN
         IF inner = Error THEN Error ELSE ResponseLeaf(Head(es), inner)

(* A null in the file asks for no condition; an absent entry for the        *)
(* defaults.                                                                *)
RequestPredicates(c) ==
    CASE c.op = "Null"      -> Neutral
      [] c.op = "Undefined" -> Test([on |-> "Method", values |-> {"GET"}], Neutral)
      [] c.op = "Flat"      -> RequestAnd(c.of, Neutral)
      [] OTHER              -> IntoRequest(c, Neutral)

ResponsePredicates(c) ==
    CASE c.op = "Null"      -> Neutral
      [] c.op = "Undefined" -> Test([on |-> "Status", form |-> "Eq", values |-> {200}], Neutral)
      [] c.op = "Flat"      -> ResponseFlat(c.of)
      [] OTHER              -> IntoResponse(c, Neutral)

Init ==
    /\ config \in Configs
    /\ endpoint = None /\ asked = None /\ verdict = None

IntoEndpoint ==
    /\ endpoint = None
    /\ LET request  == RequestPredicates(config.request)
           response == ResponsePredicates(config.response)
       IN  endpoint' = IF Error \in {request, response} THEN Error
                       ELSE [request |-> request, response |-> response]
    /\ UNCHANGED <<config, asked, verdict>>

(* Nothing is left of a check, so that an endpoint is asked once.           *)
CheckRequest(s) ==
    /\ endpoint \notin {None, Error} /\ asked = None
    /\ asked' = s
    /\ verdict' = Check(endpoint.request, s)
    /\ UNCHANGED <<config, endpoint>>

CheckResponse(s) ==
    /\ endpoint \notin {None, Error} /\ asked = None
    /\ asked' = s
    /\ verdict' = Check(endpoint.response, s)
    /\ UNCHANGED <<config, endpoint>>

Next ==
    \/ IntoEndpoint
    \/ \E s \in Requests : CheckRequest(s)
    \/ \E s \in Responses : CheckResponse(s)

Spec == Init /\ [][Next]_vars
-----------------------------------------------------------------------------
(* The reference: what a configuration says, read as logic.  An empty Or    *)
(* and an empty And state no condition.                                     *)
RECURSIVE Means(_, _)
Means(e, s) ==
    CASE e.op = "Null"      -> TRUE
      [] e.op = "Undefined" -> IF s \in Requests THEN s.method = "GET" ELSE s.status = 200
      [] e.op \in {"And", "Flat"} -> \A i \in DOMAIN e.of : Means(e.of[i], s)
      [] e.op = "Or"        -> e.of = <<>> \/ \E i \in DOMAIN e.of : Means(e.of[i], s)
      [] e.op = "Not"       -> ~Means(e.of, s)
      [] e.op = "Method"    -> s.method \in e.values
      [] e.op = "Version"   -> s.version \in e.values
      [] e.op = "Body"      -> s.body \in e.values
      [] e.op = "Path"      -> s.path \in e.values
      [] e.op = "PathIn"    -> \E i \in DOMAIN e.patterns : s.path \in e.patterns[i]
      [] e.op = "Query"     -> \A i \in DOMAIN e.entries : QueryHolds(e.entries[i], s)
      [] e.op = "Header"    -> \A i \in DOMAIN e.entries : HeaderHolds(e.entries[i], s)
      [] e.op = "Status"    -> StatusHolds(e, s)

(* The expressions that forget the inner predicate they are given, and the  *)
(* configurations in which nothing is forgotten.                            *)
RECURSIVE Forgets(_), NothingForgotten(_, _)
Forgets(e) ==
    \/ e.op \in {"Not", "PathIn"}
    \/ e.op = "Or" /\ e.of # <<>>
    \/ e.op \in {"And", "Flat"} /\ \E i \in DOMAIN e.of : Forgets(e.of[i])
NothingForgotten(e, side) ==
    CASE e.op = "Not" -> NothingForgotten(e.of, side)
      [] e.op = "Or"  -> \A i \in DOMAIN e.of : NothingForgotten(e.of[i], side)
      [] e.op \in {"And", "Flat"} -> \A i \in DOMAIN e.of :
            /\ NothingForgotten(e.of[i], side)
            /\ Forgets(e.of[i]) => i = IF side = "request" THEN Len(e.of) ELSE 1
      [] OTHER -> TRUE

RECURSIVE Uses(_, _)
Uses(e, ops) ==
    \/ e.op \in ops
    \/ e.op = "Not" /\ Uses(e.of, ops)
    \/ e.op \in {"And", "Or", "Flat"} /\ \E i \in DOMAIN e.of : Uses(e.of[i], ops)

RECURSIVE WellFormed(_)
WellFormed(e) ==
    CASE e.op = "Not"    -> WellFormed(e.of)
      [] e.op \in {"And", "Or", "Flat"} -> \A i \in DOMAIN e.of : WellFormed(e.of[i])
      [] e.op = "PathIn" -> e.patterns # <<>>
      [] e.op = "Header" -> \A i \in DOMAIN e.entries : HeaderTest(e.entries[i]) # Error
      [] e.op = "Status" -> StatusTest(e) # Error
      [] e.op \in {"Method", "Version", "Body"} -> Bad \notin e.values
      [] OTHER -> TRUE

Side       == IF asked \in Requests THEN "request" ELSE "response"
Expression == config[Side]

(* An endpoint is built exactly when every value and every list of paths    *)
(* in its file is usable: a mistake deep inside an expression is not lost,  *)
(* and nothing else fails (ConfigEndpoint::into_endpoint).                  *)
BuiltIffWellFormed ==
    endpoint # None =>
        (endpoint = Error <=> ~(WellFormed(config.request) /\ WellFormed(config.response)))

(* Where no Or, Not or list of paths has a neighbour that is wrapped before *)
(* it, the endpoint caches exactly what its file says, however deep the     *)
(* expression (Operation::into_predicates and the checks).                  *)
SaysWhatTheFileSays ==
    asked # None /\ NothingForgotten(Expression, Side) =>
        (verdict.cacheable <=> Means(Expression, asked))

(* And wherever they are: without a Not, a message that the file says to    *)
(* cache is cached.  Conditions may be lost, never invented.                *)
NeverStricterThanTheFile ==
    asked # None /\ ~Uses(Expression, {"Not"}) =>
        (Means(Expression, asked) => verdict.cacheable)

(* Once a condition of a conjunction has failed, nothing but bodies is      *)
(* still looked at (the inner predicate of each condition).                 *)
StopsAtTheFirstRefusal ==
    asked # None /\ ~Uses(Expression, {"Not", "Or", "PathIn"}) =>
        \A i, j \in DOMAIN verdict.asked :
            i < j /\ ~Holds(verdict.asked[i], asked) => verdict.asked[j].on = "Body"
=============================================================================
