----------------------------- MODULE Predicates -----------------------------
(***************************************************************************)
(* The predicates that decide whether a request or a response is cached:   *)
(* the combinators of hitbox-core (predicate/combinators.rs) and the       *)
(* conditions of hitbox-http on one part of a message.  A condition wraps  *)
(* an inner predicate and looks at its own part only once that one says    *)
(* Cacheable, but for a condition on the body, which always looks.         *)
(*                                                                         *)
(* A pattern (a path resource, a substring, a regular expression, a jq     *)
(* filter) is the set of the values it matches.  A request has a method,   *)
(* path, query, headers, version and body; a response has a status in      *)
(* place of the first three.  How a body is read is in HttpBody.           *)
(***************************************************************************)
EXTENDS Naturals, Sequences

CONSTANTS
    NoQuery,      \* the query of a URI that has none, or one that does not parse
    OpaqueBytes   \* the header values that are not visible ASCII

(* Predicate objects. *)
Neutral         == [kind |-> "Neutral"]
Test(t, inner)  == [kind |-> "Test", test |-> t, inner |-> inner]
Not(p)          == [kind |-> "Not", of |-> p]
Or(left, right) == [kind |-> "Or", left |-> left, right |-> right]

(* All the values of a header: a name may come several times. *)
ValuesOf(s, name) ==
    IF name \in DOMAIN s.headers THEN {s.headers[name][i] : i \in DOMAIN s.headers[name]} ELSE {}

MethodHolds(t, s)  == s.method \in t.values
PathHolds(t, s)    == s.path \in t.values
VersionHolds(t, s) == s.version \in t.values
BodyHolds(t, s)    == s.body \in t.values

(* No condition on a parameter holds of a query that did not parse. *)
QueryHolds(t, s) ==
    /\ s.query # NoQuery
    /\ t.name \in DOMAIN s.query
    /\ \/ t.form = "Exists"
       \/ \E i \in DOMAIN s.query[t.name] : s.query[t.name][i] \in t.values

(* Eq and In compare bytes; Contains and Regex need text. *)
HeaderHolds(t, s) ==
    \E v \in ValuesOf(s, t.name) :
        \/ t.form = "Exist"
        \/ t.form \in {"Eq", "In"} /\ v \in t.values
        \/ t.form \in {"Contains", "Regex"} /\ v \notin OpaqueBytes /\ v \in t.values

ClassCodes ==
    [Informational |-> 100..199, Success |-> 200..299, Redirect |-> 300..399,
     ClientError |-> 400..499, ServerError |-> 500..599]

StatusHolds(t, s) ==
    \/ t.form \in {"Eq", "In"} /\ s.status \in t.values
    \/ t.form = "Range" /\ t.first <= s.status /\ s.status <= t.last
    \/ t.form = "Class" /\ s.status \in ClassCodes[t.class]

Holds(t, s) ==
    CASE t.on = "Method"  -> MethodHolds(t, s)
      [] t.on = "Path"    -> PathHolds(t, s)
      [] t.on = "Query"   -> QueryHolds(t, s)
      [] t.on = "Header"  -> HeaderHolds(t, s)
      [] t.on = "Version" -> VersionHolds(t, s)
      [] t.on = "Status"  -> StatusHolds(t, s)
      [] t.on = "Body"    -> BodyHolds(t, s)

(* What a check says, and the conditions it looked at in their order.  The  *)
(* message itself is handed from each predicate to the next.                *)
Says(cacheable, asked) == [cacheable |-> cacheable, asked |-> asked]

CheckTest(t, inner, s) ==
    IF inner.cacheable \/ t.on = "Body"
    THEN Says(inner.cacheable /\ Holds(t, s), Append(inner.asked, t)) ELSE inner

RECURSIVE Check(_, _)
Check(p, s) ==
    CASE p.kind = "Neutral" -> Says(TRUE, <<>>)
      [] p.kind = "Test"    -> CheckTest(p.test, Check(p.inner, s), s)
      [] p.kind = "Not"     -> LET r == Check(p.of, s) IN Says(~r.cacheable, r.asked)
      [] p.kind = "Or"      ->
            LET l == Check(p.left, s) IN
            IF l.cacheable THEN l
            ELSE LET r == Check(p.right, s) IN Says(r.cacheable, l.asked \o r.asked)
=============================================================================
