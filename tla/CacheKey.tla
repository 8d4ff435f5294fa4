------------------------------ MODULE CacheKey ------------------------------
(***************************************************************************)
(* The cache key of a request (hitbox-core key.rs, hitbox-http extractors) *)
(* and its two serialised forms (hitbox-backend key.rs).                   *)
(*                                                                         *)
(* An extractor turns one part of a request into named key parts.  Texts   *)
(* are strings.  A regular expression or a jq filter is the function from  *)
(* the texts it matches to what it yields, a path resource the function    *)
(* from the paths it matches to its captures.  A request has its headers   *)
(* in the order of the HeaderMap, each name in lower case as HeaderName    *)
(* keeps it, and the parameters of its query as a function from names to   *)
(* lists of values, or Nested for one in brackets, as in filter[status].   *)
(***************************************************************************)
EXTENDS Naturals, Sequences, FiniteSets, SequencesExt

CONSTANTS
    None,         \* Option::None
    Bad,          \* what does not parse: a regular expression, a filter, a number
    Numbers,      \* the texts that parse as a version
    Broken,       \* a body whose stream fails
    Nested,       \* the value of a parameter that has parameters of its own
    OpaqueTexts,  \* the header values that are not visible ASCII
    NameOrder,    \* the names of key parts in the order of strings
    Lowercase,    \* function: a name of the configuration, in lower case
    StartsWith,   \* the pairs of a name and a prefix of it
    Transformed   \* function: transform, text -> text

Part(name, value) == [name |-> name, value |-> value]

(* filter(): the items of a sequence at some of its places, in their order. *)
Ranked(at, k) == CHOOSE i \in at : Cardinality({j \in at : j <= i}) = k
Pick(s, at)   == [k \in 1..Cardinality(at) |-> s[Ranked(at, k)]]

PartsNamed(parts, name) == Pick(parts, {i \in DOMAIN parts : parts[i].name = name})
Valued(parts)           == Pick(parts, {i \in DOMAIN parts : parts[i].value # None})

(* sort_by the name, which keeps the values of one name in their order.    *)
SortedByName(parts) ==
    FlattenSeq([i \in DOMAIN NameOrder |-> PartsNamed(parts, NameOrder[i])])

ApplyTransforms(value, chain) ==
    FoldLeft(LAMBDA v, t : Transformed[t][v], value, chain)

(* What a value extractor (the whole text, or a regular expression) makes  *)
(* of a text, None if it does not match.                                   *)
ExtractValue(e, text) ==
    IF text \in DOMAIN e.value THEN ApplyTransforms(e.value[text], e.transforms) ELSE None

ExtractHeader(e, bytes) == IF bytes \in OpaqueTexts THEN None ELSE ExtractValue(e, bytes)

HeadersNamed(r, name) == Pick(r.headers, {i \in DOMAIN r.headers : r.headers[i][1] = name})
HeadersFrom(r, prefix) ==
    Pick(r.headers, {i \in DOMAIN r.headers : <<r.headers[i][1], prefix>> \in StartsWith})

(* One part if the name is given, with its first value or None.  With a    *)
(* prefix, one part for each value of each name that starts with it.       *)
HeaderParts(e, r) ==
    IF e.select = "Exact"
    THEN LET found == HeadersNamed(r, Lowercase[e.name])
         IN  <<Part(e.name, IF found = <<>> THEN None ELSE ExtractHeader(e, found[1][2]))>>
    ELSE LET found == HeadersFrom(r, e.name)
         IN  SortedByName([i \in DOMAIN found |-> Part(found[i][1], ExtractHeader(e, found[i][2]))])

(* crate::query::parse(..).unwrap_or_default(): a value is a text or a list *)
(* of texts, and one that is not loses the whole query.                    *)
Parse(query) == IF \E n \in DOMAIN query : query[n] = Nested THEN [n \in {} |-> <<>>] ELSE query

(* Mutant: only the first value of a parameter that comes several times.   *)
ExtractQueryFirst(e, query, name) ==
    IF name \notin DOMAIN query THEN <<>>
    ELSE Valued(<<Part(name, ExtractValue(e, query[name][1]))>>)

(* The values of a parameter that the extractor matches.                   *)
ExtractQuery(e, query, name) ==
    IF name \notin DOMAIN query THEN <<>>
    ELSE Valued([i \in DOMAIN query[name] |-> Part(name, ExtractValue(e, query[name][i]))])

(* The parts of the parameters that start with a prefix, in the order in   *)
(* which the HashMap yields their names.                                   *)
PrefixedParts(e, query, order) ==
    FlattenSeq([i \in DOMAIN order |->
        IF order[i] \in DOMAIN query /\ <<order[i], e.name>> \in StartsWith
        THEN ExtractQuery(e, query, order[i]) ELSE <<>>])

QueryParts(e, r, order) ==
    IF e.select = "Exact" THEN ExtractQuery(e, Parse(r.query), e.name)
    ELSE SortedByName(PrefixedParts(e, Parse(r.query), order))

(* The parts of the values a jq filter yields: the fields of objects, and  *)
(* of objects in arrays, under their names, and the rest as "body".        *)
FieldParts(v) == [i \in DOMAIN v.fields |-> Part(v.fields[i][1], v.fields[i][2])]
ItemParts(v)  == IF v.type = "Object" THEN FieldParts(v) ELSE <<Part("body", v.text)>>
JqParts(values) ==
    FlattenSeq([i \in DOMAIN values |->
        IF values[i].type = "Array"
        THEN FlattenSeq([j \in DOMAIN values[i].items |-> ItemParts(values[i].items[j])])
        ELSE ItemParts(values[i])])

(* Transforms::{None, FullBody, PerKey}.                                   *)
ChainFor(transforms, name) ==
    CASE transforms.kind = "None"     -> <<>>
      [] transforms.kind = "FullBody" -> transforms.chain
      [] transforms.kind = "PerKey"   ->
            IF name \in DOMAIN transforms.chains THEN transforms.chains[name] ELSE <<>>

(* A match is the list of its captures: its named groups, or one capture   *)
(* without a name.                                                         *)
RegexParts(e, body) ==
    LET matches == IF body \in DOMAIN e.matches THEN e.matches[body] ELSE <<>>
        taken   == IF e.global \/ matches = <<>> THEN matches ELSE <<matches[1]>>
        Named(c) == LET name == IF c[1] # None THEN c[1] ELSE IF e.key = None THEN "body" ELSE e.key
                    IN  Part(name, ApplyTransforms(c[2], ChainFor(e.transforms, name)))
    IN  FlattenSeq([i \in DOMAIN taken |-> [j \in DOMAIN taken[i] |-> Named(taken[i][j])]])

(* A stream that fails still gives a key; how it is read is in HttpBody.    *)
BodyParts(e, r) ==
    IF r.body = Broken THEN <<Part("body", None)>>
    ELSE CASE e.form = "Hash"  -> <<Part("body", Transformed["hash"][r.body])>>
           [] e.form = "Jq"    -> JqParts(e.filter[r.body])
           [] e.form = "Regex" -> RegexParts(e, r.body)

PathParts(e, r) ==
    IF r.path \notin DOMAIN e.captures THEN <<>>
    ELSE [i \in DOMAIN e.captures[r.path] |->
             Part(e.captures[r.path][i][1], e.captures[r.path][i][2])]

PartsOf(e, r, order) ==
    CASE e.on = "Method"  -> <<Part("method", r.method)>>
      [] e.on = "Version" -> <<Part("version", r.version)>>
      [] e.on = "Path"    -> PathParts(e, r)
      [] e.on = "Header"  -> HeaderParts(e, r)
      [] e.on = "Query"   -> QueryParts(e, r, order)
      [] e.on = "Body"    -> BodyParts(e, r)

(* Each extractor puts its parts behind those of its inner one, the next   *)
(* in the chain; KeyParts::into_cache_key.                                 *)
KeyOf(chain, r, order) ==
    [prefix |-> "", version |-> "0",
     parts |-> FlattenSeq(Reverse([i \in DOMAIN chain |-> PartsOf(chain[i], r, order)]))]

(* bitcode writes a column for the names, one that says which parts have a *)
(* value, and one with the values there are.                               *)
BitcodeColumns(key, values) ==
    [names   |-> [i \in DOMAIN key.parts |-> key.parts[i].name],
     some    |-> [i \in DOMAIN key.parts |-> key.parts[i].value # None],
     values  |-> values, version |-> key.version, prefix |-> key.prefix]

BitcodeEncode(key) ==
    LET valued == Valued(key.parts)
    IN  BitcodeColumns(key, [i \in DOMAIN valued |-> valued[i].value])

BitcodeDecode(data) ==
    LET ValueAt(i) == IF data.some[i] THEN data.values[Cardinality({j \in 1..i : data.some[j]})]
                      ELSE None
    IN  [prefix |-> data.prefix, version |-> data.version,
         parts  |-> [i \in DOMAIN data.names |-> Part(data.names[i], ValueAt(i))]]

(* CacheKeyFormat::UrlEncoded: pairs of names and texts.                   *)
UrlEncode(key) ==
    <<<<"_prefix", key.prefix>>, <<"_version", key.version>>>>
    \o [i \in DOMAIN key.parts |->
           <<key.parts[i].name, IF key.parts[i].value = None THEN "" ELSE key.parts[i].value>>]

(* The last pair of a reserved name counts, a version must be a number, an *)
(* empty text is no value.                                                 *)
UrlDecode(pairs) ==
    LET LastOf(name) == pairs[SelectLastInSeq(pairs, LAMBDA p : p[1] = name)][2]
        rest         == Pick(pairs, {i \in DOMAIN pairs : pairs[i][1] \notin {"_prefix", "_version"}})
    IN  IF \E i \in DOMAIN pairs : pairs[i][1] = "_version" /\ pairs[i][2] \notin Numbers THEN Bad
        ELSE [prefix |-> LastOf("_prefix"), version |-> LastOf("_version"),
              parts  |-> [i \in DOMAIN rest |->
                             Part(rest[i][1], IF rest[i][2] = "" THEN None ELSE rest[i][2])]]

Serialize(format, key) == IF format = "Bitcode" THEN BitcodeEncode(key) ELSE UrlEncode(key)
=============================================================================
