--------------------------- MODULE KeyExtraction ---------------------------
(***************************************************************************)
(* An endpoint's extractors (ConfigEndpoint::extractors), and a cache that *)
(* is asked for requests under the keys they extract: which requests share *)
(* an entry.  Only the key is of interest here; the backend is a map from  *)
(* serialised keys to the request whose response it holds.                 *)
(***************************************************************************)
EXTENDS CacheKey

CONSTANTS
    Configs,       \* the "extractors" of the configurations to load
    Formats,       \* subset of {"Bitcode", "UrlEncoded"}
    Requests,
    Default,       \* the captures of the path resource "{path}*"
    Error,         \* a ConfigError
    MAX_ENTRIES    \* bound on the entries of the backend

HeaderNames == {h[1] : h \in UNION {ToSet(r.headers) : r \in Requests}}
QueryNames  == UNION {DOMAIN r.query : r \in Requests}

(* What an instance has to give the constants: lists are lists, captures    *)
(* and requests have texts where the code has Strings, names that count are *)
(* ordered, and the names of headers are in lower case.                     *)
IsList(s) == Len(s) \in Nat /\ s = [i \in 1..Len(s) |-> s[i]]
IsText(p) == p = <<p[1], p[2]>> /\ p[2] # None

CapturesOK(c) == \A p \in DOMAIN c : IsList(c[p]) /\ \A i \in DOMAIN c[p] : IsText(c[p][i])

ItemOK(v)   == v.type = "Object" => IsList(v.fields)
ValuesOK(s) ==
    IsList(s) /\ \A i \in DOMAIN s :
        IF s[i].type = "Array" THEN IsList(s[i].items) /\ \A j \in DOMAIN s[i].items : ItemOK(s[i].items[j])
        ELSE ItemOK(s[i])

BodyOK(c) ==
    /\ c.form \in {"Hash", "Jq", "Regex"}
    /\ c.form = "Jq" /\ c.filter # Bad =>
          \A r \in Requests : r.body # Broken => ValuesOK(c.filter[r.body])
    /\ c.form = "Regex" /\ c.matches # Bad =>
          \A b \in DOMAIN c.matches :
              IsList(c.matches[b]) /\ \A i \in DOMAIN c.matches[b] : IsList(c.matches[b][i])

ExtractorOK(c) ==
    /\ c.on \in {"Method", "Version", "Path", "Header", "Query", "Body"}
    /\ c.on = "Path" => CapturesOK(c.captures)
    /\ c.on \in {"Header", "Query"} => c.select \in {"Exact", "Starts"}
    /\ c.on = "Body" => BodyOK(c)

RequestOK(r) ==
    /\ r # None /\ r.method # None /\ r.version # None
    /\ IsList(r.headers) /\ IsFiniteSet(DOMAIN r.query)
    /\ \A n \in DOMAIN r.query : r.query[n] = Nested \/ IsList(r.query[n])

ConstantsOK ==
    /\ Formats \subseteq {"Bitcode", "UrlEncoded"}
    /\ NameOrder \in Seq(STRING) /\ IsInjective(NameOrder)
    /\ HeaderNames \cup QueryNames \subseteq ToSet(NameOrder)
    /\ \A s \in StartsWith : s[1] \in HeaderNames => Lowercase[s[2]] = s[2]
    /\ CapturesOK(Default)
    /\ \A r \in Requests : RequestOK(r)
    /\ \A c \in Configs :
          /\ c.kind \in {"Null", "Undefined", "Value"}
          /\ c.kind = "Value" => IsList(c.list) /\ \A i \in DOMAIN c.list : ExtractorOK(c.list[i])

VARIABLES
    config,        \* what the file says: a kind, and a list of extractors
    format,        \* the CacheKeyFormat of the backend
    chain,         \* the extractors, outermost first; None, or Error
    store,         \* the backend: serialised key -> request
    answer         \* the last request, its key, what was found and stored

vars == <<config, format, chain, store, answer>>

(* Extractor::into_extractors of one entry of the file: a name alone is an *)
(* exact one with its whole value and no transforms.                       *)
HeaderExtractor(c) == IF c.value = Bad THEN Error ELSE c
QueryExtractor(c)  == IF c.value = Bad THEN Error ELSE c

BodyExtractor(c) ==
    CASE c.form = "Jq"    -> IF c.filter = Bad THEN Error ELSE c
      [] c.form = "Regex" -> IF c.matches = Bad THEN Error ELSE c
      [] c.form = "Hash"  -> c

Extractor(c) ==
    CASE c.on = "Header" -> HeaderExtractor(c)
      [] c.on = "Query"  -> QueryExtractor(c)
      [] c.on = "Body"   -> BodyExtractor(c)
      [] c.on \in {"Method", "Version", "Path"} -> c

(* A null asks for no extractor, an absent entry for the defaults.  The    *)
(* list folds from its last entry, which becomes innermost.                *)
ExtractorsOf(c) ==
    CASE c.kind = "Null"      -> <<>>
      [] c.kind = "Undefined" -> <<[on |-> "Path", captures |-> Default], [on |-> "Method"]>>
      [] c.kind = "Value"     ->
            IF \E i \in DOMAIN c.list : Extractor(c.list[i]) = Error THEN Error
            ELSE [i \in DOMAIN c.list |-> Extractor(c.list[i])]

Init ==
    /\ config \in Configs /\ format \in Formats
    /\ chain = None /\ answer = None
    /\ store = [k \in {} |-> None]

IntoExtractors ==
    /\ chain = None
    /\ chain' = ExtractorsOf(config)
    /\ UNCHANGED <<config, format, store, answer>>

(* CacheableHttpRequest::cache_policy, then the lookup; the response of a  *)
(* miss is stored under the same key.                                      *)
Ask(r, order) ==
    /\ chain \notin {None, Error}
    /\ LET key  == KeyOf(chain, r, order)
           data == Serialize(format, key)
           hit  == data \in DOMAIN store
       IN  /\ answer' = [asked |-> r, key |-> key, found |-> IF hit THEN store[data] ELSE None,
                         stored |-> {store[k] : k \in DOMAIN store}]
           /\ store' = IF hit \/ Cardinality(DOMAIN store) = MAX_ENTRIES THEN store
                       ELSE [k \in DOMAIN store \cup {data} |-> IF k = data THEN r ELSE store[k]]
    /\ UNCHANGED <<config, format, chain>>

Next ==
    \/ IntoExtractors
    \/ \E r \in Requests : \E order \in SetToSeqs(DOMAIN r.query) : Ask(r, order)

Spec == Init /\ [][Next]_vars
-----------------------------------------------------------------------------
(* The reference: what an extractor is asked to tell apart, without names  *)
(* in lists, orders and parts.  Names of headers have no case.  A header   *)
(* that is asked for by name counts with its first value only.  A value    *)
(* that is missing is an empty one for a key in UrlEncoded form.           *)
Told(v) == IF v = None /\ format = "UrlEncoded" THEN "" ELSE v

From(prefix, names) == {n \in names : <<n, prefix>> \in StartsWith}

HeaderValues(e, r, name) ==
    LET found == HeadersNamed(r, name)
    IN  [i \in DOMAIN found |-> Told(ExtractHeader(e, found[i][2]))]

QueryValues(e, r, name) ==
    IF name \notin DOMAIN r.query THEN <<>>
    ELSE IF r.query[name] = Nested THEN <<>>
    ELSE LET values == [i \in DOMAIN r.query[name] |-> ExtractValue(e, r.query[name][i])]
         IN  Pick(values, {i \in DOMAIN values : values[i] # None})

Sees(e, r) ==
    CASE e.on = "Method"  -> r.method
      [] e.on = "Version" -> r.version
      [] e.on = "Path"    -> IF r.path \in DOMAIN e.captures THEN e.captures[r.path] ELSE <<>>
      [] e.on = "Header" /\ e.select = "Exact" ->
            LET values == HeaderValues(e, r, Lowercase[e.name])
            IN  IF values = <<>> THEN Told(None) ELSE values[1]
      [] e.on = "Header" /\ e.select = "Starts" ->
            [n \in From(Lowercase[e.name], HeaderNames) |-> HeaderValues(e, r, n)]
      [] e.on = "Query"   ->
            [n \in (IF e.select = "Exact" THEN {e.name} ELSE From(e.name, QueryNames)) |->
                QueryValues(e, r, n)]
      [] e.on = "Body"    ->
            [i \in DOMAIN BodyParts(e, r) |->
                <<BodyParts(e, r)[i].name, Told(BodyParts(e, r)[i].value)>>]

Agree(r, s) == \A i \in DOMAIN chain : Sees(chain[i], r) = Sees(chain[i], s)

(* The names an extractor may give to its parts, and the chains in which   *)
(* no two extractors use one name.                                         *)
NamesIn(parts) == {parts[i].name : i \in DOMAIN parts}

NamesOf(e) ==
    UNION {UNION {NamesIn(PartsOf(e, r, order)) : order \in SetToSeqs(DOMAIN r.query)} :
           r \in Requests}

NamesApart ==
    \A i, j \in DOMAIN chain : i # j => NamesOf(chain[i]) \cap NamesOf(chain[j]) = {}

(* A prefix in capitals is the name of no HeaderName.                      *)
PrefixesInLowercase ==
    \A i \in DOMAIN chain :
        chain[i].on = "Header" /\ chain[i].select = "Starts" => Lowercase[chain[i].name] = chain[i].name

Parses(r) == \A n \in DOMAIN r.query : r.query[n] # Nested

Found  == answer # None /\ answer.found # None
Parsed == Parses(answer.asked) /\ Parses(answer.found)
Same   == Agree(answer.asked, answer.found)

(* A request is answered with the response of a request that it agrees     *)
(* with in everything the extractors look at: parts that come and go, come *)
(* several times or have no value are never taken for one another (the     *)
(* extractors' get and CacheKeyFormat::serialize).                         *)
FoundForTheSameRequest ==
    Found /\ NamesApart /\ PrefixesInLowercase /\ Parsed => Same

(* And it is found: two requests that agree in everything the extractors   *)
(* look at share an entry, in whatever order their headers came or the map *)
(* of their query parameters yields them.                                  *)
FoundAgain ==
    answer # None /\ answer.found = None =>
        \A r \in answer.stored : Parses(r) /\ Parses(answer.asked) => ~Agree(answer.asked, r)

(* A key written in the default form is read back as it was, with parts    *)
(* with and without values in any order (KeyPartEncoder, KeyPartDecoder).  *)
BitcodeIsReversible ==
    answer # None => BitcodeDecode(BitcodeEncode(answer.key)) = answer.key
=============================================================================
