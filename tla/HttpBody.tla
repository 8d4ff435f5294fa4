------------------------------ MODULE HttpBody ------------------------------
(***************************************************************************)
(* BufferedBody (hitbox-http/src/body.rs) and what reads it: the body      *)
(* predicates (predicates/body), the body extractor and the conversion of  *)
(* a response for the cache.  Each of them takes bytes from the stream of  *)
(* the body and must leave a body that yields the same bytes to whoever    *)
(* comes next: another predicate, the upstream or the client.              *)
(*                                                                         *)
(* The stream is the sequence of its bytes and how it ends.  It arrives in *)
(* frames cut anywhere, one for each step in which somebody polls it.      *)
(* Trailers are left out.                                                  *)
(***************************************************************************)
EXTENDS Naturals, Sequences

CONSTANTS
    Sources,      \* the streams to consider
    Operations,   \* the operations that predicates and extractors run
    MAX_CHECKS,   \* bound on the operations run on one body
    None

(* Those that collect() the whole body: Eq (RegExp and Jq do as it does),   *)
(* Ends, the extractor, and into_cached(), which stores a response.         *)
Collects  == {"Eq", "Ends", "Extract", "Store"}
Kinds     == {"Limit", "Starts", "Contains"} \cup Collects
Operation == [kind : Kinds, bytes : Nat, pattern : Seq(Nat)]
Source    == [bytes : Seq(Nat), end : {"Ok", "Error"}, hint : BOOLEAN]

ASSUME HttpBodyAssumption ==
    /\ Sources \subseteq Source
    /\ Operations \subseteq Operation
    /\ MAX_CHECKS \in Nat
    /\ None \notin Seq(Nat) /\ None \notin Operation

VARIABLES
    source,   \* the stream of the body
    read,     \* how many of its bytes were taken from it
    body,     \* the BufferedBody
    busy,     \* the operation that is polling the stream, or None
    buffer,   \* what it has collected
    checks,   \* the operations run so far, with their verdicts
    cached,   \* the body as it was stored, or None
    sent,     \* the bytes the next consumer got from poll_frame()
    ended,    \* how poll_frame() ended: "No", "Ok", "Error"
    lost      \* history: the ways in which bytes got lost

vars == <<source, read, body, busy, buffer, checks, cached, sent, ended, lost>>

Bytes  == Seq(Nat)
Bodies == [state  : {"Passthrough", "Partial", "Complete"},
           prefix : Bytes \cup {None},
           rest   : {"Body", "Error", "Nothing"}]

Passthrough             == [state |-> "Passthrough", prefix |-> None, rest |-> "Body"]
Complete(bytes)         == [state |-> "Complete", prefix |-> bytes, rest |-> "Nothing"]
Partial(prefix, rest)   == [state |-> "Partial", prefix |-> prefix, rest |-> rest]

TypeOK ==
    /\ source \in Sources
    /\ read \in 0..Len(source.bytes)
    /\ body \in Bodies
    /\ busy \in Operations \cup {None}
    /\ buffer \in Bytes
    /\ checks \in Seq([op : Operations, verdict : BOOLEAN, after : SUBSET {"match", "error"}])
    /\ cached \in Bytes \cup {None}
    /\ sent \in Bytes
    /\ ended \in {"No", "Ok", "Error"}
    /\ lost \subseteq {"match", "error"}
    /\ body.state # "Complete" /\ body.rest = "Nothing" => ended = "Error"
    /\ busy = None => buffer = <<>>

Init ==
    /\ source \in Sources
    /\ read = 0
    /\ body = Passthrough
    /\ busy = None
    /\ buffer = <<>>
    /\ checks = <<>>
    /\ cached = None
    /\ sent = <<>>
    /\ ended = "No"
    /\ lost = {}

-----------------------------------------------------------------------------
Left == Len(source.bytes) - read
Frame(n) == SubSeq(source.bytes, read + 1, read + n)
BytesOf(prefix) == IF prefix = None THEN <<>> ELSE prefix

HasPrefix(bytes, p) == Len(p) <= Len(bytes) /\ SubSeq(bytes, 1, Len(p)) = p
HasSuffix(bytes, p) ==
    Len(p) <= Len(bytes) /\ SubSeq(bytes, Len(bytes) - Len(p) + 1, Len(bytes)) = p
Occurs(p, bytes) ==      \* bytes.windows(p.len()).any(|w| w == p)
    \E i \in 0..Len(bytes) : i + Len(p) <= Len(bytes) /\ SubSeq(bytes, i + 1, i + Len(p)) = p

(* size_hint().upper(), None if the stream does not know.  A stream that    *)
(* fails has announced more than it yields.                                 *)
StreamUpper == IF source.hint THEN Left + (IF source.end = "Ok" THEN 0 ELSE 1) ELSE None

SizeUpper ==
    IF body.rest = "Body" /\ StreamUpper = None THEN None
    ELSE Len(BytesOf(body.prefix)) + (IF body.rest = "Body" THEN StreamUpper ELSE 0)

IsEndStreamOfRest ==      \* mutant: the prefix is not looked at
    /\ body.rest = "Body" => Left = 0 /\ source.end = "Ok"
    /\ body.rest # "Error"

IsEndStream ==
    /\ body.prefix = None
    /\ body.rest = "Body" => Left = 0 /\ source.end = "Ok"
    /\ body.rest # "Error"

-----------------------------------------------------------------------------
(* What an operation needs of the body: a number of bytes (collect_exact),  *)
(* the bytes up to a match (streaming_search) or all of them (collect).     *)
IsExact(op) == op.kind \in {"Limit", "Starts"}

WantedWithoutOne(op) == IF op.kind = "Limit" THEN op.bytes ELSE Len(op.pattern)  \* mutant

Wanted(op) == IF op.kind = "Limit" THEN op.bytes + 1 ELSE Len(op.pattern)

Enough(op, bytes) == IsExact(op) /\ Len(bytes) >= Wanted(op)

(* The verdict, from the bytes at hand and why no more were read. *)
Verdict(op, bytes, why) ==
    CASE op.kind = "Limit"    -> why = "Ok"
      [] op.kind = "Starts"   -> why = "Enough" /\ HasPrefix(bytes, op.pattern)
      [] op.kind = "Contains" -> Occurs(op.pattern, bytes)
      [] op.kind = "Eq"       -> why = "Ok" /\ bytes = op.pattern
      [] op.kind = "Ends"     -> why = "Ok" /\ HasSuffix(bytes, op.pattern)
      [] op.kind = "Extract"  -> TRUE
      [] op.kind = "Store"    -> why = "Ok"

(* The next operation may begin; a response is stored if it is cacheable.   *)
Cacheable == \A i \in 1..Len(checks) : checks[i].verdict

Ready(op) ==
    /\ busy = None /\ cached = None /\ sent = <<>> /\ ended = "No"
    /\ Len(checks) < MAX_CHECKS
    /\ op.kind = "Store" => Cacheable

Record(op, verdict) ==
    checks' = Append(checks, [op |-> op, verdict |-> verdict, after |-> lost])

(* An operation that needs nothing: an empty pattern, or a size hint above  *)
(* the limit.  The body is left as it is.                                   *)
Trivial(op) ==
    \/ op.kind \in {"Starts", "Contains"} /\ op.pattern = <<>>
    \/ op.kind = "Limit" /\ (IF SizeUpper = None THEN FALSE ELSE SizeUpper > op.bytes)

CheckTrivial(op) ==
    /\ Ready(op)
    /\ Trivial(op)
    /\ Record(op, op.kind # "Limit")
    /\ UNCHANGED <<source, read, body, busy, buffer, cached, sent, ended, lost>>

(* An operation for which the bytes in the body are enough, or all there is. *)
Buffered(op) == body.rest # "Body" \/ (body.prefix # None /\ Enough(op, BytesOf(body.prefix)))

CheckBuffered(op) ==
    LET bytes == BytesOf(body.prefix)
        why == IF body.prefix # None /\ Enough(op, bytes) THEN "Enough"
               ELSE IF body.rest = "Error" THEN "Error" ELSE "Ok"
    IN /\ Ready(op)
       /\ ~Trivial(op) /\ Buffered(op)
       /\ Record(op, Verdict(op, bytes, why))
       /\ body' = IF op.kind \in Collects /\ why = "Ok" THEN Complete(bytes) ELSE body
       /\ cached' = IF op.kind = "Store" /\ why = "Ok" THEN bytes ELSE None
       /\ UNCHANGED <<source, read, busy, buffer, sent, ended, lost>>

(* The others poll the stream, beginning with what the body has. *)
StartReading(op) ==
    /\ Ready(op)
    /\ ~Trivial(op) /\ ~Buffered(op)
    /\ busy' = op
    /\ buffer' = BytesOf(body.prefix)
    /\ UNCHANGED <<source, read, body, checks, cached, sent, ended, lost>>

Finish(verdict, newBody, loss) ==
    /\ Record(busy, verdict)
    /\ body' = newBody
    /\ busy' = None
    /\ buffer' = <<>>
    /\ lost' = lost \cup loss
    /\ UNCHANGED <<source, sent, ended>>

(* A search looks again at the end of what it had, where a match may begin. *)
SearchFrom ==
    LET overlap == Len(busy.pattern) - 1 IN
    IF Len(buffer) > overlap THEN Len(buffer) - overlap ELSE 0

(* A frame arrives. *)
Collected(n)  == buffer \o Frame(n)
FoundIn(n)    == /\ busy.kind = "Contains"
                 /\ Occurs(busy.pattern,
                           SubSeq(Collected(n), SearchFrom + 1, Len(Collected(n))))

ReadMore(n) ==
    /\ busy # None /\ n <= Left
    /\ ~FoundIn(n) /\ ~Enough(busy, Collected(n))
    /\ read' = read + n
    /\ buffer' = Collected(n)
    /\ UNCHANGED <<source, body, busy, checks, cached, sent, ended, lost>>

ReadEnoughDropsRest(n) ==      \* mutant: the stream is not kept
    /\ busy # None /\ n <= Left
    /\ Enough(busy, Collected(n))
    /\ read' = read + n
    /\ Finish(Verdict(busy, Collected(n), "Enough"), Complete(Collected(n)), {})
    /\ UNCHANGED cached

(* collect_exact() has the bytes it wants: they become the prefix.          *)
ReadEnough(n) ==
    /\ busy # None /\ n <= Left
    /\ Enough(busy, Collected(n))
    /\ read' = read + n
    /\ Finish(Verdict(busy, Collected(n), "Enough"), Partial(Collected(n), "Body"), {})
    /\ UNCHANGED cached

(* A search that finds its pattern takes what it has for the whole body.    *)
ReadMatch(n) ==
    /\ busy # None /\ n <= Left
    /\ FoundIn(n)
    /\ read' = read + n
    /\ Finish(TRUE, Complete(Collected(n)),
              IF n < Left \/ source.end = "Error" THEN {"match"} ELSE {})
    /\ UNCHANGED cached

ReadEnd ==
    /\ busy # None /\ Left = 0 /\ source.end = "Ok"
    /\ Finish(Verdict(busy, buffer, "Ok"),
              Complete(IF busy.kind \in Collects \/ buffer # <<>> THEN buffer ELSE body.prefix), {})
    /\ cached' = IF busy.kind = "Store" THEN buffer ELSE None
    /\ UNCHANGED read

(* collect() does not keep what it had read when the stream fails; the      *)
(* other two do.                                                            *)
ReadError ==
    /\ busy # None /\ Left = 0 /\ source.end = "Error"
    /\ Finish(Verdict(busy, buffer, "Error"),
              Partial(IF busy.kind \in Collects \/ buffer = <<>> THEN body.prefix ELSE buffer,
                      "Error"),
              IF busy.kind \in Collects /\ buffer # BytesOf(body.prefix) THEN {"error"} ELSE {})
    /\ UNCHANGED <<read, cached>>

-----------------------------------------------------------------------------
(* poll_frame(): the prefix first, then the stream or the error it ended    *)
(* with.                                                                    *)
Forwarding == busy = None /\ ended = "No"

ForwardPrefix ==
    /\ Forwarding /\ body.prefix # None
    /\ sent' = sent \o body.prefix
    /\ body' = [body EXCEPT !.prefix = None]
    /\ UNCHANGED <<source, read, busy, buffer, checks, cached, ended, lost>>

ForwardFrame(n) ==
    /\ Forwarding /\ body.prefix = None /\ body.rest = "Body"
    /\ n <= Left
    /\ sent' = sent \o Frame(n)
    /\ read' = read + n
    /\ UNCHANGED <<source, body, busy, buffer, checks, cached, ended, lost>>

ForwardEndSwallowsError ==      \* mutant: the stored error is not yielded
    /\ Forwarding /\ body.prefix = None
    /\ body.rest # "Body" \/ Left = 0
    /\ ended' = "Ok"
    /\ body' = IF body.rest = "Error" THEN [body EXCEPT !.rest = "Nothing"] ELSE body
    /\ UNCHANGED <<source, read, busy, buffer, checks, cached, sent, lost>>

ForwardEnd ==
    /\ Forwarding /\ body.prefix = None
    /\ \/ body.rest = "Nothing" /\ ended' = "Ok"
       \/ body.rest = "Error" /\ ended' = "Error"
       \/ body.rest = "Body" /\ Left = 0 /\ ended' = source.end
    /\ body' = IF body.rest = "Error" THEN [body EXCEPT !.rest = "Nothing"] ELSE body
    /\ UNCHANGED <<source, read, busy, buffer, checks, cached, sent, lost>>

-----------------------------------------------------------------------------
Check(op) == CheckTrivial(op) \/ CheckBuffered(op) \/ StartReading(op)

ReadStep == \/ \E n \in 1..Left : ReadMore(n) \/ ReadEnough(n) \/ ReadMatch(n)
            \/ ReadEnd
            \/ ReadError

Forward == ForwardPrefix \/ (\E n \in 1..Left : ForwardFrame(n)) \/ ForwardEnd

Next == (\E op \in Operations : Check(op)) \/ ReadStep \/ Forward

Spec == Init /\ [][Next]_vars

-----------------------------------------------------------------------------
(* Whoever reads the body after the predicates gets bytes of the stream in  *)
(* their order, none of them twice, and an error only if the stream failed. *)
ForwardedInOrder ==
    /\ HasPrefix(source.bytes, sent)
    /\ ended = "Error" => source.end = "Error"

(* What body.rs:21 promises, "Zero data loss or corruption", and errors "at *)
(* the same byte position": the body yields all of the stream and ends as   *)
(* it ended.                                                                *)
ForwardedWhole ==
    ended # "No" => sent = source.bytes /\ ended = source.end

(* The bytes are all forwarded however many predicates of whatever kind     *)
(* looked at the body and wherever its frames were cut - unless a Contains  *)
(* matched before the stream was at its end, or a collect() met its error.  *)
LossOnlyByMatchOrError == lost = {} => ForwardedWhole

(* What an operation should say of a stream, whatever its frames. *)
Reference(op) ==
    LET whole == source.end = "Ok" bytes == source.bytes IN
    CASE op.kind = "Limit"    -> whole /\ Len(bytes) <= op.bytes
      [] op.kind = "Starts"   -> HasPrefix(bytes, op.pattern)
      [] op.kind = "Contains" -> Occurs(op.pattern, bytes)
      [] op.kind = "Eq"       -> whole /\ bytes = op.pattern
      [] op.kind = "Ends"     -> whole /\ HasSuffix(bytes, op.pattern)
      [] op.kind = "Extract"  -> TRUE
      [] op.kind = "Store"    -> whole

(* A predicate's verdict is that of its definition on the whole body: it    *)
(* depends neither on where the frames were cut nor on which predicates and *)
(* extractors looked at the body before.                                    *)
VerdictsAreOfTheWholeBody ==
    \A i \in 1..Len(checks) :
        checks[i].after = {} => checks[i].verdict = Reference(checks[i].op)

(* A response is stored only with all of its bytes, and only if it arrived  *)
(* without an error.                                                        *)
CachedWhole ==
    cached # None /\ "match" \notin lost =>
        cached = source.bytes /\ source.end = "Ok"

(* A consumer that stops at is_end_stream() misses neither bytes nor the    *)
(* error.                                                                   *)
EndOfStreamIsTrue ==
    IsEndStream /\ lost = {} /\ busy = None =>
        sent = source.bytes /\ (source.end = "Error" => ended = "Error")

(* The bytes that are forwarded are those of the stream in their order, and *)
(* is_end_stream() is not true before they and the error have been sent.    *)
ForwardedTruly == ForwardedInOrder /\ EndOfStreamIsTrue

(* Nothing is missing where the body ends up: neither with the consumer,    *)
(* but for the two ways to lose bytes, nor in the store.                    *)
NothingIsMissing == LossOnlyByMatchOrError /\ CachedWhole
=============================================================================
