--------------------------- MODULE HttpBodyProofs ---------------------------
(***************************************************************************)
(* Proofs about HttpBody, for every set of streams and operations and any  *)
(* number of them on one body.                                             *)
(***************************************************************************)
EXTENDS HttpBody, SequenceTheorems, TLAPS

-----------------------------------------------------------------------------
(* Sequences of bytes. *)
LEMMA PrefixType ==
    ASSUME NEW s \in Bytes, NEW n \in 0..Len(s)
    PROVE  /\ SubSeq(s, 1, n) \in Bytes
           /\ Len(SubSeq(s, 1, n)) = n
           /\ HasPrefix(s, SubSeq(s, 1, n))
  BY DEF Bytes, HasPrefix

LEMMA FrameType ==
    ASSUME NEW s \in Bytes, NEW n \in 0..Len(s), NEW m \in 0..Len(s) - n
    PROVE  SubSeq(s, n + 1, n + m) \in Bytes /\ Len(SubSeq(s, n + 1, n + m)) = m
  BY DEF Bytes

(* Bytes read in order make up a prefix again. *)
LEMMA PrefixGrows ==
    ASSUME NEW s \in Bytes, NEW n \in 0..Len(s), NEW m \in 0..Len(s) - n
    PROVE  SubSeq(s, 1, n) \o SubSeq(s, n + 1, n + m) = SubSeq(s, 1, n + m)
  BY ConcatAdjacentSubSeq DEF Bytes

LEMMA WholePrefix == ASSUME NEW s \in Bytes PROVE SubSeq(s, 1, Len(s)) = s
  BY SubSeqFull DEF Bytes

LEMMA NothingAdded ==
    ASSUME NEW s \in Bytes
    PROVE  /\ <<>> \in Bytes /\ s \o <<>> = s /\ <<>> \o s = s
           /\ (Len(s) = 0 => s = <<>>) /\ SubSeq(s, 1, 0) = <<>>
           /\ HasPrefix(s, <<>>)
  BY ConcatEmptySeq, EmptySeq DEF Bytes, HasPrefix

LEMMA PartOfPrefix ==
    ASSUME NEW s \in Bytes, NEW a \in Bytes, NEW b \in Bytes, HasPrefix(s, a \o b)
    PROVE  HasPrefix(s, a)
<1>1. /\ Len(a) \in Nat /\ Len(a) <= Len(a \o b) /\ Len(a \o b) <= Len(s)
      /\ SubSeq(s, 1, Len(a \o b)) = a \o b
  BY DEF Bytes, HasPrefix
<1>2. CASE a = <<>>
  BY <1>2, NothingAdded
<1>3. CASE a # <<>>
  <2>1. Len(a) \in 1..Len(a \o b) /\ Len(a \o b) \in 1..Len(s)
    BY <1>1, <1>3, NothingAdded DEF Bytes
  <2>2. SubSeq(SubSeq(s, 1, Len(a \o b)), 1, Len(a)) = SubSeq(s, 1, Len(a))
    BY <2>1, SubSeqOfSubSeq DEF Bytes
  <2>3. SubSeq(a \o b, 1, Len(a)) = SubSeq(a, 1, Len(a))
    BY <2>1, SubSeqOfConcat1 DEF Bytes
  <2>4. QED
    BY <1>1, <2>1, <2>2, <2>3, WholePrefix DEF HasPrefix
<1>4. QED
  BY <1>2, <1>3

(* A pattern at the beginning, or anywhere, of what has been read. *)
LEMMA PrefixOfPrefix ==
    ASSUME NEW s \in Bytes, NEW n \in 0..Len(s), NEW p \in Bytes, p # <<>>, Len(p) <= n
    PROVE  HasPrefix(SubSeq(s, 1, n), p) <=> HasPrefix(s, p)
<1>1. Len(p) \in 1..n /\ n \in 1..Len(s)
  BY NothingAdded DEF Bytes
<1>2. SubSeq(SubSeq(s, 1, n), 1, Len(p)) = SubSeq(s, 1, Len(p))
  BY <1>1, SubSeqOfSubSeq DEF Bytes
<1>3. QED
  BY <1>1, <1>2, PrefixType DEF HasPrefix

LEMMA OccursInPart ==
    ASSUME NEW s \in Bytes, NEW n \in 0..Len(s), NEW j \in 0..n, NEW p \in Bytes, p # <<>>,
           Occurs(p, SubSeq(SubSeq(s, 1, n), j + 1, n))
    PROVE  Occurs(p, s)
<1> DEFINE whole == SubSeq(s, 1, n)
           part == SubSeq(whole, j + 1, n)
<1>1. Len(p) \in Nat /\ Len(p) >= 1
  BY NothingAdded DEF Bytes
<1>2. whole \in Bytes /\ Len(whole) = n
  BY PrefixType
<1>3. part \in Bytes /\ Len(part) = n - j
  BY <1>2 DEF Bytes
<1>4. PICK i \in 0..Len(part) : i + Len(p) <= Len(part) /\ SubSeq(part, i + 1, i + Len(p)) = p
  BY DEF Occurs
<1>5. SubSeq(part, i + 1, i + Len(p)) = SubSeq(whole, j + i + 1, j + i + Len(p))
  <2>1. /\ j + 1 \in 1..Len(whole) /\ n \in 1..Len(whole)
        /\ i + 1 \in 1..n - (j + 1) + 1 /\ i + Len(p) \in 1..n - (j + 1) + 1
    BY <1>1, <1>2, <1>3, <1>4
  <2>2. SubSeq(part, i + 1, i + Len(p))
            = SubSeq(whole, (j + 1) + (i + 1) - 1, (j + 1) + (i + Len(p)) - 1)
    BY <1>2, <2>1, SubSeqOfSubSeq DEF Bytes
  <2>3. (j + 1) + (i + 1) - 1 = j + i + 1 /\ (j + 1) + (i + Len(p)) - 1 = j + i + Len(p)
    BY <1>1, <1>3
  <2>4. QED
    BY <2>2, <2>3
<1>6. SubSeq(whole, j + i + 1, j + i + Len(p)) = SubSeq(s, j + i + 1, j + i + Len(p))
  <2>1. /\ 1 \in 1..Len(s) /\ n \in 1..Len(s)
        /\ j + i + 1 \in 1..n - 1 + 1 /\ j + i + Len(p) \in 1..n - 1 + 1
    BY <1>1, <1>3, <1>4 DEF Bytes
  <2>2. SubSeq(whole, j + i + 1, j + i + Len(p))
            = SubSeq(s, 1 + (j + i + 1) - 1, 1 + (j + i + Len(p)) - 1)
    BY <2>1, SubSeqOfSubSeq DEF Bytes
  <2>3. /\ 1 + (j + i + 1) - 1 = j + i + 1
        /\ 1 + (j + i + Len(p)) - 1 = j + i + Len(p)
    BY <1>1, <1>3
  <2>4. QED
    BY <2>2, <2>3
<1>7. j + i \in 0..Len(s) /\ j + i + Len(p) <= Len(s)
  BY <1>1, <1>3, <1>4 DEF Bytes
<1>8. QED
  BY <1>4, <1>5, <1>6, <1>7 DEF Occurs

-----------------------------------------------------------------------------
(* Verdicts.  Why an operation stopped reading says what it has got: enough *)
(* for it, or all of the stream.                                            *)
ReadPrefix(n) == SubSeq(source.bytes, 1, n)

LEMMA VerdictFact ==
    ASSUME source \in Source, NEW op \in Operation, NEW n \in 0..Len(source.bytes), NEW why,
           op.kind \in {"Starts", "Contains"} => op.pattern # <<>>,
           \/ why = "Enough" /\ Enough(op, ReadPrefix(n))
           \/ /\ why = source.end /\ n = Len(source.bytes)
              /\ ~Enough(op, source.bytes)
    PROVE  Verdict(op, ReadPrefix(n), why) <=> Reference(op)
<1>1. /\ source.bytes \in Bytes /\ op.pattern \in Bytes /\ op.bytes \in Nat /\ op.kind \in Kinds
      /\ source.end \in {"Ok", "Error"}
  BY DEF Source, Operation, Bytes
<1>2. Len(source.bytes) \in Nat /\ Len(op.pattern) \in Nat
  BY <1>1 DEF Bytes
<1>3. ReadPrefix(n) \in Bytes /\ Len(ReadPrefix(n)) = n
  BY <1>1, PrefixType DEF ReadPrefix
<1>4. n = Len(source.bytes) => ReadPrefix(n) = source.bytes
  BY <1>1, WholePrefix DEF ReadPrefix
<1>5. CASE op.kind = "Limit"
  BY <1>1, <1>2, <1>3, <1>5 DEF Verdict, Reference, Enough, IsExact, Wanted
<1>6. CASE op.kind = "Starts"
  <2>1. CASE why = "Enough"
    <3>1. Len(op.pattern) <= n
      BY <1>1, <1>2, <1>3, <1>6, <2>1 DEF Enough, IsExact, Wanted
    <3>2. HasPrefix(ReadPrefix(n), op.pattern) <=> HasPrefix(source.bytes, op.pattern)
      BY <1>1, <1>6, <3>1, PrefixOfPrefix DEF ReadPrefix
    <3>3. QED
      BY <1>6, <2>1, <3>2 DEF Verdict, Reference
  <2>2. CASE why # "Enough"
    <3>1. ~HasPrefix(source.bytes, op.pattern)
      BY <1>2, <1>6, <2>2 DEF HasPrefix, Enough, IsExact, Wanted
    <3>2. QED
      BY <1>6, <2>2, <3>1 DEF Verdict, Reference
  <2>3. QED
    BY <2>1, <2>2
<1>7. CASE op.kind \notin {"Limit", "Starts"}
  <2>1. why = source.end /\ ReadPrefix(n) = source.bytes
    BY <1>4, <1>7 DEF Enough, IsExact
  <2>2. QED
    BY <1>1, <1>7, <2>1 DEF Verdict, Reference, Kinds, Collects
<1>8. QED
  BY <1>5, <1>6, <1>7

LEMMA VerdictType ==
    ASSUME NEW op \in Operation, NEW bytes, NEW why
    PROVE  Verdict(op, bytes, why) \in BOOLEAN /\ Reference(op) \in BOOLEAN
  BY DEF Verdict, Reference, Operation, Kinds, Collects, HasPrefix, HasSuffix, Occurs

(* An operation that needs no byte of the body. *)
LEMMA TrivialFact ==
    ASSUME source \in Source, NEW op \in Operation,
           op.kind \in {"Starts", "Contains"} /\ op.pattern = <<>>
    PROVE  Reference(op)
<1>1. source.bytes \in Bytes /\ Len(<<>>) = 0 /\ Len(source.bytes) \in Nat
  BY EmptySeq DEF Source, Bytes
<1>2. SubSeq(source.bytes, 1, 0) = <<>> /\ SubSeq(source.bytes, 0 + 1, 0 + 0) = <<>>
  BY <1>1, NothingAdded
<1>3. HasPrefix(source.bytes, <<>>) /\ Occurs(<<>>, source.bytes)
  BY <1>1, <1>2 DEF HasPrefix, Occurs
<1>4. QED
  BY <1>3 DEF Reference

-----------------------------------------------------------------------------
(* While an operation reads, nobody has got anything of the body, and the   *)
(* buffer has all that was taken from the stream.                           *)
Reading ==
    busy # None =>
        /\ sent = <<>> /\ ended = "No" /\ cached = None /\ body.rest = "Body"
        /\ buffer = ReadPrefix(read) /\ HasPrefix(source.bytes, BytesOf(body.prefix))
        /\ ~Enough(busy, buffer)
        /\ busy.kind \in {"Starts", "Contains"} => busy.pattern # <<>>

(* Between operations, what was sent and what is to be sent before the rest *)
(* of the stream make up what was taken from the stream.                    *)
Accounted ==
    busy = None =>
        /\ HasPrefix(source.bytes, sent \o BytesOf(body.prefix))
        /\ "error" \notin lost => sent \o BytesOf(body.prefix) = ReadPrefix(read)

(* What the body says of the rest of the stream. *)
AtEnd == read = Len(source.bytes)

RestKnown ==
    /\ body.rest = "Body" => lost = {}
    /\ body.rest = "Error" =>
           AtEnd /\ source.end = "Error" /\ "match" \notin lost /\ ended = "No"
    /\ body.rest = "Nothing" /\ ended = "Error" =>
           AtEnd /\ source.end = "Error" /\ "match" \notin lost
    /\ body.rest = "Nothing" /\ ended # "Error" =>
           "error" \notin lost /\ ("match" \notin lost => AtEnd /\ source.end = "Ok")

EndKnown ==
    ended # "No" =>
        /\ busy = None /\ body.prefix = None /\ body.rest # "Error"
        /\ ended = "Error" => source.end = "Error"
        /\ lost = {} => sent = source.bytes /\ ended = source.end

(* The inductive invariant. *)
IInv ==
    /\ TypeOK
    /\ Reading
    /\ Accounted
    /\ RestKnown
    /\ EndKnown
    /\ VerdictsAreOfTheWholeBody
    /\ CachedWhole

LEMMA SourceFact ==
    ASSUME TypeOK
    PROVE  /\ source \in Source /\ source.bytes \in Bytes /\ source.end \in {"Ok", "Error"}
           /\ Len(source.bytes) \in Nat /\ read \in 0..Len(source.bytes) /\ Left \in Nat
           /\ body.prefix \in Bytes \cup {None} /\ BytesOf(body.prefix) \in Bytes
           /\ \A op \in Operations : op \in Operation /\ op # None
           /\ ReadPrefix(read) \in Bytes
<1>1. source \in Source /\ \A op \in Operations : op \in Operation /\ op # None
  BY HttpBodyAssumption DEF TypeOK
<1>2. source.bytes \in Bytes /\ source.end \in {"Ok", "Error"} /\ Len(source.bytes) \in Nat
  BY <1>1 DEF Source, Bytes
<1>3. read \in 0..Len(source.bytes) /\ Left \in Nat
  BY <1>2 DEF TypeOK, Left
<1>4. body.prefix \in Bytes \cup {None} /\ BytesOf(body.prefix) \in Bytes
  BY EmptySeq DEF TypeOK, Bodies, BytesOf, Bytes
<1>5. QED
  BY <1>1, <1>2, <1>3, <1>4, PrefixType DEF ReadPrefix

Checks == Seq([op : Operations, verdict : BOOLEAN, after : SUBSET {"match", "error"}])

(* A verdict is recorded that is right unless bytes had been lost. *)
LEMMA RecordFact ==
    ASSUME TypeOK, VerdictsAreOfTheWholeBody, NEW op \in Operations,
           NEW verdict \in BOOLEAN, Record(op, verdict), source' = source,
           lost = {} => verdict = Reference(op)
    PROVE  checks' \in Checks /\ VerdictsAreOfTheWholeBody'
<1> DEFINE check == [op |-> op, verdict |-> verdict, after |-> lost]
<1>1. /\ checks \in Checks
      /\ check \in [op : Operations, verdict : BOOLEAN, after : SUBSET {"match", "error"}]
      /\ check.op = op /\ check.verdict = verdict /\ check.after = lost
      /\ checks' = Append(checks, check)
  BY DEF TypeOK, Checks, Record
<1> HIDE DEF check
<1>2. checks' \in Checks /\ Len(checks') = Len(checks) + 1 /\ Len(checks) \in Nat
  BY <1>1 DEF Checks
<1>3. \A i \in 1..Len(checks) : checks'[i] = checks[i]
  BY <1>1 DEF Checks
<1>4. checks'[Len(checks) + 1] = check
  BY <1>1 DEF Checks
<1>5. \A o : Reference(o)' = Reference(o)
  BY DEF Reference, HasPrefix, HasSuffix, Occurs
<1>6. VerdictsAreOfTheWholeBody'
  <2> SUFFICES ASSUME NEW i \in 1..Len(checks'), checks'[i].after = {}
               PROVE  checks'[i].verdict = Reference(checks[i].op)'
    BY DEF VerdictsAreOfTheWholeBody
  <2>1. CASE i \in 1..Len(checks)
    <3>1. checks[i].after = {} /\ checks'[i] = checks[i]
      BY <1>3, <2>1
    <3>2. checks[i].verdict = Reference(checks[i].op)
      BY <2>1, <3>1 DEF VerdictsAreOfTheWholeBody
    <3>3. QED
      BY <1>5, <3>1, <3>2
  <2>2. CASE i = Len(checks) + 1
    <3>1. checks'[i] = check /\ lost = {}
      BY <1>1, <1>4, <2>2
    <3>2. check.op = op /\ check.verdict = Reference(op)
      BY <1>1, <3>1
    <3>3. QED
      BY <1>5, <3>1, <3>2
  <2>3. QED
    BY <1>2, <2>1, <2>2
<1>7. QED
  BY <1>2, <1>6

LEMMA InitIInv == Init => IInv
<1> SUFFICES ASSUME Init
             PROVE  IInv
  OBVIOUS
<1>1. source \in Source /\ source.bytes \in Bytes /\ Len(source.bytes) \in Nat
  BY HttpBodyAssumption DEF Init, Source, Bytes
<1>2. TypeOK
  BY <1>1, EmptySeq DEF Init, TypeOK, Passthrough, Bodies, Bytes
<1>3. Accounted
  BY <1>1, NothingAdded DEF Init, Accounted, Passthrough, BytesOf, ReadPrefix
<1>4. Reading /\ RestKnown /\ EndKnown /\ CachedWhole
  BY DEF Init, Reading, RestKnown, EndKnown, CachedWhole, Passthrough
<1>5. VerdictsAreOfTheWholeBody
  BY DEF Init, VerdictsAreOfTheWholeBody
<1>6. QED
  BY <1>2, <1>3, <1>4, <1>5 DEF IInv

-----------------------------------------------------------------------------
(* When an operation begins, the body has what was taken from the stream.   *)
LEMMA ReadyFact ==
    ASSUME IInv, NEW op \in Operations, Ready(op)
    PROVE  /\ busy = None /\ sent = <<>> /\ ended = "No" /\ cached = None
           /\ HasPrefix(source.bytes, BytesOf(body.prefix))
           /\ "error" \notin lost => BytesOf(body.prefix) = ReadPrefix(read)
           /\ body.rest # "Body" /\ lost = {} => AtEnd /\ BytesOf(body.prefix) = source.bytes
<1>1. /\ busy = None /\ sent = <<>> /\ ended = "No" /\ cached = None
      /\ sent \o BytesOf(body.prefix) = BytesOf(body.prefix)
  BY SourceFact, NothingAdded DEF Ready, IInv
<1>2. /\ HasPrefix(source.bytes, BytesOf(body.prefix))
      /\ "error" \notin lost => BytesOf(body.prefix) = ReadPrefix(read)
  BY <1>1 DEF IInv, Accounted
<1>3. body.rest # "Body" /\ lost = {} => AtEnd
  BY <1>1 DEF IInv, RestKnown, TypeOK, Bodies
<1>4. AtEnd => ReadPrefix(read) = source.bytes
  BY SourceFact, WholePrefix DEF IInv, AtEnd, ReadPrefix
<1>5. QED
  BY <1>1, <1>2, <1>3, <1>4

LEMMA CheckTrivialIInv ==
    ASSUME IInv, NEW op \in Operations, CheckTrivial(op)
    PROVE  IInv'
<1>1. UNCHANGED <<source, read, body, busy, buffer, cached, sent, ended, lost>>
  BY DEF CheckTrivial
<1>2. op \in Operation /\ source \in Source
  BY SourceFact DEF IInv
<1>3. ASSUME lost = {}
      PROVE  (op.kind # "Limit") = Reference(op)
  <2>1. CASE op.kind = "Limit"
    <3>1. SizeUpper # None /\ SizeUpper > op.bytes
      BY <2>1 DEF CheckTrivial, Trivial
    <3>2. BytesOf(body.prefix) = ReadPrefix(read) /\ Len(BytesOf(body.prefix)) = read
      BY <1>3, ReadyFact, SourceFact, PrefixType DEF CheckTrivial, IInv, ReadPrefix
    <3>3. op.bytes \in Nat /\ Len(source.bytes) \in Nat
          /\ read \in 0..Len(source.bytes) /\ source.end \in {"Ok", "Error"}
      BY <1>2, SourceFact DEF IInv, Operation
    <3>4. source.end = "Ok" => Len(source.bytes) > op.bytes
      <4>1. CASE body.rest = "Body"
        BY <3>1, <3>2, <3>3, <4>1 DEF SizeUpper, StreamUpper, Left
      <4>2. CASE body.rest # "Body"
        BY <1>3, <3>1, <3>2, <3>3, <4>2, ReadyFact DEF SizeUpper, CheckTrivial, AtEnd
      <4>3. QED
        BY <4>1, <4>2
    <3>5. Reference(op) = FALSE
      BY <2>1, <3>3, <3>4 DEF Reference
    <3>6. QED
      BY <2>1, <3>5
  <2>2. CASE op.kind # "Limit"
    <3>1. Reference(op) = TRUE
      BY <1>2, <2>2, TrivialFact, VerdictType DEF CheckTrivial, Trivial
    <3>2. QED
      BY <2>2, <3>1
  <2>3. QED
    BY <2>1, <2>2
<1>4. checks' \in Checks /\ VerdictsAreOfTheWholeBody'
  BY <1>1, <1>3, RecordFact DEF IInv, CheckTrivial
<1>5. TypeOK'
  BY <1>1, <1>4 DEF IInv, TypeOK, Checks
<1>6. Reading' /\ Accounted' /\ RestKnown' /\ EndKnown' /\ CachedWhole'
  BY <1>1 DEF IInv, Reading, Accounted, RestKnown, EndKnown, CachedWhole, ReadPrefix, AtEnd,
              BytesOf, HasPrefix, Enough, IsExact, Wanted
<1>7. QED
  BY <1>4, <1>5, <1>6 DEF IInv

LEMMA CheckBufferedIInv ==
    ASSUME IInv, NEW op \in Operations, CheckBuffered(op)
    PROVE  IInv'
<1> DEFINE bytes == BytesOf(body.prefix)
           why == IF body.prefix # None /\ Enough(op, bytes) THEN "Enough"
                  ELSE IF body.rest = "Error" THEN "Error" ELSE "Ok"
<1>1. /\ Ready(op) /\ ~Trivial(op) /\ Buffered(op) /\ Record(op, Verdict(op, bytes, why))
      /\ body' = IF op.kind \in Collects /\ why = "Ok" THEN Complete(bytes) ELSE body
      /\ cached' = IF op.kind = "Store" /\ why = "Ok" THEN bytes ELSE None
      /\ UNCHANGED <<source, read, busy, buffer, sent, ended, lost>>
  BY DEF CheckBuffered
<1>2. op \in Operation /\ source \in Source /\ bytes \in Bytes
  BY SourceFact DEF IInv
<1>3. /\ busy = None /\ sent = <<>> /\ ended = "No" /\ cached = None
      /\ HasPrefix(source.bytes, bytes)
      /\ "error" \notin lost => bytes = ReadPrefix(read)
      /\ body.rest # "Body" /\ lost = {} => AtEnd /\ bytes = source.bytes
  BY <1>1, ReadyFact
<1>4. why = "Ok" => body.rest = "Nothing"
  BY <1>1 DEF Buffered, IInv, TypeOK, Bodies
<1>5. op.kind \in {"Starts", "Contains"} => op.pattern # <<>>
  BY <1>1 DEF Trivial
<1>6. body.prefix = None => ~Enough(op, bytes)
  <2>1. op.kind = "Starts" => Len(op.pattern) # 0 /\ Len(op.pattern) \in Nat
    BY <1>2, <1>5, NothingAdded DEF Operation, Bytes
  <2>2. QED
    BY <1>2, <2>1 DEF BytesOf, Enough, IsExact, Wanted, Operation
<1>7. ASSUME lost = {}
      PROVE  Verdict(op, bytes, why) = Reference(op)
  <2>1. read \in 0..Len(source.bytes) /\ source.end \in {"Ok", "Error"}
    BY SourceFact DEF IInv
  <2>2. bytes = ReadPrefix(read)
    BY <1>3, <1>7
  <2>3. why = "Enough" => Enough(op, bytes)
    OBVIOUS
  <2>4. why # "Enough" => AtEnd /\ bytes = source.bytes /\ ~Enough(op, bytes) /\ why = source.end
    <3>1. why # "Enough" => body.rest # "Body" /\ ~Enough(op, bytes)
      BY <1>1, <1>6 DEF Buffered
    <3>2. body.rest # "Body" =>
              source.end = (IF body.rest = "Error" THEN "Error" ELSE "Ok")
      BY <1>3, <1>7 DEF IInv, RestKnown, TypeOK, Bodies
    <3>3. QED
      BY <1>3, <1>7, <3>1, <3>2
  <2> HIDE DEF bytes, why
  <2>5. Verdict(op, ReadPrefix(read), why) <=> Reference(op)
    BY <1>2, <1>5, <2>1, <2>2, <2>3, <2>4, VerdictFact DEF AtEnd
  <2>6. QED
    BY <1>2, <2>2, <2>5, VerdictType
<1> HIDE DEF bytes, why
<1>8. checks' \in Checks /\ VerdictsAreOfTheWholeBody'
  BY <1>1, <1>2, <1>7, RecordFact, VerdictType DEF IInv
<1>9. body' = body \/ (why = "Ok" /\ body' = Complete(bytes))
  BY <1>1
<1>10. BytesOf(body'.prefix) = bytes /\ body'.rest = body.rest
  <2>1. bytes # None
    BY <1>2, HttpBodyAssumption DEF Bytes
  <2>2. QED
    BY <1>4, <1>9, <2>1 DEF Complete, BytesOf, bytes
<1>11. TypeOK'
  <2>1. Complete(bytes) \in Bodies /\ Complete(bytes).state = "Complete"
    BY <1>2 DEF Complete, Bodies
  <2>2. QED
    BY <1>1, <1>2, <1>8, <1>9, <2>1 DEF IInv, TypeOK, Checks
<1>12. Reading' /\ EndKnown'
  BY <1>1, <1>3 DEF Reading, EndKnown
<1>13. Accounted' /\ RestKnown'
  BY <1>1, <1>10 DEF IInv, Accounted, RestKnown, ReadPrefix, AtEnd, bytes, HasPrefix
<1>14. CachedWhole'
  <2> SUFFICES ASSUME cached' # None, "match" \notin lost
               PROVE  cached' = source.bytes /\ source.end = "Ok"
    BY <1>1 DEF CachedWhole
  <2>1. why = "Ok" /\ cached' = bytes /\ body.rest = "Nothing"
    BY <1>1, <1>4
  <2>2. lost = {} /\ source.end = "Ok"
    BY <1>3, <2>1 DEF IInv, RestKnown, TypeOK
  <2>3. QED
    BY <1>3, <2>1, <2>2
<1>15. QED
  BY <1>8, <1>11, <1>12, <1>13, <1>14 DEF IInv

LEMMA StartReadingIInv ==
    ASSUME IInv, NEW op \in Operations, StartReading(op)
    PROVE  IInv'
<1>1. /\ Ready(op) /\ ~Trivial(op) /\ ~Buffered(op)
      /\ busy' = op /\ buffer' = BytesOf(body.prefix)
      /\ UNCHANGED <<source, read, body, checks, cached, sent, ended, lost>>
  BY DEF StartReading
<1>2. op \in Operation /\ op # None /\ BytesOf(body.prefix) \in Bytes
  BY SourceFact DEF IInv
<1>3. body.rest = "Body" /\ lost = {}
  BY <1>1 DEF Buffered, IInv, RestKnown
<1>4. op.kind \in {"Starts", "Contains"} => op.pattern # <<>>
  BY <1>1 DEF Trivial
<1>5. ~Enough(op, BytesOf(body.prefix))
  <2>1. op.kind = "Starts" => Len(op.pattern) # 0 /\ Len(op.pattern) \in Nat
    BY <1>2, <1>4, NothingAdded DEF Operation, Bytes
  <2>2. QED
    BY <1>1, <1>2, <2>1 DEF BytesOf, Enough, IsExact, Wanted, Operation, Buffered
<1>6. TypeOK'
  BY <1>1, <1>2 DEF IInv, TypeOK
<1>7. Reading'
  <2>1. /\ sent = <<>> /\ ended = "No" /\ cached = None
        /\ HasPrefix(source.bytes, BytesOf(body.prefix))
        /\ BytesOf(body.prefix) = ReadPrefix(read)
    BY <1>1, <1>3, ReadyFact
  <2>2. HasPrefix(source.bytes, BytesOf(body.prefix))' /\ ReadPrefix(read)' = ReadPrefix(read)
    BY <1>1, <2>1 DEF HasPrefix, BytesOf, ReadPrefix
  <2>3. ~Enough(op, buffer)'
    BY <1>1, <1>5 DEF Enough, IsExact, Wanted
  <2>4. QED
    BY <1>1, <1>3, <1>4, <2>1, <2>2, <2>3 DEF Reading
<1>8. Accounted' /\ RestKnown' /\ CachedWhole'
  BY <1>1, <1>2 DEF IInv, Accounted, RestKnown, CachedWhole, AtEnd
<1>9. EndKnown'
  BY <1>1 DEF EndKnown, Ready
<1>10. VerdictsAreOfTheWholeBody'
  BY <1>1 DEF IInv, VerdictsAreOfTheWholeBody, Reference, HasPrefix, HasSuffix, Occurs
<1>11. QED
  BY <1>6, <1>7, <1>8, <1>9, <1>10 DEF IInv

-----------------------------------------------------------------------------
(* A frame that arrives extends the prefix that was read. *)
LEMMA FrameFact ==
    ASSUME IInv, busy # None, NEW n \in 1..Left
    PROVE  /\ read + n \in 0..Len(source.bytes)
           /\ Collected(n) = ReadPrefix(read + n) /\ Collected(n) \in Bytes
           /\ Len(Collected(n)) = read + n /\ HasPrefix(source.bytes, Collected(n))
           /\ n = Left <=> read + n = Len(source.bytes)
<1>1. source.bytes \in Bytes /\ Len(source.bytes) \in Nat /\ read \in 0..Len(source.bytes)
  BY SourceFact DEF IInv
<1>2. n \in 0..Len(source.bytes) - read /\ read + n \in 0..Len(source.bytes)
  BY <1>1 DEF Left
<1>3. Collected(n) = ReadPrefix(read + n)
  BY <1>1, <1>2, PrefixGrows DEF IInv, Reading, Collected, Frame, ReadPrefix
<1>4. QED
  BY <1>1, <1>2, <1>3, PrefixType DEF ReadPrefix, Left

LEMMA ReadMoreIInv ==
    ASSUME IInv, NEW n \in 1..Left, ReadMore(n)
    PROVE  IInv'
<1>1. /\ busy # None /\ read' = read + n /\ buffer' = Collected(n)
      /\ ~Enough(busy, Collected(n))
      /\ UNCHANGED <<source, body, busy, checks, cached, sent, ended, lost>>
  BY DEF ReadMore
<1>2. /\ read + n \in 0..Len(source.bytes)
      /\ Collected(n) = ReadPrefix(read + n) /\ Collected(n) \in Bytes
  BY <1>1, FrameFact
<1>3. TypeOK'
  BY <1>1, <1>2 DEF IInv, TypeOK
<1>4. Reading'
  BY <1>1, <1>2 DEF IInv, Reading, ReadPrefix, HasPrefix, BytesOf, Enough, IsExact, Wanted
<1>5. Accounted' /\ EndKnown' /\ RestKnown' /\ CachedWhole'
  BY <1>1 DEF IInv, Reading, Accounted, EndKnown, RestKnown, CachedWhole, AtEnd
<1>6. VerdictsAreOfTheWholeBody'
  BY <1>1 DEF IInv, VerdictsAreOfTheWholeBody, Reference, HasPrefix, HasSuffix, Occurs
<1>7. QED
  BY <1>3, <1>4, <1>5, <1>6 DEF IInv

(* What the end of an operation has to show: a right verdict, and a body    *)
(* that accounts for what was read.                                         *)
LEMMA FinishIInv ==
    ASSUME IInv, busy # None, NEW verdict \in BOOLEAN, NEW newBody \in Bodies,
           NEW loss \in SUBSET {"match", "error"}, Finish(verdict, newBody, loss),
           verdict = Reference(busy),
           read' \in 0..Len(source.bytes),
           newBody.rest = "Nothing" => newBody.state = "Complete",
           HasPrefix(source.bytes, BytesOf(newBody.prefix)),
           "error" \notin loss => BytesOf(newBody.prefix) = SubSeq(source.bytes, 1, read'),
           newBody.rest = "Body" => loss = {},
           newBody.rest = "Error" =>
               read' = Len(source.bytes) /\ source.end = "Error" /\ "match" \notin loss,
           newBody.rest = "Nothing" =>
               /\ "error" \notin loss
               /\ "match" \notin loss => read' = Len(source.bytes) /\ source.end = "Ok",
           cached' = None \/ (cached' = source.bytes /\ source.end = "Ok")
    PROVE  IInv'
<1>1. /\ sent = <<>> /\ ended = "No" /\ lost = {}
  BY DEF IInv, Reading, RestKnown
<1>2. /\ body' = newBody /\ busy' = None /\ buffer' = <<>> /\ lost' = loss
      /\ UNCHANGED <<source, sent, ended>> /\ Record(busy, verdict)
  BY <1>1 DEF Finish
<1>3. busy \in Operations /\ source.bytes \in Bytes
  BY SourceFact DEF IInv, TypeOK
<1>4. checks' \in Checks /\ VerdictsAreOfTheWholeBody'
  BY <1>2, <1>3, RecordFact DEF IInv
<1>5. BytesOf(newBody.prefix) \in Bytes /\ <<>> \in Bytes
  BY EmptySeq DEF BytesOf, Bodies, Bytes
<1>6. TypeOK'
  BY <1>1, <1>2, <1>3, <1>4, <1>5 DEF IInv, TypeOK, Checks
<1>7. Accounted'
  <2>1. sent \o BytesOf(newBody.prefix) = BytesOf(newBody.prefix)
    BY <1>1, <1>5, NothingAdded
  <2>2. QED
    BY <1>2, <2>1 DEF Accounted, BytesOf, HasPrefix, ReadPrefix
<1>8. RestKnown'
  BY <1>1, <1>2 DEF RestKnown, AtEnd, Bodies
<1>9. Reading' /\ EndKnown' /\ CachedWhole'
  BY <1>1, <1>2 DEF Reading, EndKnown, CachedWhole
<1>10. QED
  BY <1>4, <1>6, <1>7, <1>8, <1>9 DEF IInv

LEMMA ReadEnoughIInv ==
    ASSUME IInv, NEW n \in 1..Left, ReadEnough(n)
    PROVE  IInv'
<1>1. /\ busy # None /\ Enough(busy, Collected(n)) /\ read' = read + n /\ cached' = cached
      /\ Finish(Verdict(busy, Collected(n), "Enough"), Partial(Collected(n), "Body"), {})
  BY DEF ReadEnough
<1>2. /\ read + n \in 0..Len(source.bytes)
      /\ Collected(n) = ReadPrefix(read + n) /\ Collected(n) \in Bytes
      /\ HasPrefix(source.bytes, Collected(n))
  BY <1>1, FrameFact
<1>3. busy \in Operation /\ source \in Source
  BY <1>1, SourceFact DEF IInv, TypeOK
<1>4. Verdict(busy, Collected(n), "Enough") = Reference(busy)
  <2>1. Verdict(busy, ReadPrefix(read + n), "Enough") <=> Reference(busy)
    BY <1>1, <1>2, <1>3, VerdictFact DEF IInv, Reading
  <2>2. QED
    BY <1>2, <1>3, <2>1, VerdictType
<1>5. /\ Partial(Collected(n), "Body") \in Bodies
      /\ Partial(Collected(n), "Body").rest = "Body"
      /\ BytesOf(Partial(Collected(n), "Body").prefix) = Collected(n)
  BY <1>2, HttpBodyAssumption DEF Partial, Bodies, BytesOf, Bytes
<1>6. cached' = None
  BY <1>1 DEF IInv, Reading
<1>7. QED
  BY <1>1, <1>2, <1>3, <1>4, <1>5, <1>6, FinishIInv, VerdictType DEF ReadPrefix

LEMMA ReadMatchIInv ==
    ASSUME IInv, NEW n \in 1..Left, ReadMatch(n)
    PROVE  IInv'
<1> DEFINE loss == IF n < Left \/ source.end = "Error" THEN {"match"} ELSE {}
<1>1. /\ busy # None /\ FoundIn(n) /\ read' = read + n /\ cached' = cached
      /\ Finish(TRUE, Complete(Collected(n)), loss)
  BY DEF ReadMatch
<1>2. /\ read + n \in 0..Len(source.bytes)
      /\ Collected(n) = ReadPrefix(read + n) /\ Collected(n) \in Bytes
      /\ Len(Collected(n)) = read + n /\ HasPrefix(source.bytes, Collected(n))
      /\ n = Left <=> read + n = Len(source.bytes)
  BY <1>1, FrameFact
<1>3. /\ busy \in Operation /\ source \in Source /\ source.bytes \in Bytes
      /\ read \in Nat /\ Left \in Nat /\ source.end \in {"Ok", "Error"}
  BY <1>1, SourceFact DEF IInv, TypeOK
<1>4. /\ busy.kind = "Contains" /\ busy.pattern \in Bytes /\ busy.pattern # <<>>
      /\ Occurs(busy.pattern, SubSeq(Collected(n), SearchFrom + 1, Len(Collected(n))))
  BY <1>1, <1>3 DEF FoundIn, IInv, Reading, Operation, Bytes
<1>5. SearchFrom \in 0..read + n
  <2>1. Len(buffer) = read
    BY <1>1, <1>3, SourceFact, PrefixType DEF IInv, Reading, ReadPrefix
  <2>2. Len(busy.pattern) \in Nat /\ Len(busy.pattern) >= 1
    BY <1>4, NothingAdded DEF Bytes
  <2> DEFINE overlap == Len(busy.pattern) - 1
  <2>3. SearchFrom = IF read > overlap THEN read - overlap ELSE 0
    BY <2>1 DEF SearchFrom
  <2>4. overlap \in Nat /\ n \in Nat
    BY <1>3, <2>2
  <2> HIDE DEF overlap
  <2>5. QED
    BY <1>3, <2>3, <2>4
<1>6. Occurs(busy.pattern, source.bytes)
  BY <1>2, <1>3, <1>4, <1>5, OccursInPart DEF ReadPrefix
<1>7. TRUE = Reference(busy)
  <2>1. Reference(busy)
    BY <1>4, <1>6 DEF Reference
  <2>2. QED
    BY <1>3, <2>1, VerdictType
<1>8. /\ Complete(Collected(n)) \in Bodies
      /\ Complete(Collected(n)).rest = "Nothing" /\ Complete(Collected(n)).state = "Complete"
      /\ BytesOf(Complete(Collected(n)).prefix) = Collected(n)
  BY <1>2, HttpBodyAssumption DEF Complete, Bodies, BytesOf, Bytes
<1>9. cached' = None
  BY <1>1 DEF IInv, Reading
<1>10. "match" \notin loss => read' = Len(source.bytes) /\ source.end = "Ok"
  BY <1>1, <1>2, <1>3
<1>11. loss \in SUBSET {"match", "error"} /\ "error" \notin loss
  OBVIOUS
<1> HIDE DEF loss
<1>12. QED
  BY <1>1, <1>2, <1>7, <1>8, <1>9, <1>10, <1>11, FinishIInv DEF ReadPrefix

(* The stream ends with the operation still wanting more. *)
LEMMA EndFact ==
    ASSUME IInv, busy # None, Left = 0
    PROVE  /\ read = Len(source.bytes) /\ buffer = source.bytes /\ buffer \in Bytes
           /\ Verdict(busy, buffer, source.end) = Reference(busy)
<1>1. /\ busy \in Operation /\ source \in Source /\ source.bytes \in Bytes
      /\ Len(source.bytes) \in Nat /\ read \in 0..Len(source.bytes)
  BY SourceFact DEF IInv, TypeOK
<1>2. read = Len(source.bytes)
  BY <1>1 DEF Left
<1>3. buffer = ReadPrefix(read) /\ buffer = source.bytes
  BY <1>1, <1>2, WholePrefix DEF IInv, Reading, ReadPrefix
<1>4. Verdict(busy, ReadPrefix(read), source.end) <=> Reference(busy)
  BY <1>1, <1>2, <1>3, VerdictFact DEF IInv, Reading
<1>5. QED
  BY <1>1, <1>2, <1>3, <1>4, VerdictType

LEMMA ReadEndIInv == ASSUME IInv, ReadEnd PROVE IInv'
<1> DEFINE prefix == IF busy.kind \in Collects \/ buffer # <<>> THEN buffer ELSE body.prefix
<1>1. /\ busy # None /\ Left = 0 /\ source.end = "Ok" /\ read' = read
      /\ Finish(Verdict(busy, buffer, "Ok"), Complete(prefix), {})
      /\ cached' = IF busy.kind = "Store" THEN buffer ELSE None
  BY DEF ReadEnd
<1>2. /\ read = Len(source.bytes) /\ buffer = source.bytes /\ buffer \in Bytes
      /\ Verdict(busy, buffer, "Ok") = Reference(busy)
  BY <1>1, EndFact
<1>3. /\ busy \in Operation /\ read \in 0..Len(source.bytes)
      /\ body.prefix \in Bytes \cup {None} /\ BytesOf(body.prefix) \in Bytes
  BY <1>1, SourceFact DEF IInv, TypeOK
<1>4. BytesOf(prefix) = source.bytes /\ prefix \in Bytes \cup {None}
  <2>1. CASE busy.kind \in Collects \/ buffer # <<>>
    BY <1>2, <2>1, HttpBodyAssumption DEF BytesOf, Bytes
  <2>2. CASE busy.kind \notin Collects /\ buffer = <<>>
    <3>1. Len(BytesOf(body.prefix)) <= 0 /\ Len(BytesOf(body.prefix)) \in Nat
      BY <1>1, <1>2, <1>3, <2>2, EmptySeq DEF IInv, Reading, HasPrefix, Bytes
    <3>2. BytesOf(body.prefix) = <<>>
      BY <1>3, <3>1, NothingAdded
    <3>3. QED
      BY <1>2, <1>3, <2>2, <3>2
  <2>3. QED
    BY <2>1, <2>2
<1> HIDE DEF prefix
<1>5. /\ Complete(prefix) \in Bodies /\ Complete(prefix).prefix = prefix
      /\ Complete(prefix).rest = "Nothing" /\ Complete(prefix).state = "Complete"
  BY <1>4 DEF Complete, Bodies
<1>6. HasPrefix(source.bytes, source.bytes) /\ SubSeq(source.bytes, 1, read') = source.bytes
  BY <1>1, <1>2, WholePrefix DEF HasPrefix, Bytes
<1>7. QED
  BY <1>1, <1>2, <1>3, <1>4, <1>5, <1>6, FinishIInv, VerdictType

LEMMA ReadErrorIInv == ASSUME IInv, ReadError PROVE IInv'
<1> DEFINE prefix == IF busy.kind \in Collects \/ buffer = <<>> THEN body.prefix ELSE buffer
           loss == IF busy.kind \in Collects /\ buffer # BytesOf(body.prefix)
                   THEN {"error"} ELSE {}
<1>1. /\ busy # None /\ Left = 0 /\ source.end = "Error" /\ read' = read /\ cached' = cached
      /\ Finish(Verdict(busy, buffer, "Error"), Partial(prefix, "Error"), loss)
  BY DEF ReadError
<1>2. /\ read = Len(source.bytes) /\ buffer = source.bytes /\ buffer \in Bytes
      /\ Verdict(busy, buffer, "Error") = Reference(busy)
  BY <1>1, EndFact
<1>3. /\ busy \in Operation /\ read \in 0..Len(source.bytes)
      /\ body.prefix \in Bytes \cup {None} /\ BytesOf(body.prefix) \in Bytes
      /\ HasPrefix(source.bytes, BytesOf(body.prefix))
  BY <1>1, SourceFact DEF IInv, TypeOK, Reading
<1>4. HasPrefix(source.bytes, source.bytes) /\ SubSeq(source.bytes, 1, read') = source.bytes
  BY <1>1, <1>2, WholePrefix DEF HasPrefix, Bytes
<1>5. /\ prefix \in Bytes \cup {None} /\ HasPrefix(source.bytes, BytesOf(prefix))
      /\ "error" \notin loss => BytesOf(prefix) = source.bytes
  <2>1. CASE busy.kind \in Collects
    BY <1>2, <1>3, <2>1
  <2>2. CASE busy.kind \notin Collects /\ buffer = <<>>
    <3>1. Len(BytesOf(body.prefix)) <= 0 /\ Len(BytesOf(body.prefix)) \in Nat
      BY <1>2, <1>3, <2>2, EmptySeq DEF HasPrefix, Bytes
    <3>2. BytesOf(body.prefix) = <<>>
      BY <1>3, <3>1, NothingAdded
    <3>3. QED
      BY <1>2, <1>3, <2>2, <3>2
  <2>3. CASE busy.kind \notin Collects /\ buffer # <<>>
    BY <1>2, <1>4, <2>3, HttpBodyAssumption DEF BytesOf, Bytes
  <2>4. QED
    BY <2>1, <2>2, <2>3
<1>6. loss \in SUBSET {"match", "error"} /\ "match" \notin loss
  OBVIOUS
<1> HIDE DEF prefix, loss
<1>7. /\ Partial(prefix, "Error") \in Bodies /\ Partial(prefix, "Error").prefix = prefix
      /\ Partial(prefix, "Error").rest = "Error"
  BY <1>5 DEF Partial, Bodies
<1>8. cached' = None
  BY <1>1 DEF IInv, Reading
<1>9. QED
  BY <1>1, <1>2, <1>3, <1>4, <1>5, <1>6, <1>7, <1>8, FinishIInv, VerdictType

-----------------------------------------------------------------------------
(* Forwarding moves bytes from the body, or the stream, to what was sent.   *)
LEMMA ForwardPrefixIInv == ASSUME IInv, ForwardPrefix PROVE IInv'
<1>1. /\ busy = None /\ ended = "No" /\ body.prefix # None
      /\ sent' = sent \o body.prefix /\ body' = [body EXCEPT !.prefix = None]
      /\ UNCHANGED <<source, read, busy, buffer, checks, cached, ended, lost>>
  BY DEF ForwardPrefix, Forwarding
<1>2. sent \in Bytes /\ body.prefix \in Bytes /\ BytesOf(body.prefix) = body.prefix
  BY <1>1, SourceFact DEF IInv, TypeOK, BytesOf
<1>3. sent' \in Bytes
  BY <1>1, <1>2 DEF Bytes
<1>4. body' \in Bodies /\ body'.prefix = None /\ body'.rest = body.rest
      /\ body'.state = body.state
  BY <1>1 DEF IInv, TypeOK, Bodies
<1>5. sent' \o BytesOf(body'.prefix) = sent \o BytesOf(body.prefix)
  BY <1>1, <1>2, <1>3, <1>4, NothingAdded DEF BytesOf
<1>6. TypeOK'
  BY <1>1, <1>3, <1>4 DEF IInv, TypeOK
<1>7. Reading' /\ EndKnown'
  BY <1>1 DEF Reading, EndKnown
<1>8. Accounted'
  BY <1>1, <1>5 DEF IInv, Accounted, HasPrefix, ReadPrefix
<1>9. RestKnown' /\ CachedWhole'
  BY <1>1, <1>4 DEF IInv, RestKnown, AtEnd, CachedWhole
<1>10. VerdictsAreOfTheWholeBody'
  BY <1>1 DEF IInv, VerdictsAreOfTheWholeBody, Reference, HasPrefix, HasSuffix, Occurs
<1>11. QED
  BY <1>6, <1>7, <1>8, <1>9, <1>10 DEF IInv

(* A body whose prefix was taken has sent what was taken from the stream. *)
LEMMA SentFact ==
    ASSUME IInv, busy = None, body.prefix = None, "error" \notin lost
    PROVE  sent = ReadPrefix(read)
<1>1. sent \in Bytes /\ sent \o BytesOf(body.prefix) = sent
  BY NothingAdded DEF IInv, TypeOK, BytesOf
<1>2. QED
  BY <1>1 DEF IInv, Accounted

LEMMA ForwardFrameIInv ==
    ASSUME IInv, NEW n \in 1..Left, ForwardFrame(n)
    PROVE  IInv'
<1>1. /\ busy = None /\ ended = "No" /\ body.prefix = None /\ body.rest = "Body"
      /\ sent' = sent \o Frame(n) /\ read' = read + n
      /\ UNCHANGED <<source, body, busy, buffer, checks, cached, ended, lost>>
  BY DEF ForwardFrame, Forwarding
<1>2. source.bytes \in Bytes /\ Len(source.bytes) \in Nat /\ read \in 0..Len(source.bytes)
  BY SourceFact DEF IInv
<1>3. n \in 0..Len(source.bytes) - read /\ read + n \in 0..Len(source.bytes)
  BY <1>2 DEF Left
<1>4. lost = {}
  BY <1>1 DEF IInv, RestKnown
<1>5. sent' = ReadPrefix(read + n)
  BY <1>1, <1>2, <1>3, <1>4, SentFact, PrefixGrows DEF Frame, ReadPrefix
<1>6. sent' \in Bytes /\ HasPrefix(source.bytes, sent') /\ sent' \o <<>> = sent'
  BY <1>2, <1>3, <1>5, PrefixType, NothingAdded DEF ReadPrefix
<1>7. TypeOK'
  BY <1>1, <1>3, <1>6 DEF IInv, TypeOK
<1>8. Reading' /\ EndKnown' /\ RestKnown' /\ CachedWhole'
  BY <1>1, <1>4 DEF IInv, Reading, EndKnown, RestKnown, CachedWhole
<1>9. Accounted'
  BY <1>1, <1>5, <1>6 DEF Accounted, ReadPrefix, BytesOf, HasPrefix
<1>10. VerdictsAreOfTheWholeBody'
  BY <1>1 DEF IInv, VerdictsAreOfTheWholeBody, Reference, HasPrefix, HasSuffix, Occurs
<1>11. QED
  BY <1>7, <1>8, <1>9, <1>10 DEF IInv

LEMMA ForwardEndIInv == ASSUME IInv, ForwardEnd PROVE IInv'
<1>1. /\ busy = None /\ ended = "No" /\ body.prefix = None
      /\ \/ body.rest = "Nothing" /\ ended' = "Ok"
         \/ body.rest = "Error" /\ ended' = "Error"
         \/ body.rest = "Body" /\ Left = 0 /\ ended' = source.end
      /\ body' = IF body.rest = "Error" THEN [body EXCEPT !.rest = "Nothing"] ELSE body
      /\ UNCHANGED <<source, read, busy, buffer, checks, cached, sent, lost>>
  BY DEF ForwardEnd, Forwarding
<1>2. /\ source.bytes \in Bytes /\ Len(source.bytes) \in Nat /\ read \in 0..Len(source.bytes)
      /\ source.end \in {"Ok", "Error"}
  BY SourceFact DEF IInv
<1>3. /\ body' \in Bodies /\ body'.prefix = None /\ body'.state = body.state
      /\ body'.rest = IF body.rest = "Error" THEN "Nothing" ELSE body.rest
  BY <1>1 DEF IInv, TypeOK, Bodies
<1>4. AtEnd \/ (body.rest = "Nothing" /\ lost # {})
  BY <1>1, <1>2 DEF IInv, RestKnown, AtEnd, Left
<1>5. TypeOK'
  BY <1>1, <1>2, <1>3 DEF IInv, TypeOK
<1>6. Reading' /\ CachedWhole'
  BY <1>1 DEF IInv, Reading, CachedWhole
<1>7. Accounted'
  BY <1>1, <1>3 DEF IInv, Accounted, BytesOf, HasPrefix, ReadPrefix
<1>8. RestKnown'
  BY <1>1, <1>3 DEF IInv, RestKnown, AtEnd
<1>9. EndKnown'
  <2>1. ended' = "Error" => source.end = "Error"
    BY <1>1 DEF IInv, RestKnown
  <2>2. ASSUME lost = {}
        PROVE  sent = source.bytes /\ ended' = source.end
    <3>1. sent = ReadPrefix(read) /\ AtEnd
      BY <1>1, <1>4, <2>2, SentFact
    <3>2. sent = source.bytes
      BY <1>2, <3>1, WholePrefix DEF AtEnd, ReadPrefix
    <3>3. ended' = source.end
      BY <1>1, <2>2 DEF IInv, RestKnown
    <3>4. QED
      BY <3>2, <3>3
  <2>3. body'.rest # "Error"
    BY <1>3
  <2>4. QED
    BY <1>1, <1>3, <2>1, <2>2, <2>3 DEF EndKnown
<1>10. VerdictsAreOfTheWholeBody'
  BY <1>1 DEF IInv, VerdictsAreOfTheWholeBody, Reference, HasPrefix, HasSuffix, Occurs
<1>11. QED
  BY <1>5, <1>6, <1>7, <1>8, <1>9, <1>10 DEF IInv

-----------------------------------------------------------------------------
LEMMA NextIInv == IInv /\ [Next]_vars => IInv'
<1> SUFFICES ASSUME IInv, [Next]_vars
             PROVE  IInv'
  OBVIOUS
<1>1. ASSUME NEW op \in Operations, Check(op)
      PROVE  IInv'
  BY <1>1, CheckTrivialIInv, CheckBufferedIInv, StartReadingIInv DEF Check
<1>2. CASE ReadStep
  BY <1>2, ReadMoreIInv, ReadEnoughIInv, ReadMatchIInv, ReadEndIInv, ReadErrorIInv DEF ReadStep
<1>3. CASE Forward
  BY <1>3, ForwardPrefixIInv, ForwardFrameIInv, ForwardEndIInv DEF Forward
<1>4. CASE UNCHANGED vars
  <2>1. TypeOK' /\ RestKnown' /\ EndKnown' /\ CachedWhole'
    BY <1>4 DEF vars, IInv, TypeOK, RestKnown, EndKnown, CachedWhole, AtEnd
  <2>2. Reading'
    BY <1>4 DEF vars, IInv, Reading, HasPrefix, ReadPrefix, BytesOf, Enough, IsExact, Wanted
  <2>3. Accounted'
    BY <1>4 DEF vars, IInv, Accounted, HasPrefix, ReadPrefix, BytesOf
  <2>4. VerdictsAreOfTheWholeBody'
    BY <1>4 DEF vars, IInv, VerdictsAreOfTheWholeBody, Reference, HasPrefix, HasSuffix, Occurs
  <2>5. QED
    BY <2>1, <2>2, <2>3, <2>4 DEF IInv
<1>5. QED
  BY <1>1, <1>2, <1>3, <1>4 DEF Next

(* A body keeps its shape: a complete one has no rest, and a stored error   *)
(* is gone only once it was yielded.                                        *)
THEOREM TypeCorrect == Spec => []TypeOK
<1>1. Spec => []IInv
  BY InitIInv, NextIInv, PTL DEF Spec
<1>2. QED
  BY <1>1, PTL DEF IInv

(* Bytes are forwarded in their order and at most once, whatever was read   *)
(* of them before.                                                          *)
THEOREM NothingReordered == Spec => []ForwardedInOrder
<1>1. IInv => ForwardedInOrder
  <2> SUFFICES ASSUME IInv
               PROVE  ForwardedInOrder
    OBVIOUS
  <2>1. source.bytes \in Bytes /\ sent \in Bytes /\ BytesOf(body.prefix) \in Bytes
    BY SourceFact DEF IInv, TypeOK
  <2>2. HasPrefix(source.bytes, sent)
    BY <2>1, PartOfPrefix, NothingAdded DEF IInv, Accounted, Reading
  <2>3. QED
    BY <2>2 DEF IInv, EndKnown, ForwardedInOrder
<1>2. Spec => []IInv
  BY InitIInv, NextIInv, PTL DEF Spec
<1>3. QED
  BY <1>1, <1>2, PTL

(* Predicates, extractors and the cache lose no byte of a body and no error *)
(* of its stream, except by a match and by an error met in collect().       *)
THEOREM NothingElseLoses == Spec => []LossOnlyByMatchOrError
<1>1. IInv => LossOnlyByMatchOrError
  BY DEF IInv, EndKnown, LossOnlyByMatchOrError, ForwardedWhole
<1>2. Spec => []IInv
  BY InitIInv, NextIInv, PTL DEF Spec
<1>3. QED
  BY <1>1, <1>2, PTL

(* Every verdict is that of the whole body, for streams of any length, cut  *)
(* anywhere, and after any number of other operations.                      *)
THEOREM VerdictsAreRight == Spec => []VerdictsAreOfTheWholeBody
<1>1. Spec => []IInv
  BY InitIInv, NextIInv, PTL DEF Spec
<1>2. QED
  BY <1>1, PTL DEF IInv

(* What is stored is the whole body of a response that came without error.  *)
THEOREM StoredWhole == Spec => []CachedWhole
<1>1. Spec => []IInv
  BY InitIInv, NextIInv, PTL DEF Spec
<1>2. QED
  BY <1>1, PTL DEF IInv

(* is_end_stream() is not true while bytes or an error are still to come.   *)
THEOREM EndOfStreamRight == Spec => []EndOfStreamIsTrue
<1>1. IInv => EndOfStreamIsTrue
  <2> SUFFICES ASSUME IInv, IsEndStream, lost = {}, busy = None
               PROVE  sent = source.bytes /\ (source.end = "Error" => ended = "Error")
    BY DEF EndOfStreamIsTrue
  <2>1. sent = ReadPrefix(read)
    BY SentFact DEF IsEndStream
  <2>2. AtEnd /\ (source.end = "Error" => ended = "Error")
    BY SourceFact DEF IInv, IsEndStream, RestKnown, AtEnd, Left, TypeOK, Bodies
  <2>3. QED
    BY <2>1, <2>2, SourceFact, WholePrefix DEF AtEnd, ReadPrefix, IInv
<1>2. Spec => []IInv
  BY InitIInv, NextIInv, PTL DEF Spec
<1>3. QED
  BY <1>1, <1>2, PTL

(* Bytes arrive in order, and the body says that it is at its end only when *)
(* it is.                                                                   *)
THEOREM ForwardedTrue == Spec => []ForwardedTruly
<1>1. ForwardedInOrder /\ EndOfStreamIsTrue => ForwardedTruly
  BY DEF ForwardedTruly
<1>2. QED
  BY <1>1, NothingReordered, EndOfStreamRight, PTL

(* No byte is missing at the consumer or in the store, but for a match or   *)
(* an error met in collect().                                               *)
THEOREM NothingMissing == Spec => []NothingIsMissing
<1>1. LossOnlyByMatchOrError /\ CachedWhole => NothingIsMissing
  BY DEF NothingIsMissing
<1>2. QED
  BY <1>1, NothingElseLoses, StoredWhole, PTL
=============================================================================
