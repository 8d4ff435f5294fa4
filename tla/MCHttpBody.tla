----------------------------- MODULE MCHttpBody -----------------------------
(* Small instances of HttpBody for TLC. *)
EXTENDS HttpBody

Streams(n) ==
    [bytes : UNION {[1..k -> {1, 2}] : k \in 0..n}, end : {"Ok", "Error"}, hint : BOOLEAN]

UpTo4 == Streams(4)

O(kind, bytes, pattern) == [kind |-> kind, bytes |-> bytes, pattern |-> pattern]

AllOperations == {
    O("Limit", 2, <<>>), O("Limit", 3, <<>>),
    O("Starts", 0, <<1, 2>>), O("Starts", 0, <<>>),
    O("Contains", 0, <<1, 2>>), O("Contains", 0, <<1, 1, 2>>),
    O("Eq", 0, <<1, 2, 1>>), O("Ends", 0, <<1, 2>>),
    O("Extract", 0, <<>>), O("Store", 0, <<>>)}
=============================================================================
