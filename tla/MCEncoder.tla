------------------------------ MODULE MCEncoder -----------------------------
(***************************************************************************)
(* Every kind of reply, integers around the powers of ten, texts of the    *)
(* lengths at which the header grows and texts that look like RESP, arrays *)
(* of up to three of them and arrays of arrays.                            *)
(***************************************************************************)
EXTENDS Encoder

MCCharacters == Digits \cup {"+", "-", ":", "$", "*", "CR", "LF", "x"}

Xs(n) == [i \in 1 .. n |-> "x"]

MCLimitText == Xs(10)

Leaves ==
    {Simple(Xs(2)), Error(Xs(3)), NullBulk, Bulk(<<"CR", "LF">>), Bulk(<<"$", "1", "CR", "LF", "*">>)}
      \cup {Integer(n) : n \in {-1000, -10, -1, 0, 9, 10, 100}}
      \cup {Bulk(Xs(n)) : n \in {0, 9, 10}}

Some == {Simple(Xs(2)), NullBulk, Bulk(<<"CR", "LF">>), Integer(-10), Array(<<>>)}

Arrays(S, n) == {Array(s) : s \in UNION {[1 .. m -> S] : m \in 0 .. n}}

MCReplies ==
    Leaves \cup {Bulk(Xs(n)) : n \in {30, 33, 34, 35, 99, 100}}
      \cup Arrays(Leaves, 2) \cup Arrays(Some \cup Arrays(Some, 1), 3)
      \cup {Array([i \in 1 .. n |-> Integer(0)]) : n \in {9, 10, 11}}

RECURSIVE DepthOf(_)

DepthOf(r) ==
    IF r.kind # "array" \/ r.elements = <<>> THEN 0
    ELSE LET deepest == CHOOSE i \in DOMAIN r.elements :
                           \A j \in DOMAIN r.elements : DepthOf(r.elements[j]) <= DepthOf(r.elements[i])
         IN  1 + DepthOf(r.elements[deepest])

MCDepth == [r \in MCReplies \cup Some \cup {Error(MCLimitText)} |-> DepthOf(r)]

MCNumbers == -1000 .. 100
=============================================================================
