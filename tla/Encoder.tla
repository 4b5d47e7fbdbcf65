------------------------------- MODULE Encoder ------------------------------
(***************************************************************************)
(* How a reply becomes bytes: write_reply of recall-server/src/lib.rs and  *)
(* Reply::encoded_len and encode of recall-protocol.  The length is        *)
(* computed first, without producing a byte, and decides whether the reply *)
(* may be sent and how much memory is reserved; then encode walks the      *)
(* reply, nested arrays included, one element per step.                    *)
(*                                                                         *)
(* A byte is a character; a text is a sequence of bytes.  What is said of  *)
(* every reply is said of Parts, the replies explored and the elements of  *)
(* their arrays, which are nested to some depth.                           *)
(***************************************************************************)
EXTENDS Resp, Integers, Sequences, FiniteSets, Functions

CONSTANTS
    Characters,     \* the bytes
    Replies,        \* the replies explored
    Depth,          \* Depth[r]: how deep arrays are nested in r
    MaxDepth,       \* the depth a client can read
    Numbers,        \* the numbers a client can read
    MaxReplyBytes,  \* Config.max_reply_bytes
    LimitText       \* the text of the error that replaces a reply that is too long

Parts == DOMAIN Depth

Texts == Seq(Characters)

\* The variants of enum Reply.
Simple(text) == [kind |-> "simple", text |-> text]

Error(text) == [kind |-> "error", text |-> text]

Integer(n) == [kind |-> "integer", integer |-> n]

Bulk(text) == [kind |-> "bulk", text |-> text]

NullBulk == [kind |-> "null"]

Array(elements) == [kind |-> "array", elements |-> elements]

AnyReply ==
    [kind : {"simple", "error", "bulk"}, text : Texts] \cup [kind : {"integer"}, integer : Int]
      \cup [kind : {"null"}] \cup [kind : {"array"}, elements : Seq(Parts)]

\* Config::validate makes room for any value and 64 bytes.  The texts of simple and
\* error replies are the server's own and hold no line ending.
ASSUME EncoderAssumption ==
    /\ UsizeMax \in Nat /\ MaxReplyBytes \in 0 .. UsizeMax /\ None \notin Nat
    /\ Digits \cup {"+", "-", ":", "$", "*", "CR", "LF"} \subseteq Characters
    /\ LimitText \in Texts /\ Len(LimitText) + 3 <= MaxReplyBytes
    /\ Parts \subseteq AnyReply /\ Replies \cup {Error(LimitText)} \subseteq Parts
    /\ MaxDepth \in Nat /\ \A r \in Parts : Depth[r] \in 0 .. MaxDepth
    /\ Numbers \subseteq Int /\ -1 \in Numbers
    /\ \A r \in Parts :
          /\ r.kind \in {"simple", "error"} => "CR" \notin Range(r.text)
          /\ r.kind = "integer" => r.integer \in Numbers
          /\ r.kind = "bulk" => Len(r.text) \in Numbers
          /\ r.kind = "array" => /\ Len(r.elements) \in Numbers
                                 /\ \A i \in DOMAIN r.elements : Depth[r.elements[i]] < Depth[r]

VARIABLES
    wanted,     \* the reply execute returned
    reply,      \* the reply that is sent
    reserved,   \* the capacity of output
    pending,    \* what is still to be encoded, the next one first
    output,
    stage          \* "limit", "encode", "written"

encoder_vars == <<wanted, reply, reserved, pending, output, stage>>

(***************************************************************************)
(* encoded_len.                                                            *)
(***************************************************************************)
decimal_digits[n \in Nat] == IF n < 10 THEN 1 ELSE 1 + decimal_digits[n \div 10]

unsigned_abs(n) == IF n < 0 THEN -n ELSE n

\* Mutant: the sign is not counted.
NegativeUncounted(n) == 0

Negative(n) == IF n < 0 THEN 1 ELSE 0

\* The bytes of r itself, without an array's elements.
OwnLen(r) ==
    CASE r.kind \in {"simple", "error"} -> Len(r.text) + 3
      [] r.kind = "integer" -> decimal_digits[unsigned_abs(r.integer)] + 3 + Negative(r.integer)
      [] r.kind = "null"    -> 5
      [] r.kind = "bulk"    -> decimal_digits[Len(r.text)] + 5 + Len(r.text)
      [] r.kind = "array"   -> decimal_digits[Len(r.elements)] + 3

\* The sum encoded_len computes.
Total[r \in Parts] ==
    OwnLen(r) + IF r.kind = "array"
                THEN SumFunction([i \in DOMAIN r.elements |-> Total[r.elements[i]]])
                ELSE 0

\* The checked additions give None exactly when the sum does not fit.
encoded_len(r) == IF Total[r] > UsizeMax THEN None ELSE Total[r]

(***************************************************************************)
(* write_reply and encode.                                                 *)
(***************************************************************************)
EncoderInit ==
    /\ wanted \in Replies
    /\ reply = wanted
    /\ reserved = 0
    /\ pending = <<>>
    /\ output = <<>>
    /\ stage = "limit"

\* is_none_or.
TooLong(r) == encoded_len(r) # None => encoded_len(r) > MaxReplyBytes

\* The length decides what is sent, and memory is reserved for it.
Limit ==
    LET sent == IF TooLong(reply) THEN Error(LimitText) ELSE reply
    IN  /\ stage = "limit"
        /\ reply' = sent
        /\ reserved' = encoded_len(sent)
        /\ pending' = <<sent>>
        /\ stage' = "encode"
        /\ UNCHANGED <<wanted, output>>

DigitsOf[n \in Nat] ==
    (IF n < 10 THEN <<>> ELSE DigitsOf[n \div 10]) \o <<DigitNames[(n % 10) + 1]>>

\* to_string.
Decimal(n) == (IF n < 0 THEN <<"-">> ELSE <<>>) \o DigitsOf[unsigned_abs(n)]

Eol == <<"CR", "LF">>

\* The bytes encode pushes for r itself, without an array's elements.
Header(r) ==
    CASE r.kind = "simple"  -> <<"+">> \o r.text \o Eol
      [] r.kind = "error"   -> <<"-">> \o r.text \o Eol
      [] r.kind = "integer" -> <<":">> \o Decimal(r.integer) \o Eol
      [] r.kind = "null"    -> <<"$", "-", "1">> \o Eol
      [] r.kind = "bulk"    -> <<"$">> \o Decimal(Len(r.text)) \o Eol \o r.text \o Eol
      [] r.kind = "array"   -> <<"*">> \o Decimal(Len(r.elements)) \o Eol

\* Mutant: the elements are encoded after whatever follows their array.
ElementsLast(r, rest) == IF r.kind = "array" THEN rest \o r.elements ELSE rest

\* What is left to encode once r's own bytes are out.
Elements(r, rest) == IF r.kind = "array" THEN r.elements \o rest ELSE rest

encode ==
    /\ stage = "encode" /\ pending # <<>>
    /\ output' = output \o Header(Head(pending))
    /\ pending' = Elements(Head(pending), Tail(pending))
    /\ UNCHANGED <<wanted, reply, reserved, stage>>

\* write_all; its failure and its deadline are in Server.
Send ==
    /\ stage = "encode" /\ pending = <<>>
    /\ stage' = "written"
    /\ UNCHANGED <<wanted, reply, reserved, pending, output>>

Sent == stage = "written" /\ UNCHANGED encoder_vars

EncoderNext == Limit \/ encode \/ Send \/ Sent

EncoderSpec == EncoderInit /\ [][EncoderNext]_encoder_vars

-----------------------------------------------------------------------------
(***************************************************************************)
(* Reference: a client that reads RESP, arrays nested up to MaxDepth deep. *)
(* Read(s, p) is the set of pairs of a reply that starts after offset p of *)
(* s and the offset it ends at.                                            *)
(***************************************************************************)
\* The offset right behind the first line ending after p; 0 if there is none.
LineAfter(s, p) ==
    LET ends == {e \in p + 2 .. Len(s) : s[e - 1] = "CR" /\ s[e] = "LF"}
    IN  IF ends = {} THEN 0 ELSE CHOOSE e \in ends : \A f \in ends : e <= f

NumberIn(s, p, e) == {n \in Numbers : Decimal(n) = SubSeq(s, p + 2, e - 2)}

\* n replies that start after offset e, where inner[q] is what can be read after q.
Items(inner, e, n) ==
    LET items[i \in 0 .. n] ==
          IF i = 0 THEN {<<<<>>, e>>}
          ELSE UNION {{<<Append(before[1], r[1]), r[2]>> : r \in inner[before[2]]} :
                        before \in items[i - 1]}
    IN  items[n]

ReadWith(s, inner, p) ==
    LET e == LineAfter(s, p)
        numbers == NumberIn(s, p, e)
        n == CHOOSE m \in numbers : TRUE
    IN  IF p >= Len(s) \/ e = 0 THEN {}
        ELSE CASE s[p + 1] = "+" -> {<<Simple(SubSeq(s, p + 2, e - 2)), e>>}
               [] s[p + 1] = "-" -> {<<Error(SubSeq(s, p + 2, e - 2)), e>>}
               [] s[p + 1] = ":" -> {<<Integer(m), e>> : m \in numbers}
               [] s[p + 1] = "$" /\ numbers = {-1} -> {<<NullBulk, e>>}
               [] s[p + 1] = "$" /\ numbers # {} /\ n >= 0 /\ e + n + 2 <= Len(s) ->
                    {<<Bulk(SubSeq(s, e + 1, e + n)), e + n + 2>>}
               [] s[p + 1] = "*" /\ numbers # {} /\ n >= 0 ->
                    {<<Array(r[1]), r[2]>> : r \in Items(inner, e, n)}
               [] OTHER -> {}

Read(s, p) ==
    LET nothing == [q \in 0 .. Len(s) |-> {}]
        read[d \in 0 .. MaxDepth] ==
          [q \in 0 .. Len(s) |-> ReadWith(s, IF d = 0 THEN nothing ELSE read[d - 1], q)]
    IN  read[MaxDepth][p]

-----------------------------------------------------------------------------
\* A client that reads the bytes gets the reply that was meant, all of it and
\* nothing more, whatever bytes a value holds; or the limit error, exactly when
\* the reply would be longer than the limit.
ReadsBack ==
    stage = "written" =>
        /\ Read(output, 0) = {<<reply, Len(output)>>}
        /\ reply = wanted \/ reply = Error(LimitText)

\* The length computed beforehand is the length of the bytes: what is reserved is
\* what is used, no more than the limit is ever buffered for a client, the error
\* that replaces a long reply included, and a reply that fits is not replaced.
LengthExact ==
    /\ Len(output) <= MaxReplyBytes
    /\ stage = "written" =>
          /\ Len(output) = reserved
          /\ reply # wanted => Total[wanted] > MaxReplyBytes

=============================================================================
