----------------------------- MODULE MCDecoder ------------------------------
(***************************************************************************)
(* Streams around the limits (a frame of 21 bytes, which two small         *)
(* requests fill, 8 bytes of bulk, two arguments, a header of 5), each     *)
(* also with one byte replaced, dropped or inserted, or cut short.         *)
(***************************************************************************)
EXTENDS Decoder

Eol == <<"CR", "LF">>

Bulk(digits, text) == <<"$">> \o digits \o Eol \o text \o Eol

Xs(n) == [i \in 1 .. n |-> "x"]

OneArgument(digits, text) == <<"*", "1">> \o Eol \o Bulk(digits, text)

TwoArguments(digit, text) ==
    <<"*", "2">> \o Eol \o Bulk(<<digit>>, text) \o Bulk(<<"0">>, <<>>)

\* Two small requests, which fit one buffer; a request of exactly the frame
\* limit; one byte more; a header that may fill the buffer; a bulk over its limit;
\* a header at its limit and a text that looks like a line ending; a request
\* behind another; too many arguments.
Wellformed ==
    { OneArgument(<<"0">>, <<>>) \o OneArgument(<<"1">>, <<"LF">>),
      TwoArguments("5", Xs(5)),
      TwoArguments("6", Xs(6)),
      TwoArguments("8", Xs(8)),
      OneArgument(<<"9">>, Xs(9)),
      OneArgument(<<"0", "2">>, Eol),
      OneArgument(<<"0">>, <<>>) \o TwoArguments("1", <<"CR">>),
      <<"*", "3">> \o Eol \o Bulk(<<"0">>, <<>>) }

Alphabet == {"*", "$", "0", "1", "2", "CR", "LF", "x"}

Changed(s) ==
    {s} \cup {[s EXCEPT ![i] = b] : i \in DOMAIN s, b \in Alphabet}
        \cup {SubSeq(s, 1, i - 1) \o SubSeq(s, i + 1, Len(s)) : i \in DOMAIN s}
        \cup {SubSeq(s, 1, i - 1) \o <<b>> \o SubSeq(s, i, Len(s)) : i \in DOMAIN s, b \in Alphabet}

Cut(s) == {SubSeq(s, 1, n) : n \in 0 .. Len(s)}

MCStreams == UNION {Changed(s) : s \in Wellformed} \cup UNION {Cut(s) : s \in Wellformed}
=============================================================================
