------------------------------- MODULE Decoder ------------------------------
(***************************************************************************)
(* The incremental RESP2 decoder of recall-protocol (Decoder::decode) under *)
(* the read loop that feeds it (next_request of recall-server/src/lib.rs). *)
(* A client sends one stream of bytes and closes its side; every read      *)
(* takes any number of the bytes still to come, up to the room left in the *)
(* buffer.  The deadline and the stop signal of the read loop are in       *)
(* Server.                                                                 *)
(*                                                                         *)
(* A byte is one of the characters the decoder tells apart.  Offsets count *)
(* from 0, as in the code.  What an error says is left out: every error    *)
(* closes the connection.                                                  *)
(***************************************************************************)
EXTENDS Resp, Integers, Sequences, FiniteSets, FiniteSetsExt

CONSTANTS
    Streams,            \* the byte streams clients may send
    MaxFrameBytes,      \* Limits.max_frame_bytes
    MaxBulkBytes,       \* Limits.max_bulk_bytes
    MaxArguments,       \* Limits.max_arguments
    MaxHeaderBytes,     \* Limits.max_header_bytes
    Malformed           \* Err(ProtocolError)

DigitValue(b) == (CHOOSE i \in 1 .. 10 : DigitNames[i] = b) - 1

\* The number a sequence of digits stands for.
Numeral(digits) ==
    MapThenSumSet(LAMBDA i : DigitValue(digits[i]) * 10^(Len(digits) - i), DOMAIN digits)

Bytes == Digits \cup {"*", "$", "CR", "LF", "x"}

\* Limits::validate, and the bounds of usize.
ASSUME DecoderAssumption ==
    /\ Streams \subseteq Seq(Bytes)
    /\ MaxFrameBytes \in Nat /\ MaxFrameBytes >= 16
    /\ MaxBulkBytes \in 0 .. MaxFrameBytes
    /\ MaxArguments \in Nat /\ MaxArguments >= 1
    /\ MaxHeaderBytes \in 4 .. MaxFrameBytes
    /\ UsizeMax \in Nat /\ UsizeMax >= MaxFrameBytes /\ UsizeMax >= MaxArguments
    /\ None \notin Nat /\ Malformed \notin Nat /\ None # Malformed

VARIABLES
    stream,     \* what the client sends
    taken,      \* how many of its bytes have been read
    input,      \* the connection's buffer
    decoder,    \* cursor, scan, argument_count, bulk_length, spans
    requests,   \* the requests next_request has returned
    pc          \* "decode", "read", or how the connection ended

vars == <<stream, taken, input, decoder, requests, pc>>

Fresh == [cursor |-> 0, scan |-> 0, argument_count |-> None, bulk_length |-> None,
          spans |-> <<>>]

Init ==
    /\ stream \in Streams
    /\ taken = 0
    /\ input = <<>>
    /\ decoder = Fresh
    /\ requests = <<>>
    /\ pc = "decode"

\* input[i] and input[i..j].
At(i) == input[i + 1]

Slice(i, j) == SubSeq(input, i + 1, j)

(***************************************************************************)
(* header_end.  Stops are the offsets at which the scan ends: too far from *)
(* the cursor, a line ending, or a line feed without its carriage return.  *)
(***************************************************************************)
TooFar(p) == p - decoder.cursor + 2 > MaxHeaderBytes \/ p + 2 > MaxFrameBytes

LineEnd(p) == At(p) = "CR" /\ At(p + 1) = "LF"

Stops == {p \in decoder.scan .. Len(input) - 2 : TooFar(p) \/ LineEnd(p) \/ At(p) = "LF"}

\* Mutant: the last byte, which may be half a line ending, is not looked at again.
ScanToTheEnd == IF Stops = {} THEN Len(input) ELSE Min(Stops)

\* Where the scan stands afterwards.
Scanned == IF Stops = {} THEN Max({decoder.scan, Len(input) - 1}) ELSE Min(Stops)

header_end ==
    IF Stops = {}
    THEN IF Len(input) - decoder.cursor >= MaxHeaderBytes \/ Len(input) >= MaxFrameBytes
         THEN Malformed ELSE None
    ELSE IF TooFar(Min(Stops)) \/ ~LineEnd(Min(Stops)) THEN Malformed
    ELSE Min(Stops)

length_header(end, prefix) ==
    LET digits == Slice(decoder.cursor + 1, end)
    IN  IF \/ digits = <<>> \/ At(decoder.cursor) # prefix
           \/ \E i \in DOMAIN digits : digits[i] \notin Digits
        THEN Malformed
        ELSE IF Numeral(digits) > UsizeMax THEN Malformed ELSE Numeral(digits)

(***************************************************************************)
(* decode: one action for each way an iteration of its loop may go.        *)
(***************************************************************************)
AtCount == pc = "decode" /\ decoder.argument_count = None

AtLength == pc = "decode" /\ decoder.argument_count # None /\ decoder.bulk_length = None

AtBody == pc = "decode" /\ decoder.bulk_length # None

Length == length_header(header_end, IF AtCount THEN "*" ELSE "$")

LegalLength ==
    /\ header_end # Malformed
    /\ Length \in IF AtCount THEN 1 .. MaxArguments ELSE 0 .. MaxBulkBytes

AwaitHeader ==
    /\ AtCount \/ AtLength
    /\ header_end = None
    /\ decoder' = [decoder EXCEPT !.scan = Scanned]
    /\ pc' = "read"
    /\ UNCHANGED <<stream, taken, input, requests>>

RejectHeader ==
    /\ AtCount \/ AtLength
    /\ header_end # None /\ ~LegalLength
    /\ pc' = "failed"
    /\ UNCHANGED <<stream, taken, input, decoder, requests>>

advance_header(end) == [decoder EXCEPT !.cursor = end + 2, !.scan = end + 2]

\* The header is legal.
TakeHeader ==
    /\ AtCount \/ AtLength
    /\ header_end # None /\ LegalLength
    /\ decoder' = [advance_header(header_end) EXCEPT
                      !.argument_count = IF AtCount THEN Length ELSE @,
                      !.bulk_length = IF AtCount THEN @ ELSE Length]
    /\ UNCHANGED <<stream, taken, input, requests, pc>>

BodyEnd == decoder.cursor + decoder.bulk_length + 2

\* An end past usize::MAX is past the limit too.
FitsFrame == BodyEnd <= MaxFrameBytes

AwaitBody ==
    /\ AtBody
    /\ FitsFrame /\ Len(input) < BodyEnd
    /\ pc' = "read"
    /\ UNCHANGED <<stream, taken, input, decoder, requests>>

RejectBody ==
    /\ AtBody
    /\ \/ ~FitsFrame
       \/ FitsFrame /\ Len(input) >= BodyEnd /\ ~LineEnd(BodyEnd - 2)
    /\ pc' = "failed"
    /\ UNCHANGED <<stream, taken, input, decoder, requests>>

Spans == Append(decoder.spans, <<decoder.cursor, BodyEnd - 2>>)

BodyArrived == AtBody /\ FitsFrame /\ Len(input) >= BodyEnd /\ LineEnd(BodyEnd - 2)

TakeArgument ==
    /\ BodyArrived
    /\ Len(Spans) # decoder.argument_count
    /\ decoder' = [decoder EXCEPT !.spans = Spans, !.cursor = BodyEnd, !.scan = BodyEnd,
                                  !.bulk_length = None]
    /\ UNCHANGED <<stream, taken, input, requests, pc>>

\* Mutant: the scan position of the finished frame is kept.
AfterRequestStale == [Fresh EXCEPT !.scan = BodyEnd]

\* The decoder after a request: bulk_length was reset with the last argument.
AfterRequest == Fresh

\* Mutant: the loop reads again before it looks at what is already there.
ReadFirst == "read"

\* next_request returns; the connection's next call decodes what is buffered.
NextCall == "decode"

TakeRequest ==
    /\ BodyArrived
    /\ Len(Spans) = decoder.argument_count
    /\ requests' = Append(requests, [i \in DOMAIN Spans |-> Slice(Spans[i][1], Spans[i][2])])
    /\ input' = Slice(BodyEnd, Len(input))
    /\ decoder' = AfterRequest
    /\ pc' = NextCall
    /\ UNCHANGED <<stream, taken>>

(***************************************************************************)
(* The reads of next_request.                                              *)
(***************************************************************************)
Remaining == MaxFrameBytes - Len(input)

Receive ==
    /\ pc = "read"
    /\ \E n \in 1 .. Min({Remaining, Len(stream) - taken}) :
          /\ input' = input \o SubSeq(stream, taken + 1, taken + n)
          /\ taken' = taken + n
    /\ pc' = "decode"
    /\ UNCHANGED <<stream, decoder, requests>>

\* Nothing more comes, or there is no room to read into.
EndOfInput ==
    /\ pc = "read"
    /\ Remaining = 0 \/ taken = Len(stream)
    /\ pc' = IF input = <<>> THEN "closed" ELSE "failed"
    /\ UNCHANGED <<stream, taken, input, decoder, requests>>

Ended == pc \in {"closed", "failed"} /\ UNCHANGED vars

Next ==
    \/ AwaitHeader \/ RejectHeader \/ TakeHeader
    \/ AwaitBody \/ RejectBody \/ TakeArgument \/ TakeRequest
    \/ Receive \/ EndOfInput \/ Ended

Spec == Init /\ [][Next]_vars

-----------------------------------------------------------------------------
(***************************************************************************)
(* The reference: what a whole byte sequence s means.  A header is its     *)
(* prefix, digits and a line ending, at most MaxHeaderBytes in all; a      *)
(* frame is a count and that many bulks, at most MaxFrameBytes in all.     *)
(***************************************************************************)
Headers(s, p, prefix) ==
    {e \in p + 4 .. Min({p + MaxHeaderBytes, Len(s)}) :
        /\ s[p + 1] = prefix
        /\ \A i \in p + 2 .. e - 2 : s[i] \in Digits
        /\ s[e - 1] = "CR" /\ s[e] = "LF"}

\* The number a header from p to e states.
Stated(s, p, e) == Numeral(SubSeq(s, p + 2, e - 2))

\* A header at p that states one of these numbers, with the number: {} or one pair.
Stating(s, p, prefix, numbers) ==
    {h \in Headers(s, p, prefix) \X numbers : h[2] = Stated(s, p, h[1])}

\* The bulk that starts at p: where its text starts, and how long it is.
Bulks(s, p) ==
    {b \in Stating(s, p, "$", 0 .. MaxBulkBytes) :
        LET end == b[1] + b[2]
        IN  end + 2 <= Len(s) /\ s[end + 1] = "CR" /\ s[end + 2] = "LF"}

\* Where the bulks of f end, if they start at p.
End(f, p) == IF f = <<>> THEN p ELSE f[Len(f)][1] + f[Len(f)][2] + 2

\* The n bulks that start at p: {} unless all of them are there.
BulkSeqs(s, p, n) ==
    LET first[k \in 0 .. n] ==
          IF k = 0 THEN {<<>>}
          ELSE UNION {{Append(f, b) : b \in Bulks(s, End(f, p))} : f \in first[k - 1]}
    IN  first[n]

\* The bulks of the frame that starts at p: {} when there is none.
Frames(s, p) ==
    {f \in UNION {BulkSeqs(s, h[1], h[2]) : h \in Stating(s, p, "*", 1 .. MaxArguments)} :
        End(f, p) - p <= MaxFrameBytes}

\* The requests of the leading frames of s, and whether s is nothing else.
Meaning(s) ==
    LET from[p \in 0 .. Len(s)] ==
          IF Frames(s, p) = {} THEN [requests |-> <<>>, whole |-> p = Len(s)]
          ELSE LET f == CHOOSE x \in Frames(s, p) : TRUE
                   request == [i \in DOMAIN f |-> SubSeq(s, f[i][1] + 1, f[i][1] + f[i][2])]
               IN  [from[End(f, p)] EXCEPT !.requests = <<request>> \o @]
    IN  from[0]

-----------------------------------------------------------------------------
\* No subtraction of header_end underflows and no slice of decode is out of
\* range, whatever has been consumed: the positions stay within the buffer,
\* and the spans lie one after the other before the cursor.  The buffer never
\* exceeds one frame's limit, and a connection that waits has room to read into:
\* the "request exceeds configured limit" of next_request is never the answer to a
\* frame decode would still accept.
BufferSound ==
    /\ decoder.cursor <= decoder.scan
    /\ decoder.scan <= Len(input)
    /\ Len(input) <= MaxFrameBytes
    /\ pc = "read" => Len(input) < MaxFrameBytes
    /\ \A i \in DOMAIN decoder.spans :
          /\ decoder.spans[i][1] <= decoder.spans[i][2]
          /\ decoder.spans[i][2] + 2 <= IF i = Len(decoder.spans) THEN decoder.cursor
                                        ELSE decoder.spans[i + 1][1]

\* When decode asks for more bytes it has returned every request that is
\* complete in the bytes read so far, however they were fragmented.
NothingHeldBack ==
    pc = "read" => requests = Meaning(SubSeq(stream, 1, taken)).requests

\* A connection ends with exactly the requests its stream contains up to the
\* first malformed or truncated one, and without a protocol error exactly when
\* there is none: at the limits too, and for every fragmentation.
DecodesTheStream ==
    pc \in {"closed", "failed"} =>
        Meaning(stream) = [requests |-> requests, whole |-> pc = "closed"]
=============================================================================
