----------------------------- MODULE RespProofs -----------------------------
(***************************************************************************)
(* The decoder's positions, what it returns and how its connection ends,   *)
(* for every stream, every way of cutting it into reads and every choice   *)
(* of the limits; then the bytes of a reply, for every reply.              *)
(***************************************************************************)
EXTENDS Decoder, Encoder, SumTheorems, SequenceTheorems

(***************************************************************************)
(* The inductive invariant: BufferSound and the types it needs.            *)
(***************************************************************************)
DecoderFields == {"cursor", "scan", "argument_count", "bulk_length", "spans"}

\* Lengths are read from legal headers only.
Typed ==
    /\ stream \in Seq(Bytes) /\ input \in Seq(Bytes) /\ taken \in 0 .. Len(stream)
    /\ DOMAIN decoder = DecoderFields
    /\ decoder.cursor \in Nat /\ decoder.scan \in Nat
    /\ decoder.bulk_length \in Nat \cup {None}
    /\ decoder.spans \in Seq(Nat \X Nat)

IInv == Typed /\ BufferSound

-----------------------------------------------------------------------------
\* The lesser and the greater of two numbers.
LEMMA MinMaxOfTwo ==
    ASSUME NEW a \in Int, NEW b \in Int
    PROVE  /\ Min({a, b}) \in {a, b} /\ Min({a, b}) <= a /\ Min({a, b}) <= b
           /\ Max({a, b}) \in {a, b} /\ Max({a, b}) >= a /\ Max({a, b}) >= b
<1>1. \E x \in {a, b} : \A y \in {a, b} : x <= y
  OBVIOUS
<1>2. \E x \in {a, b} : \A y \in {a, b} : x >= y
  OBVIOUS
<1>3. QED
  BY <1>1, <1>2 DEF Min, Max

\* header_end returns an offset at which its scan stops, two bytes before the end of
\* the buffer at the latest.
LEMMA HeaderEnd ==
    ASSUME Typed
    PROVE  /\ header_end \in {None, Malformed} \cup Nat
           /\ header_end \notin {None, Malformed} =>
                 decoder.scan <= header_end /\ header_end + 2 <= Len(input)
           /\ header_end = None => Stops = {} /\ Len(input) < MaxFrameBytes
<1>1. decoder.scan \in Nat /\ Len(input) \in Nat /\ MaxFrameBytes \in Nat
  BY DecoderAssumption DEF Typed
<1>2. Stops \in SUBSET Nat
  BY <1>1 DEF Stops
<1>3. CASE Stops = {}
  BY <1>1, <1>3, DecoderAssumption DEF header_end
<1>4. CASE Stops # {}
  <2>1. \E x \in Stops : \A y \in Stops : x <= y
    BY <1>2, <1>4, LeastNatural
  <2>2. Min(Stops) \in Stops
    BY <2>1 DEF Min
  <2>3. PICK m \in Nat : m = Min(Stops)
    BY <1>2, <2>2
  <2>4. decoder.scan <= m /\ m + 2 <= Len(input)
    BY <1>1, <2>2, <2>3 DEF Stops
  <2>5. header_end \in {m, Malformed}
    BY <1>4, <2>3 DEF header_end
  <2>6. QED
    BY <2>4, <2>5, DecoderAssumption
<1>5. QED
  BY <1>3, <1>4

\* The spans lie one after the other before the cursor.
SpansOK(spans, cursor) ==
    \A i \in DOMAIN spans :
        /\ spans[i][1] <= spans[i][2]
        /\ spans[i][2] + 2 <= IF i = Len(spans) THEN cursor ELSE spans[i + 1][1]

\* The invariant when only the decoder's cursor and scan move forward.
LEMMA SpansForward ==
    ASSUME NEW spans \in Seq(Nat \X Nat), NEW c \in Nat, NEW d \in Nat, SpansOK(spans, c), c <= d
    PROVE  SpansOK(spans, d)
<1> SUFFICES ASSUME NEW i \in DOMAIN spans
             PROVE  /\ spans[i][1] <= spans[i][2]
                    /\ spans[i][2] + 2 <= IF i = Len(spans) THEN d ELSE spans[i + 1][1]
  BY DEF SpansOK
<1>1. spans[i] \in Nat \X Nat
  OBVIOUS
<1>2. spans[i][2] \in Nat
  BY <1>1
<1>3. QED
  BY <1>2, SMTT(30) DEF SpansOK

\* One more argument.
LEMMA SpansAppend ==
    ASSUME NEW spans \in Seq(Nat \X Nat), NEW c \in Nat, NEW n \in Nat, SpansOK(spans, c)
    PROVE  /\ Append(spans, <<c, c + n>>) \in Seq(Nat \X Nat)
           /\ SpansOK(Append(spans, <<c, c + n>>), c + n + 2)
<1> DEFINE t == Append(spans, <<c, c + n>>)
<1>1. /\ t \in Seq(Nat \X Nat) /\ Len(t) = Len(spans) + 1 /\ Len(spans) \in Nat
      /\ DOMAIN t = 1 .. Len(t) /\ DOMAIN spans = 1 .. Len(spans)
      /\ t[Len(spans) + 1] = <<c, c + n>>
      /\ \A i \in 1 .. Len(spans) : t[i] = spans[i]
  <2>1. <<c, c + n>> \in Nat \X Nat
    OBVIOUS
  <2>2. QED
    BY <2>1
<1> HIDE DEF t
<1>2. ASSUME NEW i \in 1 .. Len(spans)
      PROVE  /\ t[i][1] <= t[i][2] /\ i # Len(t)
             /\ t[i][2] + 2 <= t[i + 1][1]
  <2>1. t[i] = spans[i] /\ i # Len(t)
    BY <1>1
  <2>2. spans[i][1] <= spans[i][2]
    BY <1>1 DEF SpansOK
  <2>3. CASE i = Len(spans)
    <3>1. spans[i][2] + 2 <= c
      BY <1>1, <2>3 DEF SpansOK
    <3>2. t[i + 1][1] = c
      BY <1>1, <2>3
    <3>3. QED
      BY <2>1, <2>2, <3>1, <3>2
  <2>4. CASE i # Len(spans)
    <3>1. i + 1 \in 1 .. Len(spans)
      <4>1. Len(spans) \in Nat
        BY <1>1
      <4>2. QED
        BY <2>4, <4>1
    <3>2. t[i + 1] = spans[i + 1]
      BY <1>1, <3>1
    <3>3. spans[i][2] + 2 <= spans[i + 1][1]
      BY <1>1, <2>4 DEF SpansOK
    <3>4. QED
      BY <2>1, <2>2, <3>2, <3>3
  <2>5. QED
    BY <2>3, <2>4
<1>3. t[Len(t)][1] <= t[Len(t)][2] /\ t[Len(t)][2] + 2 <= c + n + 2
  BY <1>1
<1>4. SpansOK(t, c + n + 2)
  <2> SUFFICES ASSUME NEW i \in DOMAIN t
               PROVE  /\ t[i][1] <= t[i][2]
                      /\ t[i][2] + 2 <= IF i = Len(t) THEN c + n + 2 ELSE t[i + 1][1]
    BY DEF SpansOK
  <2>1. i \in 1 .. Len(spans) \/ i = Len(t)
    BY <1>1
  <2>2. QED
    BY <1>2, <1>3, <2>1
<1>5. QED
  BY <1>1, <1>4 DEF t

\* The invariant in these terms.
LEMMA BufferSoundIs ==
    BufferSound <=> /\ decoder.cursor <= decoder.scan
                    /\ decoder.scan <= Len(input)
                    /\ Len(input) <= MaxFrameBytes
                    /\ pc = "read" => Len(input) < MaxFrameBytes
                    /\ SpansOK(decoder.spans, decoder.cursor)
  BY DEF BufferSound, SpansOK

\* It holds when a connection begins.
LEMMA InitIInv == Init => IInv
<1> SUFFICES ASSUME Init PROVE IInv
  OBVIOUS
<1>1. /\ stream \in Seq(Bytes) /\ taken = 0 /\ input = <<>> /\ decoder = Fresh /\ pc = "decode"
  BY DecoderAssumption DEF Init
<1>2. /\ DOMAIN decoder = DecoderFields /\ decoder.cursor = 0 /\ decoder.scan = 0
      /\ decoder.bulk_length = None /\ decoder.spans = <<>>
  BY <1>1 DEF Fresh, DecoderFields
<1>3. Typed
  BY <1>1, <1>2 DEF Typed
<1>4. Len(input) = 0
  BY <1>1
<1>5. BufferSound
  BY <1>1, <1>2, <1>4, DecoderAssumption DEF BufferSound
<1>6. QED
  BY <1>3, <1>5 DEF IInv

\* Every step of decode and of the read loop keeps it.
LEMMA NextIInv == IInv /\ [Next]_vars => IInv'
<1> SUFFICES ASSUME IInv, [Next]_vars PROVE IInv'
  OBVIOUS
<1>0. /\ Typed /\ decoder.cursor <= decoder.scan /\ decoder.scan <= Len(input)
      /\ Len(input) <= MaxFrameBytes /\ (pc = "read" => Len(input) < MaxFrameBytes)
      /\ SpansOK(decoder.spans, decoder.cursor)
  BY BufferSoundIs DEF IInv
<1>a. /\ DOMAIN decoder = DecoderFields /\ decoder.cursor \in Nat /\ decoder.scan \in Nat
      /\ decoder.bulk_length \in Nat \cup {None} /\ decoder.spans \in Seq(Nat \X Nat)
      /\ stream \in Seq(Bytes) /\ input \in Seq(Bytes) /\ taken \in 0 .. Len(stream)
      /\ Len(input) \in Nat /\ Len(stream) \in Nat /\ MaxFrameBytes \in Nat
      /\ taken \in Nat /\ taken <= Len(stream)
  BY <1>0, DecoderAssumption DEF Typed
<1>b. ASSUME Typed', decoder'.cursor <= decoder'.scan, decoder'.scan <= Len(input'),
             Len(input') <= MaxFrameBytes, pc' = "read" => Len(input') < MaxFrameBytes,
             SpansOK(decoder'.spans, decoder'.cursor)
      PROVE  IInv'
  BY <1>b DEF IInv, BufferSound, SpansOK
<1>1. CASE AwaitHeader
  <2>1. /\ header_end = None /\ decoder' = [decoder EXCEPT !.scan = Scanned] /\ pc' = "read"
        /\ UNCHANGED <<stream, taken, input>>
    BY <1>1 DEF AwaitHeader
  <2>2. Stops = {} /\ Len(input) < MaxFrameBytes
    BY <1>0, <2>1, HeaderEnd
  <2>3. PICK m : m = Scanned
    OBVIOUS
  <2>4. m = Max({decoder.scan, Len(input) - 1})
    BY <2>2, <2>3 DEF Scanned
  <2>5. m \in {decoder.scan, Len(input) - 1} /\ m >= decoder.scan
    <3>0. decoder.scan \in Int /\ Len(input) - 1 \in Int
      BY <1>a
    <3>1. PICK a \in Int, b \in Int : a = decoder.scan /\ b = Len(input) - 1
      BY <3>0
    <3>2. m = Max({a, b})
      BY <2>4, <3>1
    <3>3. QED
      BY <3>1, <3>2, MinMaxOfTwo
  <2>6. m \in Nat /\ decoder.cursor <= m /\ m <= Len(input)
    BY <1>0, <1>a, <2>5
  <2>7. /\ DOMAIN decoder' = DecoderFields /\ decoder'.cursor = decoder.cursor /\ decoder'.scan = m
        /\ decoder'.bulk_length = decoder.bulk_length /\ decoder'.spans = decoder.spans
    BY <1>a, <2>1, <2>3 DEF DecoderFields
  <2>8. Typed'
    BY <1>a, <2>1, <2>6, <2>7 DEF Typed
  <2>9. QED
    BY <1>0, <1>b, <2>1, <2>2, <2>6, <2>7, <2>8
<1>2. CASE TakeHeader
  <2>1. /\ AtCount \/ AtLength
        /\ header_end # None /\ LegalLength
        /\ decoder' = [advance_header(header_end) EXCEPT
                          !.argument_count = IF AtCount THEN Length ELSE @,
                          !.bulk_length = IF AtCount THEN @ ELSE Length]
        /\ UNCHANGED <<stream, taken, input, pc>>
    BY <1>2 DEF TakeHeader
  <2>2. header_end # Malformed /\ (AtCount \/ Length \in Nat)
    BY <2>1, DecoderAssumption DEF LegalLength
  <2>3. PICK e \in Nat : e = header_end /\ decoder.scan <= e /\ e + 2 <= Len(input)
    BY <1>0, <2>1, <2>2, HeaderEnd
  <2>4. PICK n, k : /\ decoder' = [[decoder EXCEPT !.cursor = e + 2, !.scan = e + 2]
                                     EXCEPT !.argument_count = n, !.bulk_length = k]
                    /\ k \in Nat \cup {None}
    <3>1. [decoder EXCEPT !.cursor = e + 2, !.scan = e + 2].bulk_length = decoder.bulk_length
      BY <1>a DEF DecoderFields
    <3>2. CASE AtCount
      BY <1>a, <2>1, <2>3, <3>1, <3>2 DEF advance_header
    <3>3. CASE ~AtCount
      BY <2>1, <2>2, <2>3, <3>3 DEF advance_header
    <3>4. QED
      BY <3>2, <3>3
  <2>5. /\ DOMAIN decoder' = DecoderFields /\ decoder'.cursor = e + 2 /\ decoder'.scan = e + 2
        /\ decoder'.bulk_length = k /\ decoder'.spans = decoder.spans
    BY <1>a, <2>4 DEF DecoderFields
  <2>6. e + 2 \in Nat /\ decoder.cursor <= e + 2 /\ e + 2 <= e + 2
    BY <1>0, <1>a, <2>3
  <2>7. SpansOK(decoder'.spans, decoder'.cursor)
    BY <1>0, <1>a, <2>5, <2>6, SpansForward
  <2>8. Typed'
    BY <1>a, <2>1, <2>4, <2>5, <2>6 DEF Typed
  <2>9. QED
    BY <1>0, <1>b, <2>1, <2>3, <2>5, <2>6, <2>7, <2>8
<1>3. CASE RejectHeader \/ RejectBody \/ EndOfInput \/ Ended \/ UNCHANGED vars
  <2>1. UNCHANGED <<stream, taken, input, decoder>> /\ (pc' = "read" => pc = "read")
    BY <1>3 DEF RejectHeader, RejectBody, EndOfInput, Ended, vars
  <2>2. Typed'
    BY <1>0, <2>1 DEF Typed
  <2>3. QED
    BY <1>0, <1>b, <2>1, <2>2
<1>4. CASE AwaitBody
  <2>1. /\ AtBody /\ FitsFrame /\ Len(input) < BodyEnd
        /\ UNCHANGED <<stream, taken, input, decoder>>
    BY <1>4 DEF AwaitBody
  <2>2. BodyEnd \in Nat /\ BodyEnd <= MaxFrameBytes
    BY <1>a, <2>1 DEF AtBody, BodyEnd, FitsFrame
  <2>3. Len(input) < MaxFrameBytes
    BY <1>a, <2>1, <2>2
  <2>4. Typed'
    BY <1>0, <2>1 DEF Typed
  <2>5. QED
    BY <1>0, <1>b, <2>1, <2>3, <2>4
<1>5. CASE TakeArgument
  <2>1. /\ BodyArrived
        /\ decoder' = [decoder EXCEPT !.spans = Spans, !.cursor = BodyEnd, !.scan = BodyEnd,
                                      !.bulk_length = None]
        /\ UNCHANGED <<stream, taken, input, pc>>
    BY <1>5 DEF TakeArgument
  <2>2. PICK n \in Nat : n = decoder.bulk_length
    BY <1>a, <2>1 DEF BodyArrived, AtBody
  <2>3. PICK c \in Nat : c = decoder.cursor
    BY <1>a
  <2>4. /\ BodyEnd = c + n + 2 /\ c + n + 2 <= Len(input) /\ c + n + 2 \in Nat
        /\ BodyEnd - 2 = c + n
    BY <1>a, <2>1, <2>2, <2>3 DEF BodyEnd, BodyArrived
  <2>5. PICK t : t = Spans
    OBVIOUS
  <2>6. t = Append(decoder.spans, <<c, c + n>>)
    BY <2>3, <2>4, <2>5 DEF Spans
  <2>7. t \in Seq(Nat \X Nat) /\ SpansOK(t, c + n + 2)
    BY <1>0, <1>a, <2>3, <2>6, SpansAppend
  <2>8. /\ DOMAIN decoder' = DecoderFields /\ decoder'.cursor = c + n + 2
        /\ decoder'.scan = c + n + 2 /\ decoder'.bulk_length = None /\ decoder'.spans = t
    BY <1>a, <2>1, <2>4, <2>5 DEF DecoderFields
  <2>9. Typed'
    BY <1>a, <2>1, <2>4, <2>7, <2>8 DEF Typed
  <2>10. c + n + 2 <= c + n + 2
    BY <2>4
  <2>11. QED
    BY <1>0, <1>b, <2>1, <2>4, <2>7, <2>8, <2>9, <2>10
<1>6. CASE TakeRequest
  <2>1. /\ BodyArrived /\ input' = Slice(BodyEnd, Len(input)) /\ decoder' = Fresh /\ pc' = "decode"
        /\ UNCHANGED <<stream, taken>>
    BY <1>6 DEF TakeRequest, AfterRequest, NextCall
  <2>2. PICK e \in Nat : e = BodyEnd /\ e <= Len(input)
    BY <1>a, <2>1 DEF BodyArrived, AtBody, BodyEnd
  <2>3. input' = SubSeq(input, e + 1, Len(input))
    BY <2>1, <2>2 DEF Slice
  <2>4. input' \in Seq(Bytes) /\ Len(input') \in Nat /\ Len(input') <= Len(input)
    BY <1>a, <2>2, <2>3
  <2>5. /\ DOMAIN decoder' = DecoderFields /\ decoder'.cursor = 0 /\ decoder'.scan = 0
        /\ decoder'.bulk_length = None /\ decoder'.spans = <<>>
    BY <2>1 DEF Fresh, DecoderFields
  <2>6. Typed'
    BY <1>a, <2>1, <2>4, <2>5 DEF Typed
  <2>7. SpansOK(<<>>, 0) /\ 0 <= Len(input') /\ Len(input') <= MaxFrameBytes
    BY <1>0, <1>a, <2>4 DEF SpansOK
  <2>8. QED
    BY <1>b, <2>1, <2>5, <2>6, <2>7
<1>7. CASE Receive
  <2>1. pc = "read" /\ pc' = "decode" /\ UNCHANGED <<stream, decoder>>
    BY <1>7 DEF Receive
  <2>2. PICK n \in 1 .. Min({Remaining, Len(stream) - taken}) :
          /\ input' = input \o SubSeq(stream, taken + 1, taken + n)
          /\ taken' = taken + n
    BY <1>7 DEF Receive
  <2>3. Remaining \in Int /\ Remaining = MaxFrameBytes - Len(input) /\ Len(stream) - taken \in Int
    BY <1>a DEF Remaining
  <2>4. n \in Nat /\ n <= Remaining /\ n <= Len(stream) - taken
    <3>1. PICK a \in Int, b \in Int : a = Remaining /\ b = Len(stream) - taken
      BY <2>3
    <3>2. PICK m : m = Min({a, b})
      OBVIOUS
    <3>3. m \in Int /\ m <= a /\ m <= b
      BY <3>2, MinMaxOfTwo
    <3>4. n \in 1 .. m
      BY <2>2, <3>1, <3>2
    <3>5. QED
      BY <3>1, <3>3, <3>4
  <2>5. SubSeq(stream, taken + 1, taken + n) \in Seq(Bytes)
        /\ Len(SubSeq(stream, taken + 1, taken + n)) = n
    BY <1>a, <2>4
  <2>6. input' \in Seq(Bytes) /\ Len(input') = Len(input) + n /\ taken' \in 0 .. Len(stream)
    BY <1>a, <2>2, <2>4, <2>5
  <2>7. Len(input) <= Len(input') /\ Len(input') <= MaxFrameBytes /\ decoder.scan <= Len(input')
    BY <1>0, <1>a, <2>3, <2>4, <2>6
  <2>8. Typed'
    BY <1>a, <2>1, <2>6 DEF Typed
  <2>9. QED
    BY <1>0, <1>b, <2>1, <2>7, <2>8
<1>8. QED
  BY <1>1, <1>2, <1>3, <1>4, <1>5, <1>6, <1>7 DEF Next

-----------------------------------------------------------------------------
\* Whatever a client sends and however it is cut into reads, no subtraction of
\* header_end underflows, no slice of decode is out of range, the buffer never exceeds
\* the limit of one frame, and next_request never waits without room to read into.
THEOREM DecoderBufferSound == Spec => []BufferSound
<1>1. IInv => BufferSound
  BY DEF IInv
<1>2. QED
  BY <1>1, InitIInv, NextIInv, PTL DEF Spec

-----------------------------------------------------------------------------
(***************************************************************************)
(* The reference: there is at most one frame at a place, its parts follow  *)
(* each other, and what a stream means is its first frame and the meaning  *)
(* of the rest.                                                            *)
(***************************************************************************)
\* No digit is part of a line ending.
LEMMA DigitsEndNoLine == "CR" \notin Digits /\ "LF" \notin Digits
<1>1. \A i \in 1 .. 10 : DigitNames[i] \in {"0", "1", "2", "3", "4", "5", "6", "7", "8", "9"}
  BY DEF DigitNames
<1>2. QED
  BY <1>1 DEF Digits

\* The headers at p, without the minimum.
LEMMA HeadersAre ==
    ASSUME NEW s \in Seq(Bytes), NEW p \in Nat, NEW prefix, NEW e
    PROVE  e \in Headers(s, p, prefix) <=>
             /\ e \in Nat /\ p + 4 <= e /\ e <= p + MaxHeaderBytes /\ e <= Len(s)
             /\ s[p + 1] = prefix
             /\ \A i \in p + 2 .. e - 2 : s[i] \in Digits
             /\ s[e - 1] = "CR" /\ s[e] = "LF"
<1>1. Len(s) \in Nat /\ MaxHeaderBytes \in Nat
  BY DecoderAssumption
<1>2. PICK a \in Int, b \in Int : a = p + MaxHeaderBytes /\ b = Len(s)
  BY <1>1
<1>3. PICK m : m = Min({a, b})
  OBVIOUS
<1>4. m \in {a, b} /\ m <= a /\ m <= b
  BY <1>3, MinMaxOfTwo
<1>5. e \in p + 4 .. m <=> e \in Nat /\ p + 4 <= e /\ e <= a /\ e <= b
  BY <1>4
<1>6. e \in Headers(s, p, prefix) <=>
        /\ e \in p + 4 .. m
        /\ s[p + 1] = prefix
        /\ \A i \in p + 2 .. e - 2 : s[i] \in Digits
        /\ s[e - 1] = "CR" /\ s[e] = "LF"
  BY <1>2, <1>3 DEF Headers
<1>7. QED
  BY <1>2, <1>5, <1>6

\* At most one header starts at p.
LEMMA HeadersUnique ==
    ASSUME NEW s \in Seq(Bytes), NEW p \in Nat, NEW prefix,
           NEW d \in Headers(s, p, prefix), NEW e \in Headers(s, p, prefix)
    PROVE  d = e
<1>1. ASSUME NEW a \in Headers(s, p, prefix), NEW b \in Headers(s, p, prefix), a < b
      PROVE  FALSE
  <2>1. a \in Nat /\ p + 4 <= a /\ s[a - 1] = "CR" /\ b \in Nat
    BY HeadersAre
  <2>2. \A i \in p + 2 .. b - 2 : s[i] \in Digits
    BY HeadersAre
  <2>3. a - 1 \in p + 2 .. b - 2
    BY <1>1, <2>1
  <2>4. QED
    BY <2>1, <2>2, <2>3, DigitsEndNoLine
<1>2. d \in Nat /\ e \in Nat
  BY HeadersAre
<1>3. d < e \/ e < d \/ d = e
  BY <1>2
<1>4. QED
  BY <1>1, <1>3

\* A header that states a number, part by part.
LEMMA StatingAre ==
    ASSUME NEW s, NEW p, NEW prefix, NEW numbers, NEW h
    PROVE  h \in Stating(s, p, prefix, numbers) <=>
             /\ h = <<h[1], h[2]>>
             /\ h[1] \in Headers(s, p, prefix)
             /\ h[2] \in numbers /\ h[2] = Stated(s, p, h[1])
  BY DEF Stating

\* At most one header at p states a number.
LEMMA StatingUnique ==
    ASSUME NEW s \in Seq(Bytes), NEW p \in Nat, NEW prefix, NEW numbers,
           NEW h \in Stating(s, p, prefix, numbers), NEW k \in Stating(s, p, prefix, numbers)
    PROVE  h = k
<1>1. h[1] = k[1]
  BY HeadersUnique, StatingAre
<1>2. h[2] = k[2]
  BY <1>1, StatingAre
<1>3. h = <<h[1], h[2]>> /\ k = <<k[1], k[2]>>
  BY StatingAre
<1>4. QED
  BY <1>1, <1>2, <1>3

\* Where a bulk lies.
LEMMA BulkIs ==
    ASSUME NEW s \in Seq(Bytes), NEW p \in Nat, NEW b \in Bulks(s, p)
    PROVE  /\ b \in Stating(s, p, "$", 0 .. MaxBulkBytes)
           /\ b \in Nat \X Nat /\ b[1] \in Nat /\ b[2] \in Nat /\ p + 4 <= b[1]
           /\ b[1] + b[2] + 2 <= Len(s)
           /\ s[b[1] + b[2] + 1] = "CR" /\ s[b[1] + b[2] + 2] = "LF"
<1>1. b \in Stating(s, p, "$", 0 .. MaxBulkBytes)
  BY DEF Bulks
<1>2. /\ b[1] + b[2] + 2 <= Len(s)
      /\ s[b[1] + b[2] + 1] = "CR" /\ s[b[1] + b[2] + 2] = "LF"
  BY DEF Bulks
<1>3. b = <<b[1], b[2]>> /\ b[1] \in Headers(s, p, "$") /\ b[2] \in 0 .. MaxBulkBytes
  <2>1. PICK lengths : lengths = 0 .. MaxBulkBytes
    OBVIOUS
  <2>2. b \in Stating(s, p, "$", lengths)
    BY <1>1, <2>1
  <2>3. b = <<b[1], b[2]>> /\ b[1] \in Headers(s, p, "$") /\ b[2] \in lengths
    BY <2>2, StatingAre
  <2>4. QED
    BY <2>1, <2>3
<1>4. b[1] \in Nat /\ p + 4 <= b[1]
  BY <1>3, HeadersAre
<1>5. b[2] \in Nat
  BY <1>3, DecoderAssumption
<1>6. b \in Nat \X Nat
  BY <1>3, <1>4, <1>5
<1>7. QED
  BY <1>1, <1>2, <1>4, <1>5, <1>6

(***************************************************************************)
(* Sequences of bulks.                                                     *)
(***************************************************************************)
\* What one bulk more makes of a set of sequences.
More(s, p, seqs) == UNION {{Append(f, b) : b \in Bulks(s, End(f, p))} : f \in seqs}

\* No bulk at all.
NoBulks == {<<>>}

\* g holds the sequences of the first 0, ..., n bulks from p.
FirstsIs(s, p, n, g) ==
    g = [k \in 0 .. n |-> IF k = 0 THEN NoBulks ELSE More(s, p, g[k - 1])]

\* Two such functions agree wherever both are defined.
LEMMA FirstsUnique ==
    ASSUME NEW s, NEW p, NEW n \in Nat, NEW m \in Nat, NEW g, NEW h,
           FirstsIs(s, p, n, g), FirstsIs(s, p, m, h), NEW i \in Nat, i <= n, i <= m
    PROVE  g[i] = h[i]
<1> DEFINE Bad == {j \in Nat : j <= n /\ j <= m /\ g[j] # h[j]}
<1>1. SUFFICES ASSUME Bad # {} PROVE FALSE
  OBVIOUS
<1>2. PICK j \in Bad : \A k \in Bad : j <= k
  BY <1>1, LeastNatural
<1>3. /\ g[j] = IF j = 0 THEN NoBulks ELSE More(s, p, g[j - 1])
      /\ h[j] = IF j = 0 THEN NoBulks ELSE More(s, p, h[j - 1])
  BY DEF FirstsIs
<1>4. j # 0
  BY <1>2, <1>3
<1>5. j - 1 \in Nat /\ ~(j <= j - 1) /\ j - 1 <= n /\ j - 1 <= m
  BY <1>4
<1>6. g[j - 1] = h[j - 1]
  BY <1>2, <1>5
<1>7. QED
  BY <1>2, <1>3, <1>6

\* There is one for every number of bulks.
LEMMA FirstsExist ==
    ASSUME NEW s, NEW p, NEW n \in Nat
    PROVE  \E g : FirstsIs(s, p, n, g)
<1> DEFINE Bad == {j \in Nat : ~\E g : FirstsIs(s, p, j, g)}
<1>1. SUFFICES ASSUME Bad # {} PROVE FALSE
  OBVIOUS
<1>2. PICK j \in Bad : \A k \in Bad : j <= k
  BY <1>1, LeastNatural
<1>3. CASE j = 0
  <2> DEFINE g == [i \in 0 .. 0 |-> NoBulks]
  <2>1. FirstsIs(s, p, 0, g)
    BY DEF FirstsIs
  <2>2. QED
    BY <1>2, <1>3, <2>1
<1>4. CASE j # 0
  <2>1. j - 1 \in Nat /\ ~(j <= j - 1)
    BY <1>4
  <2>2. PICK g : FirstsIs(s, p, j - 1, g)
    BY <1>2, <2>1
  <2> DEFINE h == [i \in 0 .. j |-> IF i = j THEN More(s, p, g[j - 1]) ELSE g[i]]
  <2>3. ASSUME NEW i \in 0 .. j
        PROVE  h[i] = IF i = 0 THEN NoBulks ELSE More(s, p, h[i - 1])
    <3>1. CASE i = j
      BY <1>4, <2>1, <3>1
    <3>2. CASE i # j
      <4>1. g[i] = IF i = 0 THEN NoBulks ELSE More(s, p, g[i - 1])
        BY <2>1, <2>2, <3>2 DEF FirstsIs
      <4>2. i # 0 => h[i - 1] = g[i - 1]
        BY <3>2
      <4>3. QED
        BY <3>2, <4>1, <4>2
    <3>3. QED
      BY <3>1, <3>2
  <2>4. FirstsIs(s, p, j, h)
    <3>1. h = [i \in 0 .. j |-> h[i]]
      OBVIOUS
    <3> HIDE DEF h
    <3>2. h = [i \in 0 .. j |-> IF i = 0 THEN NoBulks ELSE More(s, p, h[i - 1])]
      BY <2>3, <3>1
    <3>3. QED
      BY <3>2 DEF FirstsIs
  <2>5. QED
    BY <1>2, <2>4
<1>5. QED
  BY <1>3, <1>4

\* Bulks are taken one at a time.
LEMMA BulkSeqsSteps ==
    ASSUME NEW s, NEW p
    PROVE  /\ BulkSeqs(s, p, 0) = {<<>>}
           /\ \A n \in Nat : BulkSeqs(s, p, n + 1) = More(s, p, BulkSeqs(s, p, n))
<1> DEFINE upto(n) == CHOOSE g : FirstsIs(s, p, n, g)
<1>1. \A n \in Nat : FirstsIs(s, p, n, upto(n))
  BY FirstsExist
<1>2. \A n : BulkSeqs(s, p, n) = upto(n)[n]
  BY DEF BulkSeqs, FirstsIs, More, NoBulks
<1> HIDE DEF upto
<1>3. upto(0)[0] = NoBulks
  BY <1>1 DEF FirstsIs
<1>4. ASSUME NEW i \in Nat
      PROVE  upto(i + 1)[i + 1] = More(s, p, upto(i)[i])
  <2>1. upto(i + 1)[i] = upto(i)[i]
    BY <1>1, FirstsUnique
  <2>2. upto(i + 1)[i + 1] = More(s, p, upto(i + 1)[i + 1 - 1])
    BY <1>1 DEF FirstsIs
  <2>3. i + 1 - 1 = i
    OBVIOUS
  <2>4. QED
    BY <2>1, <2>2, <2>3
<1>5. QED
  BY <1>2, <1>3, <1>4 DEF NoBulks

\* Where the first i bulks of f end, if they start at p.
EndAt(f, p, i) == IF i = 0 THEN p ELSE f[i][1] + f[i][2] + 2

\* Every one of the n bulks of f is a bulk of s where the one before it ends.
Chain(s, p, f, n) ==
    /\ f \in Seq(Nat \X Nat) /\ Len(f) = n
    /\ \A i \in 1 .. n : f[i] \in Bulks(s, EndAt(f, p, i - 1))

\* The places of a chain, as far as it has been followed.
LEMMA ChainPlaces ==
    ASSUME NEW s, NEW p \in Nat, NEW f, NEW n \in Nat, Chain(s, p, f, n)
    PROVE  /\ \A i \in 0 .. n : EndAt(f, p, i) \in Nat
           /\ \A i \in 1 .. n : f[i] \in Nat \X Nat /\ f[i][1] \in Nat /\ f[i][2] \in Nat
                                /\ EndAt(f, p, i) = f[i][1] + f[i][2] + 2
           /\ End(f, p) = EndAt(f, p, n)
<1>1. f \in Seq(Nat \X Nat) /\ Len(f) = n /\ \A i \in 1 .. n : f[i] \in Nat \X Nat
  BY DEF Chain
<1>2. \A i \in 1 .. n : f[i][1] \in Nat /\ f[i][2] \in Nat
  BY <1>1
<1>3. \A i \in 1 .. n : i # 0 /\ EndAt(f, p, i) = f[i][1] + f[i][2] + 2
  BY DEF EndAt
<1>4. ASSUME NEW i \in 0 .. n PROVE EndAt(f, p, i) \in Nat
  <2>1. CASE i = 0
    BY <2>1 DEF EndAt
  <2>2. CASE i # 0
    <3>1. i \in 1 .. n
      BY <2>2
    <3>2. QED
      BY <1>2, <1>3, <3>1
  <2>3. QED
    BY <2>1, <2>2
<1>5. End(f, p) = EndAt(f, p, n)
  <2>1. f = <<>> <=> n = 0
    BY <1>1
  <2>2. QED
    BY <1>1, <2>1 DEF End, EndAt
<1>6. QED
  BY <1>1, <1>2, <1>3, <1>4, <1>5

\* Where all of it ends.
LEMMA ChainEnd ==
    ASSUME NEW s, NEW p \in Nat, NEW f, NEW n \in Nat, Chain(s, p, f, n)
    PROVE  End(f, p) = EndAt(f, p, n) /\ EndAt(f, p, n) \in Nat
<1>1. n \in 0 .. n
  OBVIOUS
<1>2. QED
  BY <1>1, ChainPlaces

\* A chain with one more bulk.
LEMMA ChainAppend ==
    ASSUME NEW s \in Seq(Bytes), NEW p \in Nat, NEW g, NEW n \in Nat, Chain(s, p, g, n),
           NEW b \in Bulks(s, End(g, p))
    PROVE  Chain(s, p, Append(g, b), n + 1)
<1> DEFINE f == Append(g, b)
<1>1. End(g, p) \in Nat /\ End(g, p) = EndAt(g, p, n)
  BY ChainEnd
<1>2. b \in Nat \X Nat
  BY <1>1, BulkIs
<1>3. g \in Seq(Nat \X Nat) /\ Len(g) = n
  BY DEF Chain
<1>4. f \in Seq(Nat \X Nat) /\ Len(f) = n + 1 /\ f[n + 1] = b /\ \A i \in 1 .. n : f[i] = g[i]
  BY <1>2, <1>3
<1> HIDE DEF f
<1>5. ASSUME NEW i \in 0 .. n PROVE EndAt(f, p, i) = EndAt(g, p, i)
  <2>1. i # 0 => i \in 1 .. n
    OBVIOUS
  <2>2. i # 0 => f[i] = g[i]
    BY <1>4, <2>1
  <2>3. QED
    BY <2>2, Zenon DEF EndAt
<1>6. ASSUME NEW i \in 1 .. n + 1 PROVE f[i] \in Bulks(s, EndAt(f, p, i - 1))
  <2>1. i - 1 \in 0 .. n
    OBVIOUS
  <2>2. EndAt(f, p, i - 1) = EndAt(g, p, i - 1)
    BY <1>5, <2>1
  <2>3. CASE i = n + 1
    <3>1. i - 1 = n /\ f[i] = b
      BY <1>4, <2>3
    <3>2. QED
      BY <1>1, <2>2, <3>1
  <2>4. CASE i # n + 1
    <3>1. i \in 1 .. n
      BY <2>4
    <3>2. f[i] = g[i] /\ g[i] \in Bulks(s, EndAt(g, p, i - 1))
      BY <1>4, <3>1 DEF Chain
    <3>3. QED
      BY <2>2, <3>2
  <2>5. QED
    BY <2>3, <2>4
<1>7. QED
  BY <1>4, <1>6 DEF Chain, f

\* BulkSeqs holds chains only.
LEMMA BulkSeqsChain ==
    ASSUME NEW s \in Seq(Bytes), NEW p \in Nat, NEW n \in Nat, NEW f \in BulkSeqs(s, p, n)
    PROVE  Chain(s, p, f, n)
<1> DEFINE Good(k) == \A g \in BulkSeqs(s, p, k) : Chain(s, p, g, k)
           Bad == {k \in Nat : ~Good(k)}
<1>1. SUFFICES ASSUME Bad # {} PROVE FALSE
  OBVIOUS
<1>2. PICK j \in Bad : \A k \in Bad : j <= k
  BY <1>1, LeastNatural
<1>3. Good(0)
  <2>1. BulkSeqs(s, p, 0) = {<<>>}
    BY BulkSeqsSteps
  <2>2. Chain(s, p, <<>>, 0)
    BY DEF Chain
  <2>3. QED
    BY <2>1, <2>2
<1>4. j # 0 /\ j - 1 \in Nat /\ ~(j <= j - 1) /\ j = (j - 1) + 1
  BY <1>2, <1>3
<1>5. Good(j - 1)
  BY <1>2, <1>4
<1>6. ASSUME NEW g \in BulkSeqs(s, p, j) PROVE Chain(s, p, g, j)
  <2>1. BulkSeqs(s, p, j) = More(s, p, BulkSeqs(s, p, j - 1))
    BY <1>4, BulkSeqsSteps, ZenonT(30)
  <2>2. PICK e \in BulkSeqs(s, p, j - 1) : \E b \in Bulks(s, End(e, p)) : g = Append(e, b)
    BY <2>1 DEF More
  <2>3. QED
    BY <1>4, <1>5, <2>2, ChainAppend
<1>7. QED
  BY <1>2, <1>6

\* Bulks follow each other.
LEMMA ChainStep ==
    ASSUME NEW s \in Seq(Bytes), NEW p \in Nat, NEW f, NEW n \in Nat, Chain(s, p, f, n),
           NEW i \in 1 .. n
    PROVE  /\ f[i] \in Bulks(s, EndAt(f, p, i - 1))
           /\ EndAt(f, p, i - 1) + 4 <= f[i][1] /\ f[i][1] + 2 <= EndAt(f, p, i)
           /\ EndAt(f, p, i - 1) < EndAt(f, p, i)
           /\ EndAt(f, p, i) <= Len(s)
<1>1. i - 1 \in 0 .. n /\ i \in 0 .. n
  OBVIOUS
<1>2. PICK q \in Nat, e \in Nat : q = EndAt(f, p, i - 1) /\ e = EndAt(f, p, i)
  BY <1>1, ChainPlaces
<1>3. f[i] \in Bulks(s, q)
  BY <1>2 DEF Chain
<1>4. f[i][1] \in Nat /\ f[i][2] \in Nat /\ q + 4 <= f[i][1] /\ f[i][1] + f[i][2] + 2 <= Len(s)
  BY <1>3, BulkIs
<1>5. e = f[i][1] + f[i][2] + 2
  BY <1>2, ChainPlaces
<1>6. PICK x \in Nat, y \in Nat : x = f[i][1] /\ y = f[i][2]
  BY <1>4
<1>7. q + 4 <= x /\ e = x + y + 2 /\ x + y + 2 <= Len(s)
  BY <1>4, <1>5, <1>6
<1>8. q + 4 <= x /\ x + 2 <= e /\ q < e /\ e <= Len(s)
  BY <1>7
<1>9. QED
  BY <1>2, <1>3, <1>6, <1>8

\* So no place of a chain is before an earlier one.
LEMMA ChainForward ==
    ASSUME NEW s \in Seq(Bytes), NEW p \in Nat, NEW f, NEW n \in Nat, Chain(s, p, f, n),
           NEW j \in 0 .. n, NEW i \in 0 .. j
    PROVE  EndAt(f, p, i) <= EndAt(f, p, j)
<1> DEFINE Bad == {l \in Nat : l \in i .. n /\ ~(EndAt(f, p, i) <= EndAt(f, p, l))}
<1>0. \A l \in 0 .. n : EndAt(f, p, l) \in Nat
  BY ChainPlaces
<1>1. SUFFICES ASSUME Bad # {} PROVE FALSE
  OBVIOUS
<1>2. PICK l \in Bad : \A k \in Bad : l <= k
  BY <1>1, LeastNatural
<1>3. l # i
  BY <1>0, <1>2
<1>4. l - 1 \in Nat /\ l - 1 \in i .. n /\ ~(l <= l - 1) /\ l \in 1 .. n /\ l - 1 \in 0 .. n /\ i \in 0 .. n
  BY <1>2, <1>3
<1>5. EndAt(f, p, i) <= EndAt(f, p, l - 1)
  BY <1>2, <1>4
<1>6. EndAt(f, p, l - 1) < EndAt(f, p, l)
  BY <1>4, ChainStep
<1>7. PICK a \in Nat, b \in Nat, c \in Nat :
        a = EndAt(f, p, i) /\ b = EndAt(f, p, l - 1) /\ c = EndAt(f, p, l)
  BY <1>0, <1>4
<1>8. ~(a <= c)
  BY <1>2, <1>7
<1>9. QED
  BY <1>5, <1>6, <1>7, <1>8

\* Two chains from the same place agree as far as both go.
LEMMA ChainsAgree ==
    ASSUME NEW s \in Seq(Bytes), NEW p \in Nat, NEW f, NEW n \in Nat, Chain(s, p, f, n),
           NEW g, NEW k \in Nat, Chain(s, p, g, k), k <= n, NEW i \in 1 .. k
    PROVE  f[i] = g[i]
<1> DEFINE Bad == {l \in Nat : l \in 1 .. k /\ f[l] # g[l]}
<1>1. SUFFICES ASSUME Bad # {} PROVE FALSE
  OBVIOUS
<1>2. PICK l \in Bad : \A j \in Bad : l <= j
  BY <1>1, LeastNatural
<1>3. l \in 1 .. k /\ l \in 1 .. n /\ l - 1 \in 0 .. n /\ f[l] # g[l] /\ l - 1 \in Nat /\ ~(l <= l - 1)
  BY <1>2
<1>4. EndAt(f, p, l - 1) = EndAt(g, p, l - 1)
  <2>1. CASE l - 1 = 0
    BY <2>1 DEF EndAt
  <2>2. CASE l - 1 # 0
    <3>1. l - 1 \in 1 .. k
      BY <1>3, <2>2
    <3>2. f[l - 1] = g[l - 1]
      BY <1>2, <1>3, <3>1
    <3>3. QED
      BY <3>2 DEF EndAt
  <2>3. QED
    BY <2>1, <2>2
<1>5. PICK q \in Nat : q = EndAt(f, p, l - 1)
  BY <1>3, ChainPlaces
<1>6. f[l] \in Bulks(s, q) /\ g[l] \in Bulks(s, q)
  BY <1>3, <1>4, <1>5 DEF Chain
<1>7. f[l] = g[l]
  BY <1>6, BulkIs, StatingUnique, SMTT(30)
<1>8. QED
  BY <1>3, <1>7

(***************************************************************************)
(* Frames.                                                                 *)
(***************************************************************************)
\* A frame is a count and that many bulks.
LEMMA FramesAre ==
    ASSUME NEW s, NEW p, NEW f
    PROVE  f \in Frames(s, p) <=>
             /\ \E h \in Stating(s, p, "*", 1 .. MaxArguments) : f \in BulkSeqs(s, h[1], h[2])
             /\ End(f, p) - p <= MaxFrameBytes
  BY DEF Frames

\* The header of a frame.
LEMMA CountIs ==
    ASSUME NEW s \in Seq(Bytes), NEW p \in Nat, NEW h \in Stating(s, p, "*", 1 .. MaxArguments)
    PROVE  /\ h[1] \in Nat /\ h[2] \in Nat /\ p + 4 <= h[1] /\ 1 <= h[2] /\ h[2] <= MaxArguments
           /\ h[1] <= Len(s) /\ h = <<h[1], h[2]>>
<1>1. PICK counts : counts = 1 .. MaxArguments
  OBVIOUS
<1>2. h \in Stating(s, p, "*", counts)
  BY <1>1
<1>3. h = <<h[1], h[2]>> /\ h[1] \in Headers(s, p, "*") /\ h[2] \in counts
  BY <1>2, StatingAre
<1>4. h[1] \in Nat /\ p + 4 <= h[1] /\ h[1] <= Len(s)
  BY <1>3, HeadersAre
<1>5. QED
  BY <1>1, <1>3, <1>4, DecoderAssumption

\* Where the bulks of a frame are, given its header.
LEMMA FrameChain ==
    ASSUME NEW s \in Seq(Bytes), NEW p \in Nat, NEW f \in Frames(s, p)
    PROVE  \E h \in Stating(s, p, "*", 1 .. MaxArguments) :
             Chain(s, h[1], f, h[2]) /\ EndAt(f, h[1], h[2]) - p <= MaxFrameBytes
             /\ End(f, p) = EndAt(f, h[1], h[2])
<1>1. PICK h \in Stating(s, p, "*", 1 .. MaxArguments) : f \in BulkSeqs(s, h[1], h[2])
  BY FramesAre
<1>2. h[1] \in Nat /\ h[2] \in Nat /\ 1 <= h[2]
  BY CountIs
<1>3. Chain(s, h[1], f, h[2])
  BY <1>1, <1>2, BulkSeqsChain
<1>4. Len(f) = h[2] /\ f # <<>>
  BY <1>2, <1>3 DEF Chain
<1>5. End(f, p) = EndAt(f, h[1], h[2])
  BY <1>2, <1>4 DEF End, EndAt
<1>6. End(f, p) - p <= MaxFrameBytes
  BY FramesAre
<1>7. QED
  BY <1>1, <1>3, <1>5, <1>6

\* Where a frame ends.
LEMMA FrameForward ==
    ASSUME NEW s \in Seq(Bytes), NEW p \in Nat, NEW f \in Frames(s, p)
    PROVE  /\ f \in Seq(Nat \X Nat)
           /\ End(f, p) \in Nat /\ p < End(f, p) /\ End(f, p) <= Len(s)
<1>1. PICK h \in Stating(s, p, "*", 1 .. MaxArguments) :
        Chain(s, h[1], f, h[2]) /\ End(f, p) = EndAt(f, h[1], h[2])
  BY FrameChain
<1>2. PICK a \in Nat, n \in Nat : a = h[1] /\ n = h[2] /\ p + 4 <= a /\ 1 <= n
  BY CountIs
<1>3. Chain(s, a, f, n) /\ End(f, p) = EndAt(f, a, n)
  BY <1>1, <1>2
<1>4. n \in 0 .. n /\ 0 \in 0 .. n /\ n \in 1 .. n
  BY <1>2
<1>5. EndAt(f, a, 0) <= EndAt(f, a, n) /\ EndAt(f, a, 0) = a
  BY <1>3, <1>4, ChainForward DEF EndAt
<1>6. EndAt(f, a, n) <= Len(s)
  BY <1>3, <1>4, ChainStep
<1>7. EndAt(f, a, n) \in Nat
  BY <1>3, ChainEnd
<1>8. PICK e \in Nat : e = EndAt(f, a, n)
  BY <1>7
<1>9. p < e /\ e <= Len(s)
  BY <1>2, <1>5, <1>6, <1>8
<1>10. f \in Seq(Nat \X Nat)
  BY <1>3 DEF Chain
<1>11. QED
  BY <1>3, <1>8, <1>9, <1>10

\* At most one frame starts at p.
LEMMA FramesUnique ==
    ASSUME NEW s \in Seq(Bytes), NEW p \in Nat, NEW f \in Frames(s, p), NEW g \in Frames(s, p)
    PROVE  f = g
<1>1. PICK h \in Stating(s, p, "*", 1 .. MaxArguments) : Chain(s, h[1], f, h[2])
  BY FrameChain
<1>2. PICK k \in Stating(s, p, "*", 1 .. MaxArguments) : Chain(s, k[1], g, k[2])
  BY FrameChain
<1>3. PICK counts : counts = 1 .. MaxArguments
  OBVIOUS
<1>4. h = k
  BY <1>3, StatingUnique
<1>5. PICK a \in Nat, n \in Nat : a = h[1] /\ n = h[2]
  BY CountIs
<1>6. Chain(s, a, f, n) /\ Chain(s, a, g, n)
  BY <1>1, <1>2, <1>4, <1>5
<1>7. \A i \in 1 .. n : f[i] = g[i]
  BY <1>6, ChainsAgree
<1>8. f \in Seq(Nat \X Nat) /\ g \in Seq(Nat \X Nat) /\ Len(f) = n /\ Len(g) = n
  BY <1>6 DEF Chain
<1>9. QED
  BY <1>7, <1>8

\* What comes after k bulks of a frame that has more, and how far it may reach.
LEMMA NextBulk ==
    ASSUME NEW s \in Seq(Bytes), NEW p \in Nat, NEW f \in Frames(s, p),
           NEW h \in Stating(s, p, "*", 1 .. MaxArguments),
           NEW k \in Nat, k < h[2], NEW g \in BulkSeqs(s, h[1], k)
    PROVE  \E b \in Bulks(s, End(g, h[1])) : (b[1] + b[2] + 2) - p <= MaxFrameBytes
<1>1. PICK l \in Stating(s, p, "*", 1 .. MaxArguments) :
        Chain(s, l[1], f, l[2]) /\ EndAt(f, l[1], l[2]) - p <= MaxFrameBytes
  BY FrameChain
<1>2. PICK counts : counts = 1 .. MaxArguments
  OBVIOUS
<1>3. h = l
  BY <1>2, StatingUnique
<1>4. PICK a \in Nat, n \in Nat : a = h[1] /\ n = h[2]
  BY CountIs
<1>5. Chain(s, a, f, n) /\ EndAt(f, a, n) - p <= MaxFrameBytes
  BY <1>1, <1>3, <1>4
<1>6. Chain(s, a, g, k)
  BY <1>4, BulkSeqsChain
<1>7. k + 1 \in 1 .. n /\ k <= n /\ k + 1 \in 0 .. n /\ n \in 0 .. n /\ k + 1 \in 0 .. n /\ (k + 1) - 1 = k
      /\ k \in 0 .. n
  BY <1>4
<1>8. \A i \in 1 .. k : f[i] = g[i]
  BY <1>5, <1>6, <1>7, ChainsAgree
<1>9. EndAt(f, a, k) = EndAt(g, a, k)
  <2>1. k # 0 => k \in 1 .. k
    OBVIOUS
  <2>2. k # 0 => f[k] = g[k]
    BY <1>8, <2>1
  <2>3. QED
    BY <2>2, Zenon DEF EndAt
<1>10. End(g, a) = EndAt(f, a, k)
  BY <1>6, <1>9, ChainEnd
<1>11. f[k + 1] \in Bulks(s, EndAt(f, a, k))
  BY <1>5, <1>7 DEF Chain
<1>12. EndAt(f, a, k + 1) <= EndAt(f, a, n)
  <2>1. k + 1 \in 0 .. n /\ n \in 0 .. n
    BY <1>7
  <2>2. QED
    BY <1>5, <2>1, ChainForward
<1>13. PICK x \in Nat, y \in Nat : x = EndAt(f, a, k + 1) /\ y = EndAt(f, a, n)
  BY <1>5, <1>7, ChainPlaces
<1>14. x = f[k + 1][1] + f[k + 1][2] + 2
  BY <1>5, <1>7, <1>13, ChainPlaces
<1>15. x - p <= MaxFrameBytes
  BY <1>5, <1>12, <1>13, DecoderAssumption
<1>16. PICK b : b = f[k + 1]
  OBVIOUS
<1>17. (b[1] + b[2] + 2) - p <= MaxFrameBytes
  <2>1. x = b[1] + b[2] + 2
    BY <1>14, <1>16, Zenon
  <2>2. QED
    BY <1>15, <2>1, Zenon
<1>18. b \in Bulks(s, End(g, h[1]))
  BY <1>4, <1>10, <1>11, <1>16
<1>19. QED
  BY <1>17, <1>18

(***************************************************************************)
(* Meaning.                                                                *)
(***************************************************************************)
\* The request of a frame.
RequestOf(s, f) == [i \in DOMAIN f |-> SubSeq(s, f[i][1] + 1, f[i][1] + f[i][2])]

FirstFrame(s, p) == CHOOSE x \in Frames(s, p) : TRUE

\* What s means from p, if rest is what it means from the end of the first frame.
Means(s, p, rest) ==
    IF Frames(s, p) = {} THEN [requests |-> <<>>, whole |-> p = Len(s)]
    ELSE [rest EXCEPT !.requests = <<RequestOf(s, FirstFrame(s, p))>> \o @]

NextPlace(s, p) == End(FirstFrame(s, p), p)

\* g is what s means from each of its places from k on.
FromIs(s, k, g) == g = [p \in k .. Len(s) |-> Means(s, p, g[NextPlace(s, p)])]

\* A frame ends after it starts, within the stream.
LEMMA NextPlaceIs ==
    ASSUME NEW s \in Seq(Bytes), NEW p \in Nat, Frames(s, p) # {}
    PROVE  /\ FirstFrame(s, p) \in Frames(s, p)
           /\ NextPlace(s, p) \in p + 1 .. Len(s)
<1>1. FirstFrame(s, p) \in Frames(s, p)
  BY DEF FirstFrame
<1>2. PICK e \in Nat : e = NextPlace(s, p) /\ p < e /\ e <= Len(s)
  BY <1>1, FrameForward DEF NextPlace
<1>3. e \in p + 1 .. Len(s)
  BY <1>2
<1>4. QED
  BY <1>1, <1>2, <1>3

\* There is one from every place on.
LEMMA FromExists ==
    ASSUME NEW s \in Seq(Bytes), NEW k \in 0 .. Len(s)
    PROVE  \E g : FromIs(s, k, g)
<1> DEFINE n == Len(s)
           Bad == {j \in Nat : j <= n /\ ~\E g : FromIs(s, n - j, g)}
<1>0. n \in Nat
  OBVIOUS
<1>1. SUFFICES ASSUME Bad # {} PROVE FALSE
  <2>1. n - k \in Nat /\ n - k <= n /\ n - (n - k) = k
    BY <1>0
  <2>2. QED
    BY <2>1
<1>2. PICK j \in Bad : \A l \in Bad : j <= l
  BY <1>1, LeastNatural
<1> DEFINE a == n - j
<1>3. j \in Nat /\ j <= n /\ a \in 0 .. n /\ ~\E g : FromIs(s, a, g)
  BY <1>0, <1>2
<1>4. \E g : \A p \in a + 1 .. n : g[p] = Means(s, p, g[NextPlace(s, p)])
  <2>1. CASE j = 0
    <3>1. a + 1 .. n = {}
      BY <1>0, <2>1
    <3>2. QED
      BY <3>1
  <2>2. CASE j # 0
    <3>1. j - 1 \in Nat /\ j - 1 <= n /\ ~(j <= j - 1) /\ n - (j - 1) = a + 1
      BY <1>0, <1>3, <2>2
    <3>2. PICK g : FromIs(s, a + 1, g)
      BY <1>2, <3>1
    <3>3. QED
      BY <3>2 DEF FromIs
  <2>3. QED
    BY <2>1, <2>2
<1>5. PICK g : \A p \in a + 1 .. n : g[p] = Means(s, p, g[NextPlace(s, p)])
  BY <1>4
<1> DEFINE h == [p \in a .. n |-> IF p = a THEN Means(s, a, g[NextPlace(s, a)]) ELSE g[p]]
<1>6. \A p \in a .. n : h[p] = IF p = a THEN Means(s, a, g[NextPlace(s, a)]) ELSE g[p]
  OBVIOUS
<1>7. h = [p \in a .. n |-> h[p]]
  OBVIOUS
<1> HIDE DEF h, a
<1>8. ASSUME NEW p \in a .. n PROVE h[p] = Means(s, p, h[NextPlace(s, p)])
  <2>1. p \in Nat /\ (p = a \/ p \in a + 1 .. n)
    BY <1>0, <1>3
  <2>2. h[p] = Means(s, p, g[NextPlace(s, p)])
    BY <1>5, <1>6, <2>1
  <2>3. CASE Frames(s, p) = {}
    BY <2>2, <2>3 DEF Means
  <2>4. CASE Frames(s, p) # {}
    <3>1. PICK q : q = NextPlace(s, p) /\ q \in p + 1 .. n
      BY <2>1, <2>4, NextPlaceIs
    <3>2. q \in a .. n /\ q # a
      BY <1>0, <1>3, <3>1
    <3>3. h[q] = g[q]
      BY <1>6, <3>2
    <3>4. QED
      BY <2>2, <3>1, <3>3
  <2>5. QED
    BY <2>3, <2>4
<1>9. FromIs(s, a, h)
  BY <1>7, <1>8 DEF FromIs
<1>10. QED
  BY <1>3, <1>9

\* What s means from p on.
MeaningFrom(s, p) == (CHOOSE g : FromIs(s, 0, g))[p]

\* Meaning is what it means from its start.
LEMMA MeaningIs ==
    ASSUME NEW s
    PROVE  Meaning(s) = MeaningFrom(s, 0)
  BY DEF Meaning, MeaningFrom, FromIs, Means, NextPlace, FirstFrame, RequestOf

\* What a stream means from p is its first frame there and what follows.
LEMMA MeaningStep ==
    ASSUME NEW s \in Seq(Bytes), NEW p \in 0 .. Len(s)
    PROVE  MeaningFrom(s, p) = Means(s, p, MeaningFrom(s, NextPlace(s, p)))
<1> DEFINE g == CHOOSE g : FromIs(s, 0, g)
<1>1. FromIs(s, 0, g)
  BY FromExists
<1> HIDE DEF g
<1>2. g[p] = Means(s, p, g[NextPlace(s, p)])
  BY <1>1 DEF FromIs
<1>3. QED
  BY <1>2 DEF MeaningFrom, g

Requests == Seq(Seq(Bytes))

Meanings == [requests : Seq(Requests), whole : BOOLEAN]

\* A piece of a stream.
LEMMA PieceType ==
    ASSUME NEW s \in Seq(Bytes), NEW a \in Nat, NEW b \in Nat, b <= Len(s)
    PROVE  SubSeq(s, a + 1, b) \in Seq(Bytes)
<1>1. \A i \in a + 1 .. b : s[i] \in Bytes
  OBVIOUS
<1>2. a + 1 \in Int /\ b \in Int
  OBVIOUS
<1>3. QED
  BY <1>1, <1>2, SubSeqProperties

\* The arguments of a frame are bytes of the stream.
LEMMA RequestType ==
    ASSUME NEW s \in Seq(Bytes), NEW p \in Nat, NEW f \in Frames(s, p)
    PROVE  RequestOf(s, f) \in Requests
<1>1. PICK h \in Stating(s, p, "*", 1 .. MaxArguments) : Chain(s, h[1], f, h[2])
  BY FrameChain
<1>2. PICK a \in Nat, n \in Nat : a = h[1] /\ n = h[2]
  BY CountIs
<1>3. Chain(s, a, f, n)
  BY <1>1, <1>2
<1>4. DOMAIN f = 1 .. n
  BY <1>3 DEF Chain
<1>5. ASSUME NEW i \in 1 .. n PROVE SubSeq(s, f[i][1] + 1, f[i][1] + f[i][2]) \in Seq(Bytes)
  <2>1. PICK x \in Nat, y \in Nat : x = f[i][1] /\ y = f[i][2]
    BY <1>3, ChainPlaces
  <2>2. EndAt(f, a, i) = x + y + 2
    BY <1>3, <2>1, ChainPlaces
  <2>3. x + y + 2 <= Len(s)
    BY <1>3, <2>2, ChainStep
  <2>4. x + y \in Nat /\ x + y <= Len(s)
    BY <2>3
  <2>5. QED
    BY <2>1, <2>4, PieceType
<1>6. RequestOf(s, f) \in [1 .. n -> Seq(Bytes)]
  BY <1>4, <1>5 DEF RequestOf
<1>7. QED
  BY <1>6 DEF Requests

\* Every stream means a sequence of requests.
LEMMA MeaningType ==
    ASSUME NEW s \in Seq(Bytes), NEW p \in 0 .. Len(s)
    PROVE  MeaningFrom(s, p) \in Meanings
<1> DEFINE n == Len(s)
           Bad == {j \in Nat : j <= n /\ MeaningFrom(s, n - j) \notin Meanings}
<1>0. n \in Nat
  OBVIOUS
<1>1. SUFFICES ASSUME Bad # {} PROVE FALSE
  <2>1. n - p \in Nat /\ n - p <= n /\ n - (n - p) = p
    BY <1>0
  <2>2. QED
    BY <2>1
<1>2. PICK j \in Bad : \A l \in Bad : j <= l
  BY <1>1, LeastNatural
<1>3. PICK a \in Nat : a = n - j /\ a \in 0 .. n /\ MeaningFrom(s, a) \notin Meanings
  BY <1>0, <1>2
<1>4. MeaningFrom(s, a) = Means(s, a, MeaningFrom(s, NextPlace(s, a)))
  BY <1>3, MeaningStep
<1>5. CASE Frames(s, a) = {}
  <2>1. PICK w \in BOOLEAN : w = (a = Len(s))
    BY Zenon
  <2>2. MeaningFrom(s, a) = [requests |-> <<>>, whole |-> w]
    BY <1>4, <1>5, <2>1, Zenon DEF Means
  <2>3. [requests |-> <<>>, whole |-> w] \in Meanings
    BY DEF Meanings
  <2>4. QED
    BY <1>3, <2>2, <2>3, Zenon
<1>6. CASE Frames(s, a) # {}
  <2>1. PICK q : q = NextPlace(s, a) /\ q \in a + 1 .. n
    BY <1>6, NextPlaceIs
  <2>2. n - q \in Nat /\ n - q <= n /\ ~(j <= n - q) /\ n - (n - q) = q
    BY <1>0, <1>3, <2>1
  <2>3. MeaningFrom(s, q) \in Meanings
    BY <1>2, <2>2
  <2>4. RequestOf(s, FirstFrame(s, a)) \in Requests
    BY <1>6, NextPlaceIs, RequestType
  <2>5. PICK rest \in Meanings, r \in Requests :
          rest = MeaningFrom(s, q) /\ r = RequestOf(s, FirstFrame(s, a))
    BY <2>3, <2>4
  <2>6. Means(s, a, rest) = [rest EXCEPT !.requests = <<r>> \o @]
    BY <1>6, <2>5 DEF Means
  <2>7. rest.requests \in Seq(Requests) /\ <<r>> \o rest.requests \in Seq(Requests)
    BY DEF Meanings
  <2>8. [rest EXCEPT !.requests = <<r>> \o @] \in Meanings
    BY <2>7 DEF Meanings
  <2>9. QED
    BY <1>3, <1>4, <2>1, <2>5, <2>6, <2>8
<1>7. QED
  BY <1>5, <1>6

\* The requests rs are those of the leading frames of s, up to p.
Decoded(s, rs, p) ==
    MeaningFrom(s, 0) = [requests |-> rs \o MeaningFrom(s, p).requests,
                         whole |-> MeaningFrom(s, p).whole]

\* Nothing is decoded at first.
LEMMA DecodedStart ==
    ASSUME NEW s \in Seq(Bytes)
    PROVE  Decoded(s, <<>>, 0)
<1>1. PICK m \in Meanings : m = MeaningFrom(s, 0)
  BY MeaningType
<1>2. m.requests \in Seq(Requests) /\ m = [requests |-> m.requests, whole |-> m.whole]
  BY DEF Meanings
<1>3. <<>> \o m.requests = m.requests
  BY <1>2
<1>4. QED
  BY <1>1, <1>2, <1>3 DEF Decoded

\* A frame is decoded.
LEMMA DecodedFrame ==
    ASSUME NEW s \in Seq(Bytes), NEW rs \in Seq(Requests), NEW p \in 0 .. Len(s), Decoded(s, rs, p),
           NEW f \in Frames(s, p)
    PROVE  /\ Decoded(s, Append(rs, RequestOf(s, f)), End(f, p))
           /\ RequestOf(s, f) \in Requests
<1>1. FirstFrame(s, p) = f /\ NextPlace(s, p) = End(f, p)
  BY NextPlaceIs, FramesUnique DEF NextPlace
<1>2. NextPlace(s, p) \in p + 1 .. Len(s)
  BY NextPlaceIs
<1>3. PICK q \in 0 .. Len(s) : q = End(f, p)
  BY <1>1, <1>2
<1>4. PICK r \in Requests : r = RequestOf(s, f)
  BY RequestType
<1>5. PICK rest \in Meanings : rest = MeaningFrom(s, q)
  BY MeaningType
<1>6. MeaningFrom(s, p) = [rest EXCEPT !.requests = <<r>> \o @]
  BY <1>1, <1>3, <1>4, <1>5, MeaningStep DEF Means
<1>7. /\ rest.requests \in Seq(Requests)
      /\ MeaningFrom(s, p).requests = <<r>> \o rest.requests
      /\ MeaningFrom(s, p).whole = rest.whole
  BY <1>6 DEF Meanings
<1>8. rs \o (<<r>> \o rest.requests) = Append(rs, r) \o rest.requests
  <2>1. <<r>> \in Seq(Requests) /\ Append(rs, r) = rs \o <<r>>
    BY AppendIsConcat
  <2>2. PICK u \in Seq(Requests) : u = rest.requests
    BY <1>7
  <2>3. (rs \o <<r>>) \o u = rs \o (<<r>> \o u)
    BY <2>1, ConcatAssociative
  <2>4. QED
    BY <2>1, <2>2, <2>3, Zenon
<1>9. QED
  BY <1>3, <1>4, <1>5, <1>7, <1>8 DEF Decoded

\* Where no frame follows, that is all.
LEMMA DecodedAll ==
    ASSUME NEW s \in Seq(Bytes), NEW rs \in Seq(Requests), NEW p \in 0 .. Len(s), Decoded(s, rs, p),
           Frames(s, p) = {}
    PROVE  Meaning(s) = [requests |-> rs, whole |-> p = Len(s)]
<1>1. MeaningFrom(s, p) = [requests |-> <<>>, whole |-> p = Len(s)]
  BY MeaningStep DEF Means
<1>2. rs \o <<>> = rs
  OBVIOUS
<1>3. QED
  BY <1>1, <1>2, MeaningIs DEF Decoded

-----------------------------------------------------------------------------
(***************************************************************************)
(* What the state of the decoder says about the stream.                    *)
(***************************************************************************)
\* The bytes of the requests returned so far.
Consumed == taken - Len(input)

\* The buffer is what has been read and not consumed.
Kept == Consumed \in Nat /\ \A i \in 1 .. Len(input) : input[i] = stream[Consumed + i]

\* No line ends between the cursor and the scan position.
Unended == \A q \in decoder.cursor .. decoder.scan - 1 : q + 1 < Len(input) /\ ~LineEnd(q)

\* The buffer's state, as far as the header at the cursor is concerned.
Buffered == IInv /\ Kept /\ Unended

\* A stream that begins with the bytes read so far: whatever may still come.
Agrees(s) == s \in Seq(Bytes) /\ taken <= Len(s) /\ \A i \in 1 .. taken : s[i] = stream[i]

\* The numbers of the buffer.
LEMMA BufferedIs ==
    ASSUME Buffered
    PROVE  /\ Consumed \in Nat /\ taken \in Nat /\ Len(input) \in Nat
           /\ Consumed + Len(input) = taken /\ taken <= Len(stream)
           /\ decoder.cursor \in Nat /\ decoder.scan \in Nat
           /\ decoder.cursor <= decoder.scan /\ decoder.scan <= Len(input)
           /\ input \in Seq(Bytes) /\ stream \in Seq(Bytes)
<1>1. /\ taken \in Nat /\ Len(input) \in Nat /\ decoder.cursor \in Nat /\ decoder.scan \in Nat
      /\ input \in Seq(Bytes) /\ stream \in Seq(Bytes) /\ taken <= Len(stream)
  BY DEF Buffered, IInv, Typed
<1>2. decoder.cursor <= decoder.scan /\ decoder.scan <= Len(input)
  BY DEF Buffered, IInv, BufferSound
<1>3. Consumed \in Nat /\ Consumed + Len(input) = taken
  BY <1>1 DEF Buffered, Kept, Consumed
<1>4. QED
  BY <1>1, <1>2, <1>3

\* What the buffer holds of every such stream.
LEMMA SameByte ==
    ASSUME Buffered, NEW s, Agrees(s), NEW i \in Nat, i < Len(input)
    PROVE  At(i) = s[Consumed + i + 1] /\ Consumed + i + 1 <= Len(s)
<1>1. PICK c \in Nat, n \in Nat : c = Consumed /\ n = Len(input) /\ c + n = taken
  BY BufferedIs
<1>2. i + 1 \in 1 .. n /\ c + (i + 1) \in 1 .. taken /\ c + (i + 1) = c + i + 1
  BY <1>1
<1>3. input[i + 1] = stream[c + (i + 1)]
  BY <1>1, <1>2 DEF Buffered, Kept
<1>4. stream[c + (i + 1)] = s[c + (i + 1)]
  BY <1>2 DEF Agrees
<1>5. taken \in Nat /\ taken <= Len(s) /\ Len(s) \in Nat
  BY BufferedIs DEF Agrees
<1>6. QED
  BY <1>1, <1>2, <1>3, <1>4, <1>5 DEF At

\* The scan stops at every line ending from the cursor on.
LEMMA LineStops ==
    ASSUME Buffered, NEW q \in Nat, decoder.cursor <= q, q + 2 <= Len(input), LineEnd(q)
    PROVE  q \in Stops
<1>1. PICK cursor \in Nat, scan \in Nat, n \in Nat :
        cursor = decoder.cursor /\ scan = decoder.scan /\ n = Len(input)
  BY BufferedIs
<1>2. ~(q \in cursor .. scan - 1)
  BY <1>1 DEF Buffered, Unended
<1>3. q \in scan .. n - 2
  BY <1>1, <1>2
<1>4. QED
  BY <1>1, <1>3 DEF Stops

\* The first stop.
LEMMA FirstStop ==
    ASSUME Buffered, Stops # {}
    PROVE  /\ Min(Stops) \in Stops /\ \A q \in Stops : Min(Stops) <= q
           /\ Min(Stops) \in Nat /\ decoder.scan <= Min(Stops) /\ decoder.cursor <= Min(Stops)
           /\ Min(Stops) + 2 <= Len(input)
<1>1. PICK cursor \in Nat, scan \in Nat, n \in Nat :
        cursor = decoder.cursor /\ scan = decoder.scan /\ n = Len(input) /\ cursor <= scan
  BY BufferedIs
<1>2. Stops \in SUBSET Nat /\ \A q \in Stops : q \in scan .. n - 2
  BY <1>1 DEF Stops
<1>3. \E x \in Stops : \A y \in Stops : x <= y
  BY <1>2, LeastNatural
<1>4. Min(Stops) \in Stops /\ \A q \in Stops : Min(Stops) <= q
  BY <1>3 DEF Min
<1>5. PICK m \in Nat : m = Min(Stops) /\ m \in scan .. n - 2
  BY <1>2, <1>4
<1>6. scan <= m /\ cursor <= m /\ m + 2 <= n
  BY <1>1, <1>5
<1>7. QED
  BY <1>1, <1>4, <1>5, <1>6

\* No header has a carriage return or a line feed before its line ending.
LEMMA HeaderText ==
    ASSUME NEW s \in Seq(Bytes), NEW p \in Nat, NEW prefix \in {"*", "$"},
           NEW e \in Headers(s, p, prefix), NEW i \in Nat, p < i, i + 1 < e
    PROVE  s[i] # "CR" /\ s[i] # "LF"
<1>1. e \in Nat /\ s[p + 1] = prefix /\ \A j \in p + 2 .. e - 2 : s[j] \in Digits
  BY HeadersAre
<1>2. CASE i = p + 1
  BY <1>1, <1>2
<1>3. CASE i # p + 1
  <2>1. i \in p + 2 .. e - 2
    BY <1>1, <1>3
  <2>2. QED
    BY <1>1, <2>1, DigitsEndNoLine
<1>4. QED
  BY <1>2, <1>3

\* A header at the cursor, by the offset of its line ending.
LEMMA HeaderPlace ==
    ASSUME Buffered, NEW s, Agrees(s), NEW prefix \in {"*", "$"},
           NEW e \in Headers(s, Consumed + decoder.cursor, prefix)
    PROVE  \E q \in Nat : /\ e = Consumed + q + 2 /\ decoder.cursor + 2 <= q
                          /\ q + 2 <= Len(input) => q \in Stops /\ LineEnd(q)
<1>1. PICK c \in Nat, cursor \in Nat, n \in Nat, p \in Nat :
        c = Consumed /\ cursor = decoder.cursor /\ n = Len(input) /\ p = c + cursor
  BY BufferedIs
<1>2. s \in Seq(Bytes) /\ e \in Headers(s, p, prefix)
  BY <1>1 DEF Agrees
<1>3. e \in Nat /\ p + 4 <= e /\ s[e - 1] = "CR" /\ s[e] = "LF"
  BY <1>2, HeadersAre
<1>4. PICK q \in Nat : q = e - (c + 2)
  BY <1>1, <1>3
<1>5. e = c + q + 2 /\ cursor + 2 <= q /\ e - 1 = c + q + 1 /\ e = c + (q + 1) + 1 /\ q + 1 \in Nat
      /\ cursor <= q
  BY <1>1, <1>3, <1>4
<1>6. ASSUME q + 2 <= n PROVE q \in Stops /\ LineEnd(q)
  <2>1. q < n /\ q + 1 < n
    BY <1>6
  <2>2. At(q) = s[c + q + 1] /\ At(q + 1) = s[c + (q + 1) + 1]
    BY <1>1, <1>5, <2>1, SameByte
  <2>3. LineEnd(q)
    BY <1>3, <1>5, <2>2 DEF LineEnd
  <2>4. QED
    BY <1>1, <1>5, <1>6, <2>3, LineStops
<1>7. QED
  BY <1>1, <1>5, <1>6

\* As long as the scan finds no stop, the header does not end in the buffer.
LEMMA HeaderToCome ==
    ASSUME Buffered, Stops = {}, NEW s, Agrees(s), NEW prefix \in {"*", "$"},
           NEW e \in Headers(s, Consumed + decoder.cursor, prefix)
    PROVE  e > taken
<1>1. PICK q \in Nat : e = Consumed + q + 2 /\ (q + 2 <= Len(input) => q \in Stops)
  BY HeaderPlace
<1>2. ~(q + 2 <= Len(input))
  BY <1>1
<1>3. QED
  BY <1>1, <1>2, BufferedIs

\* The header does not end before the first stop, nor after it when that is a
\* carriage return or a line feed.
LEMMA HeaderAtStop ==
    ASSUME Buffered, Stops # {}, NEW s, Agrees(s), NEW prefix \in {"*", "$"},
           NEW e \in Headers(s, Consumed + decoder.cursor, prefix)
    PROVE  /\ e >= Consumed + Min(Stops) + 2
           /\ At(Min(Stops)) \in {"CR", "LF"} => e = Consumed + Min(Stops) + 2
           /\ e = Consumed + Min(Stops) + 2 => LineEnd(Min(Stops))
<1>1. PICK c \in Nat, cursor \in Nat, n \in Nat, p \in Nat, m \in Nat :
        /\ c = Consumed /\ cursor = decoder.cursor /\ n = Len(input) /\ p = c + cursor
        /\ m = Min(Stops) /\ cursor <= m /\ m + 2 <= n
  <2>1. /\ Min(Stops) \in Nat /\ decoder.cursor <= Min(Stops) /\ Min(Stops) + 2 <= Len(input)
    BY FirstStop
  <2>2. Consumed \in Nat /\ decoder.cursor \in Nat /\ Len(input) \in Nat
    BY BufferedIs
  <2>3. Consumed + decoder.cursor \in Nat
    BY <2>2
  <2>4. QED
    BY <2>1, <2>2, <2>3, Zenon
<1>2. PICK q \in Nat : e = c + q + 2 /\ (q + 2 <= n => q \in Stops /\ LineEnd(q))
  BY <1>1, HeaderPlace
<1>3. m <= q
  <2>1. SUFFICES ASSUME ~(m <= q) PROVE FALSE
    OBVIOUS
  <2>2. q + 2 <= n
    BY <1>1, <2>1
  <2>3. QED
    BY <1>1, <1>2, <2>1, <2>2, FirstStop
<1>4. s \in Seq(Bytes) /\ e \in Headers(s, p, prefix)
  BY <1>1 DEF Agrees
<1>5. ASSUME At(m) \in {"CR", "LF"}, m # q PROVE FALSE
  <2>1. m < n /\ c + m + 1 \in Nat /\ p < c + m + 1 /\ (c + m + 1) + 1 < e
    <3>1. e = c + q + 2 /\ m <= q /\ m # q
      BY <1>2, <1>3, <1>5
    <3>2. p = c + cursor /\ cursor <= m /\ m + 2 <= n
      BY <1>1
    <3>3. QED
      BY <3>1, <3>2
  <2>2. At(m) = s[c + m + 1]
    BY <1>1, <2>1, SameByte
  <2>3. QED
    BY <1>4, <1>5, <2>1, <2>2, HeaderText
<1>6. e >= c + m + 2 /\ (m = q <=> e = c + m + 2)
  BY <1>2, <1>3
<1>7. m = q => LineEnd(m)
  BY <1>1, <1>2
<1>8. QED
  BY <1>1, <1>5, <1>6, <1>7

\* A header that header_end refuses would end past the limit of its frame.
LEMMA HeaderRefused ==
    ASSUME Buffered, header_end = Malformed, NEW s, Agrees(s), NEW prefix \in {"*", "$"},
           NEW e \in Headers(s, Consumed + decoder.cursor, prefix)
    PROVE  e - Consumed > MaxFrameBytes
<1>1. PICK c \in Nat, cursor \in Nat, n \in Nat, p \in Nat :
        c = Consumed /\ cursor = decoder.cursor /\ n = Len(input) /\ p = c + cursor /\ c + n = taken
  BY BufferedIs
<1>2. s \in Seq(Bytes) /\ e \in Headers(s, p, prefix)
  BY <1>1 DEF Agrees
<1>3. e \in Nat /\ e <= p + MaxHeaderBytes
  BY <1>2, HeadersAre
<1>4. MaxHeaderBytes \in Nat /\ MaxFrameBytes \in Nat /\ None # Malformed /\ Malformed \notin Nat
  BY DecoderAssumption
<1>5. CASE Stops = {}
  <2>1. n - cursor >= MaxHeaderBytes \/ n >= MaxFrameBytes
    BY <1>1, <1>4, <1>5 DEF header_end
  <2>2. e > taken
    BY <1>5, HeaderToCome
  <2>3. QED
    BY <1>1, <1>3, <1>4, <2>1, <2>2, SMTT(30)
<1>6. CASE Stops # {}
  <2>1. PICK m \in Nat : m = Min(Stops) /\ m \in Stops
    BY <1>6, FirstStop
  <2>2. TooFar(m) \/ ~LineEnd(m)
    BY <1>4, <1>6, <2>1 DEF header_end
  <2>3. e >= c + m + 2 /\ (At(m) \in {"CR", "LF"} => LineEnd(m))
    BY <1>1, <1>6, <2>1, HeaderAtStop
  <2>4. TooFar(m)
    <3>1. TooFar(m) \/ LineEnd(m) \/ At(m) = "LF"
      BY <2>1 DEF Stops
    <3>2. QED
      BY <2>2, <2>3, <3>1
  <2>5. (m - cursor) + 2 > MaxHeaderBytes \/ m + 2 > MaxFrameBytes
    BY <1>1, <2>4 DEF TooFar
  <2>6. e >= c + m + 2 /\ p = c + cursor
    BY <1>1, <2>3
  <2>7. e - c > MaxFrameBytes
    BY <1>3, <1>4, <2>5, <2>6
  <2>8. QED
    BY <1>1, <2>7
<1>7. QED
  BY <1>5, <1>6

\* A piece of a stream, byte by byte.
LEMMA PieceIs ==
    ASSUME NEW s \in Seq(Bytes), NEW a \in Nat, NEW b \in Nat, b <= Len(s)
    PROVE  /\ SubSeq(s, a + 1, b) \in Seq(Bytes)
           /\ Len(SubSeq(s, a + 1, b)) = IF a <= b THEN b - a ELSE 0
           /\ \A i \in Nat : 1 <= i /\ i <= b - a => SubSeq(s, a + 1, b)[i] = s[a + i]
<1>1. SubSeq(s, a + 1, b) \in Seq(Bytes)
  BY PieceType
<1>2. Len(SubSeq(s, a + 1, b)) = IF a <= b THEN b - a ELSE 0
  OBVIOUS
<1>3. ASSUME NEW i \in Nat, 1 <= i, i <= b - a PROVE SubSeq(s, a + 1, b)[i] = s[a + i]
  BY <1>3
<1>4. QED
  BY <1>1, <1>2, <1>3

\* A piece of the buffer is a piece of every stream that agrees with it.
LEMMA SamePiece ==
    ASSUME Buffered, NEW s, Agrees(s), NEW a \in Nat, NEW b \in Nat, b <= Len(input)
    PROVE  Slice(a, b) = SubSeq(s, (Consumed + a) + 1, Consumed + b)
<1>1. PICK c \in Nat, n \in Nat : c = Consumed /\ n = Len(input) /\ c + n = taken
  BY BufferedIs
<1>2. s \in Seq(Bytes) /\ Len(s) \in Nat /\ taken <= Len(s) /\ input \in Seq(Bytes)
  BY BufferedIs DEF Agrees
<1>3. c + a \in Nat /\ c + b \in Nat /\ c + b <= Len(s) /\ (c + b) - (c + a) = b - a
      /\ (c + a <= c + b <=> a <= b)
  BY <1>1, <1>2
<1>0. PICK d : d = SubSeq(input, a + 1, b)
  OBVIOUS
<1>4. PICK g : g = SubSeq(s, (c + a) + 1, c + b)
  OBVIOUS
<1>5. PICK k \in Nat : k = IF a <= b THEN b - a ELSE 0
  <2>1. (IF a <= b THEN b - a ELSE 0) \in Nat
    OBVIOUS
  <2>2. QED
    BY <2>1, Zenon
<1>6. d \in Seq(Bytes) /\ Len(d) = k /\ \A i \in Nat : 1 <= i /\ i <= b - a => d[i] = input[a + i]
  BY <1>0, <1>1, <1>2, <1>5, PieceIs
<1>7. /\ g \in Seq(Bytes) /\ Len(g) = k
      /\ \A i \in Nat : 1 <= i /\ i <= b - a => g[i] = s[(c + a) + i]
  BY <1>2, <1>3, <1>4, <1>5, PieceIs
<1>8. ASSUME NEW i \in 1 .. k PROVE d[i] = g[i]
  <2>1. i \in Nat /\ 1 <= i /\ i <= b - a
    BY <1>5
  <2>2. PICK j \in Nat : j = (a + i) - 1 /\ j < n /\ j + 1 = a + i /\ c + j + 1 = (c + a) + i
    BY <1>1, <2>1
  <2>3. At(j) = s[c + j + 1]
    BY <1>1, <2>2, SameByte
  <2>4. QED
    BY <1>6, <1>7, <2>1, <2>2, <2>3 DEF At
<1>9. d = g
  BY <1>6, <1>7, <1>8
<1>10. QED
  BY <1>0, <1>1, <1>4, <1>9 DEF Slice

\* The line ending header_end finds.
LEMMA HeaderFound ==
    ASSUME Buffered, header_end # None, header_end # Malformed
    PROVE  /\ Stops # {} /\ header_end = Min(Stops)
           /\ header_end \in Nat /\ decoder.cursor <= header_end /\ header_end + 2 <= Len(input)
           /\ LineEnd(header_end) /\ ~TooFar(header_end)
<1>1. Stops # {}
  BY DEF header_end
<1>2. PICK m : m = Min(Stops)
  OBVIOUS
<1>3. header_end = m /\ LineEnd(m) /\ ~TooFar(m)
  BY <1>1, <1>2 DEF header_end
<1>4. m \in Nat /\ decoder.cursor <= m /\ m + 2 <= Len(input)
  BY <1>1, <1>2, FirstStop
<1>5. QED
  BY <1>1, <1>2, <1>3, <1>4

\* The digits d that length_header reads are those of s between p and e.
ReadsAs(d, s, p, e) ==
    /\ Slice(decoder.cursor + 1, header_end) = d
    /\ d \in Seq(Bytes)
    /\ d # <<>> <=> p + 4 <= e
    /\ p + 4 <= e => DOMAIN d = 1 .. e - (p + 3)
    /\ \A i \in Nat : 1 <= i /\ i <= e - (p + 3) => d[i] = s[(p + 1) + i]
    /\ e <= Len(s) /\ e <= p + MaxHeaderBytes
    /\ At(decoder.cursor) = s[p + 1] /\ s[e - 1] = "CR" /\ s[e] = "LF"

\* What length_header looks at is what the reference looks at.
LEMMA HeaderDigits ==
    ASSUME Buffered, header_end # None, header_end # Malformed, NEW s, Agrees(s),
           NEW p \in Nat, p = Consumed + decoder.cursor,
           NEW e \in Nat, e = Consumed + header_end + 2
    PROVE  ReadsAs(SubSeq(s, p + 2, e - 2), s, p, e)
<1>1. PICK c \in Nat, cursor \in Nat, n \in Nat :
        c = Consumed /\ cursor = decoder.cursor /\ n = Len(input) /\ c + n = taken
  BY BufferedIs
<1>2. PICK m \in Nat : /\ m = header_end /\ cursor <= m /\ m + 2 <= n
                       /\ LineEnd(m) /\ ~TooFar(m)
  BY <1>1, HeaderFound
<1>3. s \in Seq(Bytes) /\ Len(s) \in Nat /\ taken <= Len(s)
  BY DEF Agrees
<1>4. p = c + cursor /\ e = c + m + 2
  BY <1>1, <1>2
<1>5. /\ cursor + 1 \in Nat /\ (c + (cursor + 1)) + 1 = p + 2 /\ c + m = e - 2
      /\ e - 2 \in Nat /\ p + 1 \in Nat /\ (p + 1) + 1 = p + 2
      /\ (e - 2) - (p + 1) = e - (p + 3)
  BY <1>4
<1>0. m <= n /\ e <= Len(s) /\ e - 2 <= Len(s)
  <2>1. c + n <= Len(s)
    BY <1>1, <1>3
  <2>2. QED
    BY <1>2, <1>3, <1>4, <2>1
<1>6. Slice(cursor + 1, m) = SubSeq(s, (c + (cursor + 1)) + 1, c + m)
  <2>1. PICK a \in Nat : a = cursor + 1
    BY <1>5
  <2>2. Slice(a, m) = SubSeq(s, (c + a) + 1, c + m)
    BY <1>0, <1>1, SamePiece, ZenonT(30)
  <2>3. QED
    BY <2>1, <2>2
<1>7. PICK d : d = SubSeq(s, p + 2, e - 2)
  OBVIOUS
<1>8. Slice(cursor + 1, m) = d
  BY <1>5, <1>6, <1>7
<1>9. d = SubSeq(s, (p + 1) + 1, e - 2)
  BY <1>5, <1>7
<1>10. /\ d \in Seq(Bytes) /\ Len(d) = IF p + 1 <= e - 2 THEN (e - 2) - (p + 1) ELSE 0
       /\ \A i \in Nat : 1 <= i /\ i <= (e - 2) - (p + 1) => d[i] = s[(p + 1) + i]
  <2>1. PICK a \in Nat, b \in Nat : a = p + 1 /\ b = e - 2
    BY <1>5
  <2>2. d = SubSeq(s, a + 1, b) /\ b <= Len(s)
    BY <1>0, <1>9, <2>1
  <2>3. /\ d \in Seq(Bytes) /\ Len(d) = IF a <= b THEN b - a ELSE 0
        /\ \A i \in Nat : 1 <= i /\ i <= b - a => d[i] = s[a + i]
    BY <1>3, <2>2, PieceIs
  <2>4. QED
    BY <2>1, <2>3
<1>11. d # <<>> <=> p + 4 <= e
  BY <1>10
<1>12. p + 4 <= e => DOMAIN d = 1 .. e - (p + 3)
  <2>1. p + 4 <= e => Len(d) = e - (p + 3)
    BY <1>10, SMTT(30)
  <2>2. DOMAIN d = 1 .. Len(d)
    BY <1>10
  <2>3. QED
    BY <2>1, <2>2, Zenon
<1>13. e <= p + MaxHeaderBytes
  <2>1. ~((m - cursor) + 2 > MaxHeaderBytes) /\ MaxHeaderBytes \in Nat
    BY <1>1, <1>2, DecoderAssumption DEF TooFar
  <2>2. QED
    BY <1>4, <2>1
<1>14. At(cursor) = s[p + 1]
  <2>1. cursor < n
    BY <1>2
  <2>2. At(cursor) = s[c + cursor + 1]
    BY <1>1, <2>1, SameByte
  <2>3. c + cursor + 1 = p + 1
    BY <1>4
  <2>4. QED
    BY <2>2, <2>3
<1>15. s[e - 1] = "CR" /\ s[e] = "LF"
  <2>1. m < n /\ m + 1 < n /\ m + 1 \in Nat /\ c + m + 1 = e - 1 /\ c + (m + 1) + 1 = e
    BY <1>2, <1>4
  <2>2. At(m) = s[c + m + 1] /\ At(m + 1) = s[c + (m + 1) + 1]
    BY <1>1, <2>1, SameByte
  <2>3. QED
    BY <1>2, <2>1, <2>2 DEF LineEnd
<1>16. \A i \in Nat : 1 <= i /\ i <= e - (p + 3) => d[i] = s[(p + 1) + i]
  BY <1>5, <1>10
<1>17. QED
  BY <1>0, <1>1, <1>2, <1>5, <1>7, <1>8, <1>10, <1>11, <1>12, <1>13,
     <1>14, <1>15, <1>16, ZenonT(30) DEF ReadsAs

\* A length that length_header reads is the one the header states.
LEMMA HeaderRead ==
    ASSUME Buffered, header_end # None, header_end # Malformed, NEW s, Agrees(s),
           NEW prefix, NEW p \in Nat, p = Consumed + decoder.cursor,
           NEW e \in Nat, e = Consumed + header_end + 2,
           length_header(header_end, prefix) # Malformed
    PROVE  /\ e \in Headers(s, p, prefix)
           /\ length_header(header_end, prefix) = Stated(s, p, e)
<1> DEFINE d == SubSeq(s, p + 2, e - 2)
<1>2. /\ Slice(decoder.cursor + 1, header_end) = d /\ (d # <<>> <=> p + 4 <= e)
      /\ (p + 4 <= e => DOMAIN d = 1 .. e - (p + 3))
      /\ \A i \in Nat : 1 <= i /\ i <= e - (p + 3) => d[i] = s[(p + 1) + i]
      /\ e <= Len(s) /\ e <= p + MaxHeaderBytes
      /\ At(decoder.cursor) = s[p + 1] /\ s[e - 1] = "CR" /\ s[e] = "LF"
  <2>1. ReadsAs(d, s, p, e)
    BY HeaderDigits
  <2> HIDE DEF d
  <2>2. QED
    BY <2>1, Zenon DEF ReadsAs
<1> HIDE DEF d
<1>3. /\ d # <<>> /\ At(decoder.cursor) = prefix /\ \A i \in DOMAIN d : d[i] \in Digits
      /\ length_header(header_end, prefix) = Numeral(d)
  BY <1>2 DEF length_header
<1>4. p + 4 <= e
  BY <1>2, <1>3
<1>5. ASSUME NEW j \in p + 2 .. e - 2 PROVE s[j] \in Digits
  <2>1. PICK i \in Nat : i = j - (p + 1) /\ 1 <= i /\ i <= e - (p + 3) /\ (p + 1) + i = j
    BY <1>4
  <2>2. i \in DOMAIN d
    BY <1>2, <1>4, <2>1
  <2>3. d[i] \in Digits /\ d[i] = s[(p + 1) + i]
    BY <1>2, <1>3, <2>1, <2>2
  <2>4. QED
    BY <2>1, <2>3
<1>6. s[p + 1] = prefix
  BY <1>2, <1>3
<1>7. s \in Seq(Bytes)
  BY DEF Agrees
<1>8. e \in Headers(s, p, prefix)
  <2>1. e \in Headers(s, p, prefix) <=>
          /\ e \in Nat /\ p + 4 <= e /\ e <= p + MaxHeaderBytes /\ e <= Len(s)
          /\ s[p + 1] = prefix
          /\ \A i \in p + 2 .. e - 2 : s[i] \in Digits
          /\ s[e - 1] = "CR" /\ s[e] = "LF"
    BY <1>7, HeadersAre, SMTT(30)
  <2>2. \A i \in p + 2 .. e - 2 : s[i] \in Digits
    BY <1>5
  <2>3. QED
    BY <1>2, <1>4, <1>6, <2>1, <2>2, Zenon
<1>9. QED
  BY <1>3, <1>8 DEF Stated, d

\* And the number a header states is read, unless it is past usize::MAX.
LEMMA HeaderStates ==
    ASSUME Buffered, header_end # None, header_end # Malformed, NEW s, Agrees(s),
           NEW prefix \in {"*", "$"}, NEW p \in Nat, p = Consumed + decoder.cursor,
           NEW e \in Headers(s, p, prefix), Stated(s, p, e) \in 0 .. UsizeMax
    PROVE  /\ e = Consumed + header_end + 2
           /\ length_header(header_end, prefix) = Stated(s, p, e)
<1>1. s \in Seq(Bytes)
  BY DEF Agrees
<1>2. /\ e \in Nat /\ p + 4 <= e /\ s[p + 1] = prefix
      /\ \A i \in p + 2 .. e - 2 : s[i] \in Digits
  BY <1>1, HeadersAre
<1>3. e = Consumed + header_end + 2
  <2>1. PICK m : m = Min(Stops)
    OBVIOUS
  <2>2. header_end = m /\ LineEnd(m) /\ Stops # {}
    BY <2>1, HeaderFound
  <2>3. At(m) = "CR"
    BY <2>2 DEF LineEnd
  <2>4. At(m) \in {"CR", "LF"} => e = Consumed + m + 2
    BY <2>1, <2>2, HeaderAtStop
  <2>5. QED
    BY <2>2, <2>3, <2>4
<1> DEFINE d == SubSeq(s, p + 2, e - 2)
<1>5. /\ Slice(decoder.cursor + 1, header_end) = d /\ (d # <<>> <=> p + 4 <= e)
      /\ (p + 4 <= e => DOMAIN d = 1 .. e - (p + 3))
      /\ \A i \in Nat : 1 <= i /\ i <= e - (p + 3) => d[i] = s[(p + 1) + i]
      /\ At(decoder.cursor) = s[p + 1]
  <2>1. ReadsAs(d, s, p, e)
    BY <1>2, <1>3, HeaderDigits
  <2> HIDE DEF d
  <2>2. QED
    BY <2>1, Zenon DEF ReadsAs
<1> HIDE DEF d
<1>6. ASSUME NEW i \in DOMAIN d PROVE d[i] \in Digits
  <2>0. i \in 1 .. e - (p + 3)
    BY <1>2, <1>5, Zenon
  <2>1. i \in Nat /\ 1 <= i /\ i <= e - (p + 3) /\ (p + 1) + i \in p + 2 .. e - 2
    BY <1>2, <2>0
  <2>2. QED
    BY <1>2, <1>5, <2>1
<1>7. Stated(s, p, e) = Numeral(d)
  BY DEF Stated, d
<1>8. ~(Numeral(d) > UsizeMax)
  BY <1>7, DecoderAssumption
<1>9. length_header(header_end, prefix) = Numeral(d)
  BY <1>2, <1>5, <1>6, <1>8 DEF length_header
<1>10. QED
  BY <1>3, <1>7, <1>9

(***************************************************************************)
(* The frame so far, in any stream that begins with the bytes read.        *)
(***************************************************************************)
\* The spans as bulks of the stream, of which c bytes are consumed.
ReadOf(c, spans) == [i \in DOMAIN spans |-> <<c + spans[i][1], spans[i][2] - spans[i][1]>>]

\* The bulk that starts at p has been read to q: not at all, or its header.
Reached(s, p, q, length) ==
    IF length = None THEN p = q ELSE <<q, length>> \in Stating(s, p, "$", 0 .. MaxBulkBytes)

\* Decoder d has read the count h and, one after the other, the bulks of its spans.
Follows(s, c, d, h) ==
    /\ h[2] = d.argument_count /\ Len(d.spans) < h[2]
    /\ ReadOf(c, d.spans) \in BulkSeqs(s, h[1], Len(d.spans))
    /\ Reached(s, End(ReadOf(c, d.spans), h[1]), c + d.cursor, d.bulk_length)

PartOf(s, c, d) ==
    IF d.argument_count = None
    THEN d.cursor = 0 /\ d.spans = <<>> /\ d.bulk_length = None
    ELSE \E h \in Stating(s, c, "*", 1 .. MaxArguments) : Follows(s, c, d, h)

\* The header decode looks for.
Prefix == IF decoder.argument_count = None THEN "*" ELSE "$"

Lengths == IF decoder.argument_count = None THEN 1 .. MaxArguments ELSE 0 .. MaxBulkBytes

\* All of them fit in usize.
LEMMA LengthsAre == Lengths \subseteq 0 .. UsizeMax /\ Lengths \subseteq Nat /\ Prefix \in {"*", "$"}
<1>1. 1 .. MaxArguments \subseteq 0 .. UsizeMax /\ 0 .. MaxBulkBytes \subseteq 0 .. UsizeMax
  BY DecoderAssumption
<1>2. 0 .. UsizeMax \subseteq Nat
  OBVIOUS
<1>3. QED
  BY <1>1, <1>2 DEF Lengths, Prefix

\* The length of a bulk is awaited: where the bulks read so far end.
LEMMA AfterBulks ==
    ASSUME Buffered, NEW s, Agrees(s), decoder.argument_count # None,
           PartOf(s, Consumed, decoder), decoder.spans \in Seq(Nat \X Nat),
           NEW f \in Frames(s, Consumed)
    PROVE  \E h \in Stating(s, Consumed, "*", 1 .. MaxArguments),
              b \in Nat \X Nat, p \in Nat :
             /\ p = End(ReadOf(Consumed, decoder.spans), h[1])
             /\ b \in Bulks(s, p) /\ (b[1] + b[2] + 2) - Consumed <= MaxFrameBytes
             /\ Reached(s, p, Consumed + decoder.cursor, decoder.bulk_length)
<1>1. PICK c \in Nat : c = Consumed
  BY BufferedIs
<1>2. s \in Seq(Bytes)
  BY DEF Agrees
<1>3. PICK h \in Stating(s, c, "*", 1 .. MaxArguments) : Follows(s, c, decoder, h)
  BY <1>1 DEF PartOf
<1>12. PICK k \in Nat : k = Len(decoder.spans)
  OBVIOUS
<1>4. PICK g : k = Len(decoder.spans) /\ g = ReadOf(c, decoder.spans)
  BY <1>12
<1>5. /\ k < h[2] /\ g \in BulkSeqs(s, h[1], k)
      /\ Reached(s, End(g, h[1]), c + decoder.cursor, decoder.bulk_length)
  BY <1>3, <1>4 DEF Follows
<1>6. PICK b \in Bulks(s, End(g, h[1])) : (b[1] + b[2] + 2) - c <= MaxFrameBytes
  BY <1>1, <1>2, <1>5, NextBulk
<1>7. h[1] \in Nat
  BY <1>1, <1>2, CountIs
<1>8. Chain(s, h[1], g, k)
  BY <1>2, <1>5, <1>7, BulkSeqsChain
<1>9. PICK p \in Nat : p = End(g, h[1])
  BY <1>2, <1>7, <1>8, ChainEnd
<1>10. b \in Nat \X Nat /\ b \in Bulks(s, p)
  BY <1>2, <1>6, <1>9, BulkIs
<1>11. QED
  BY <1>1, <1>3, <1>4, <1>5, <1>6, <1>9, <1>10, Zenon

\* A frame that is not over has a header where decode looks for one.
LEMMA NextHeader ==
    ASSUME Buffered, NEW s, Agrees(s), PartOf(s, Consumed, decoder),
           decoder.spans \in Seq(Nat \X Nat), decoder.bulk_length = None,
           NEW f \in Frames(s, Consumed)
    PROVE  \E h \in Stating(s, Consumed + decoder.cursor, Prefix, Lengths) :
             h[1] - Consumed <= MaxFrameBytes
<1>1. PICK c \in Nat : c = Consumed
  BY BufferedIs
<1>2. s \in Seq(Bytes)
  BY DEF Agrees
<1>3. CASE decoder.argument_count = None
  <2>1. c + decoder.cursor = c
    BY <1>1, <1>3 DEF PartOf
  <2>2. PICK h \in Stating(s, c, "*", 1 .. MaxArguments) : TRUE
    BY <1>1, FramesAre
  <2>3. h[1] \in Nat /\ h[2] \in Nat /\ 0 < h[2]
    BY <1>2, CountIs
  <2>4. <<>> \in BulkSeqs(s, h[1], 0)
    BY BulkSeqsSteps
  <2>5. PICK b \in Bulks(s, End(<<>>, h[1])) : (b[1] + b[2] + 2) - c <= MaxFrameBytes
    BY <1>1, <1>2, <2>3, <2>4, NextBulk
  <2>6. b \in Bulks(s, h[1])
    BY <2>5 DEF End
  <2>7. b[1] \in Nat /\ b[2] \in Nat /\ h[1] + 4 <= b[1]
    BY <1>2, <2>3, <2>6, BulkIs
  <2>8. PICK x \in Nat, y \in Nat, z \in Nat : x = b[1] /\ y = b[2] /\ z = h[1]
    BY <2>3, <2>7
  <2>9. z - c <= MaxFrameBytes
    <3>1. (x + y + 2) - c <= MaxFrameBytes
      BY <2>5, <2>8, Zenon
    <3>2. z + 4 <= x
      BY <2>7, <2>8
    <3>3. QED
      BY <3>1, <3>2, DecoderAssumption
  <2>10. Prefix = "*" /\ Lengths = 1 .. MaxArguments
    BY <1>3 DEF Prefix, Lengths
  <2>11. h \in Stating(s, Consumed + decoder.cursor, Prefix, Lengths)
    BY <1>1, <2>1, <2>2, <2>10, Zenon
  <2>12. QED
    BY <1>1, <2>8, <2>9, <2>11, Zenon
<1>4. CASE decoder.argument_count # None
  <2>1. PICK h, b \in Nat \X Nat, p \in Nat :
          /\ b \in Bulks(s, p) /\ (b[1] + b[2] + 2) - c <= MaxFrameBytes
          /\ Reached(s, p, c + decoder.cursor, decoder.bulk_length)
    BY <1>1, <1>4, AfterBulks
  <2>2. p = c + decoder.cursor
    BY <2>1 DEF Reached
  <2>3. b \in Stating(s, p, "$", 0 .. MaxBulkBytes) /\ b[1] \in Nat /\ b[2] \in Nat
    BY <1>2, <2>1, BulkIs
  <2>4. PICK x \in Nat, y \in Nat : x = b[1] /\ y = b[2]
    BY <2>3
  <2>5. x - c <= MaxFrameBytes
    <3>1. (x + y + 2) - c <= MaxFrameBytes
      BY <2>1, <2>4, Zenon
    <3>2. QED
      BY <3>1, DecoderAssumption
  <2>6. Prefix = "$" /\ Lengths = 0 .. MaxBulkBytes
    BY <1>4 DEF Prefix, Lengths
  <2>7. QED
    BY <1>1, <2>2, <2>3, <2>4, <2>5, <2>6
<1>5. QED
  BY <1>3, <1>4

\* What AwaitHeader waits for is no part of the bytes read, and what RejectHeader
\* rejects is the beginning of no frame.
LEMMA HeaderVerdict ==
    ASSUME Buffered, NEW s, Agrees(s), PartOf(s, Consumed, decoder),
           decoder.spans \in Seq(Nat \X Nat), AtCount \/ AtLength,
           \/ header_end = None /\ Len(s) = taken
           \/ header_end # None /\ ~LegalLength
    PROVE  Frames(s, Consumed) = {}
<1> SUFFICES ASSUME NEW f \in Frames(s, Consumed) PROVE FALSE
  OBVIOUS
<1>1. decoder.bulk_length = None /\ (AtCount <=> decoder.argument_count = None)
  BY DEF AtCount, AtLength, PartOf
<1>2. PICK h \in Stating(s, Consumed + decoder.cursor, Prefix, Lengths) :
        h[1] - Consumed <= MaxFrameBytes
  BY <1>1, NextHeader
<1>3. PICK c \in Nat, p \in Nat : c = Consumed /\ p = Consumed + decoder.cursor
  BY BufferedIs
<1>4. s \in Seq(Bytes)
  BY DEF Agrees
<1>5. /\ h[1] \in Headers(s, p, Prefix) /\ h[2] \in Lengths
      /\ h[2] = Stated(s, p, h[1])
  BY <1>2, <1>3, StatingAre
<1>6. Prefix \in {"*", "$"} /\ h[2] \in 0 .. UsizeMax
  BY <1>5, LengthsAre
<1>7. CASE header_end = None
  <2>1. Len(s) = taken /\ taken \in Nat
    BY <1>7, BufferedIs
  <2>2. Stops = {}
    BY <1>7, HeaderEnd DEF Buffered, IInv
  <2>3. h[1] > taken
    BY <1>3, <1>5, <1>6, <2>2, HeaderToCome
  <2>4. h[1] \in Nat /\ h[1] <= Len(s)
    BY <1>4, <1>5, HeadersAre
  <2>5. QED
    BY <2>1, <2>3, <2>4
<1>8. CASE header_end = Malformed
  <2>1. h[1] - Consumed > MaxFrameBytes
    BY <1>3, <1>5, <1>6, <1>8, HeaderRefused
  <2>2. h[1] \in Nat
    BY <1>4, <1>5, HeadersAre
  <2>3. PICK z \in Int : z = h[1] - Consumed
    BY <1>3, <2>2
  <2>4. QED
    BY <1>2, <2>1, <2>3, DecoderAssumption
<1>9. CASE header_end # None /\ header_end # Malformed
  <2>1. length_header(header_end, Prefix) = h[2]
    BY <1>3, <1>5, <1>6, <1>9, HeaderStates
  <2>2. Length = h[2]
    BY <1>1, <2>1 DEF Length, Prefix
  <2>3. LegalLength
    BY <1>1, <1>5, <1>9, <2>2 DEF LegalLength, Lengths
  <2>4. QED
    BY <1>9, <2>3
<1>10. QED
  BY <1>7, <1>8, <1>9

\* A legal header is the one that the reference finds at the cursor.
LEMMA HeaderLegal ==
    ASSUME Buffered, NEW s, Agrees(s), PartOf(s, Consumed, decoder),
           AtCount \/ AtLength, header_end # None, LegalLength
    PROVE  /\ <<Consumed + header_end + 2, Length>>
                \in Stating(s, Consumed + decoder.cursor, Prefix, Lengths)
           /\ Length \in Lengths
<1>1. AtCount <=> decoder.argument_count = None
  BY DEF AtCount, AtLength
<1>2. header_end # Malformed /\ Length \in Lengths
  BY <1>1 DEF LegalLength, Lengths
<1>3. Length = length_header(header_end, Prefix)
  BY <1>1 DEF Length, Prefix
<1>4. Length # Malformed
  BY <1>2, LengthsAre, DecoderAssumption
<1>5. header_end \in Nat
  BY <1>2, HeaderFound
<1>6. PICK p \in Nat, e \in Nat : p = Consumed + decoder.cursor /\ e = Consumed + header_end + 2
  BY <1>5, BufferedIs
<1>7. e \in Headers(s, p, Prefix) /\ Length = Stated(s, p, e)
  BY <1>2, <1>3, <1>4, <1>6, HeaderRead
<1>8. PICK h : h = <<e, Length>>
  OBVIOUS
<1>9. h[1] = e /\ h[2] = Length /\ h = <<h[1], h[2]>>
  BY <1>8
<1>10. h \in Stating(s, p, Prefix, Lengths)
  BY <1>2, <1>7, <1>9, StatingAre
<1>11. QED
  BY <1>2, <1>6, <1>8, <1>10

\* The text decode waits for is the next bulk of the frame, which fits and ends its line.
LEMMA NextBody ==
    ASSUME Buffered, NEW s, Agrees(s), PartOf(s, Consumed, decoder),
           decoder.spans \in Seq(Nat \X Nat), decoder.bulk_length \in Nat,
           NEW f \in Frames(s, Consumed)
    PROVE  /\ FitsFrame /\ Consumed + BodyEnd <= Len(s)
           /\ BodyEnd <= Len(input) => LineEnd(BodyEnd - 2)
<1>1. PICK c \in Nat, q \in Nat, n \in Nat, k \in Nat :
        c = Consumed /\ q = decoder.cursor /\ n = Len(input) /\ k = decoder.bulk_length
  BY BufferedIs
<1>2. s \in Seq(Bytes) /\ Len(s) \in Nat
  BY DEF Agrees
<1>3. decoder.bulk_length # None /\ decoder.argument_count # None
  BY DecoderAssumption DEF PartOf
<1>4. PICK h, b \in Nat \X Nat, p \in Nat :
        /\ b \in Bulks(s, p) /\ (b[1] + b[2] + 2) - c <= MaxFrameBytes
        /\ Reached(s, p, c + decoder.cursor, decoder.bulk_length)
  BY <1>1, <1>3, AfterBulks
<1>5. PICK t : t = <<c + q, k>>
  OBVIOUS
<1>6. t \in Stating(s, p, "$", 0 .. MaxBulkBytes)
  BY <1>1, <1>3, <1>4, <1>5 DEF Reached
<1>7. b \in Stating(s, p, "$", 0 .. MaxBulkBytes)
  BY <1>2, <1>4, BulkIs
<1>8. b = t
  <2>1. PICK lengths : lengths = 0 .. MaxBulkBytes
    OBVIOUS
  <2>2. QED
    BY <1>2, <1>6, <1>7, <2>1, StatingUnique
<1>9. b[1] = c + q /\ b[2] = k
  BY <1>5, <1>8
<1>10. /\ b[1] + b[2] + 2 <= Len(s)
       /\ s[b[1] + b[2] + 1] = "CR" /\ s[b[1] + b[2] + 2] = "LF"
  BY <1>2, <1>4, BulkIs
<1>11. PICK x \in Nat : x = q + k + 2 /\ x = BodyEnd
  BY <1>1 DEF BodyEnd
<1>12. (c + q) + k + 2 = c + x /\ (c + q) + k + 1 = c + (x - 2) + 1
       /\ (c + q) + k + 2 = c + (x - 1) + 1 /\ x - 2 \in Nat /\ x - 1 \in Nat /\ (x - 2) + 1 = x - 1
  BY <1>11
<1>13. c + x <= Len(s) /\ s[c + (x - 2) + 1] = "CR" /\ s[c + (x - 1) + 1] = "LF"
  BY <1>9, <1>10, <1>12
<1>14. FitsFrame
  <2>1. (c + x) - c <= MaxFrameBytes
    BY <1>4, <1>9, <1>12
  <2>2. x <= MaxFrameBytes
    BY <2>1, DecoderAssumption
  <2>3. QED
    BY <1>11, <2>2 DEF FitsFrame
<1>15. ASSUME x <= n PROVE LineEnd(x - 2)
  <2>1. x - 2 < n /\ x - 1 < n
    BY <1>11, <1>15
  <2>2. At(x - 2) = s[c + (x - 2) + 1] /\ At(x - 1) = s[c + (x - 1) + 1]
    BY <1>1, <1>12, <2>1, SameByte
  <2>3. QED
    BY <1>12, <1>13, <2>2 DEF LineEnd
<1>16. QED
  BY <1>1, <1>11, <1>13, <1>14, <1>15

\* What AwaitBody waits for is not among the bytes read, and what RejectBody rejects
\* is the beginning of no frame.
LEMMA BodyVerdict ==
    ASSUME Buffered, NEW s, Agrees(s), PartOf(s, Consumed, decoder),
           decoder.spans \in Seq(Nat \X Nat), decoder.bulk_length \in Nat,
           \/ Len(input) < BodyEnd /\ Len(s) = taken
           \/ ~FitsFrame
           \/ Len(input) >= BodyEnd /\ ~LineEnd(BodyEnd - 2)
    PROVE  Frames(s, Consumed) = {}
<1> SUFFICES ASSUME NEW f \in Frames(s, Consumed) PROVE FALSE
  OBVIOUS
<1>1. PICK c \in Nat, q \in Nat, n \in Nat, k \in Nat :
        c = Consumed /\ q = decoder.cursor /\ n = Len(input) /\ k = decoder.bulk_length
        /\ c + n = taken
  BY BufferedIs
<1>2. PICK x \in Nat : x = BodyEnd
  BY <1>1 DEF BodyEnd
<1>3. FitsFrame /\ c + x <= Len(s) /\ (x <= n => LineEnd(x - 2))
  BY <1>1, <1>2, NextBody
<1>4. ~(n < x /\ Len(s) = taken)
  BY <1>1, <1>3
<1>5. ~(n >= x /\ ~LineEnd(x - 2))
  BY <1>3
<1>6. QED
  BY <1>1, <1>2, <1>3, <1>4, <1>5

\* A text that has arrived is a bulk.
LEMMA BodyIsBulk ==
    ASSUME Buffered, NEW s, Agrees(s), NEW p \in Nat, decoder.bulk_length \in Nat, BodyArrived,
           <<Consumed + decoder.cursor, decoder.bulk_length>> \in Stating(s, p, "$", 0 .. MaxBulkBytes)
    PROVE  <<Consumed + decoder.cursor, decoder.bulk_length>> \in Bulks(s, p)
<1>1. PICK c \in Nat, q \in Nat, n \in Nat, k \in Nat :
        c = Consumed /\ q = decoder.cursor /\ n = Len(input) /\ k = decoder.bulk_length
        /\ c + n = taken
  BY BufferedIs
<1>2. s \in Seq(Bytes) /\ Len(s) \in Nat /\ taken <= Len(s)
  BY DEF Agrees
<1>3. PICK x \in Nat : x = q + k + 2 /\ x = BodyEnd
  BY <1>1 DEF BodyEnd
<1>4. x <= n /\ LineEnd(x - 2)
  BY <1>1, <1>3 DEF BodyArrived
<1>5. /\ (c + q) + k + 2 <= Len(s)
      /\ x - 2 \in Nat /\ x - 1 \in Nat /\ x - 2 < n /\ x - 1 < n /\ (x - 2) + 1 = x - 1
      /\ (c + q) + k + 1 = c + (x - 2) + 1 /\ (c + q) + k + 2 = c + (x - 1) + 1
  <2>1. x = q + k + 2 /\ x <= n
    BY <1>3, <1>4
  <2>2. c + n <= Len(s)
    BY <1>1, <1>2
  <2>3. (c + q) + k + 2 <= Len(s)
    BY <1>2, <2>1, <2>2
  <2>4. QED
    BY <2>1, <2>3
<1>6. At(x - 2) = s[c + (x - 2) + 1] /\ At(x - 1) = s[c + (x - 1) + 1]
  BY <1>1, <1>5, SameByte
<1>7. s[(c + q) + k + 1] = "CR" /\ s[(c + q) + k + 2] = "LF"
  BY <1>4, <1>5, <1>6 DEF LineEnd
<1>8. PICK t : t = <<c + q, k>> /\ t \in Stating(s, p, "$", 0 .. MaxBulkBytes)
  BY <1>1
<1>9. t[1] = c + q /\ t[2] = k
  BY <1>8
<1>10. /\ t[1] + t[2] + 2 <= Len(s) /\ s[t[1] + t[2] + 1] = "CR" /\ s[t[1] + t[2] + 2] = "LF"
  BY <1>5, <1>7, <1>9
<1>11. t \in Bulks(s, p)
  BY <1>8, <1>10 DEF Bulks
<1>12. QED
  BY <1>1, <1>8, <1>11

\* A sequence of pairs, or of anything else, with one more.
LEMMA AppendOne ==
    ASSUME NEW S, NEW g \in Seq(S), NEW b \in S
    PROVE  /\ Append(g, b) \in Seq(S) /\ Append(g, b) # <<>> /\ Len(Append(g, b)) = Len(g) + 1
           /\ Append(g, b)[Len(g) + 1] = b /\ \A i \in 1 .. Len(g) : Append(g, b)[i] = g[i]
  BY AppendProperties

\* The spans of one argument more, as bulks.
LEMMA ReadAppend ==
    ASSUME NEW c \in Nat, NEW spans \in Seq(Nat \X Nat), NEW q \in Nat, NEW k \in Nat,
           NEW span, span = <<q, q + k>>, NEW bulk, bulk = <<c + q, k>>
    PROVE  ReadOf(c, Append(spans, span)) = Append(ReadOf(c, spans), bulk)
<1> DEFINE t == Append(spans, <<q, q + k>>)
           n == Len(spans)
<1>1. /\ t \in Seq(Nat \X Nat) /\ Len(t) = n + 1 /\ n \in Nat /\ DOMAIN t = 1 .. n + 1
      /\ DOMAIN spans = 1 .. n
      /\ t[n + 1] = <<q, q + k>> /\ \A i \in 1 .. n : t[i] = spans[i]
  <2>1. <<q, q + k>> \in Nat \X Nat
    OBVIOUS
  <2>2. QED
    BY <2>1
<1> HIDE DEF t, n
<1> DEFINE g == ReadOf(c, spans)
           r == ReadOf(c, t)
           u == Append(g, <<c + q, k>>)
<1>2. /\ r = [i \in 1 .. n + 1 |-> r[i]]
      /\ \A i \in 1 .. n + 1 : r[i] = <<c + t[i][1], t[i][2] - t[i][1]>>
  BY <1>1 DEF ReadOf
<1>3. /\ g = [i \in 1 .. n |-> g[i]]
      /\ \A i \in 1 .. n : g[i] = <<c + spans[i][1], spans[i][2] - spans[i][1]>>
  BY <1>1 DEF ReadOf
<1> HIDE DEF g, r
<1>4. g \in Seq(Nat \X Int) /\ Len(g) = n
  <2>1. ASSUME NEW i \in 1 .. n PROVE g[i] \in Nat \X Int
    <3>1. spans[i] \in Nat \X Nat
      BY <1>1
    <3>2. c + spans[i][1] \in Nat /\ spans[i][2] - spans[i][1] \in Int
      BY <3>1, SMTT(30)
    <3>3. PICK x \in Nat, y \in Int : x = c + spans[i][1] /\ y = spans[i][2] - spans[i][1]
      BY <3>2
    <3>4. g[i] = <<x, y>>
      BY <1>3, <3>3, Zenon
    <3>5. QED
      BY <3>4
  <2>2. g \in [1 .. n -> Nat \X Int]
    BY <1>3, <2>1
  <2>3. QED
    BY <1>1, <2>2
<1>5. /\ u = [i \in 1 .. n + 1 |-> u[i]]
      /\ u[n + 1] = <<c + q, k>> /\ \A i \in 1 .. n : u[i] = g[i]
  <2>0. c + q \in Nat /\ k \in Int
    OBVIOUS
  <2>1. PICK b \in Nat \X Int : b = <<c + q, k>>
    BY <2>0
  <2>2. u = Append(g, b)
    BY <2>1
  <2> HIDE DEF u
  <2>3. u \in Seq(Nat \X Int) /\ Len(u) = n + 1 /\ u[n + 1] = b /\ \A i \in 1 .. n : u[i] = g[i]
    BY <1>4, <2>2, AppendOne
  <2>4. QED
    BY <1>1, <2>1, <2>3
<1> HIDE DEF u
<1>6. ASSUME NEW i \in 1 .. n + 1 PROVE r[i] = u[i]
  <2>1. CASE i = n + 1
    <3>1. t[i][1] = q /\ t[i][2] = q + k
      BY <1>1, <2>1
    <3>2. (q + k) - q = k
      OBVIOUS
    <3>3. r[i] = <<c + t[i][1], t[i][2] - t[i][1]>>
      BY <1>2
    <3>4. QED
      BY <1>5, <2>1, <3>1, <3>2, <3>3
  <2>2. CASE i # n + 1
    <3>1. i \in 1 .. n
      BY <1>1, <2>2
    <3>2. t[i] = spans[i] /\ u[i] = g[i]
      BY <1>1, <1>5, <3>1
    <3>3. QED
      BY <1>2, <1>3, <3>1, <3>2
  <2>3. QED
    BY <2>1, <2>2
<1>7. r = u
  BY <1>2, <1>5, <1>6
<1>8. QED
  BY <1>7 DEF r, u, g, t

\* With its text the argument is one bulk more of the frame.
LEMMA BodyTaken ==
    ASSUME Buffered, NEW s, Agrees(s), PartOf(s, Consumed, decoder),
           decoder.spans \in Seq(Nat \X Nat), decoder.bulk_length \in Nat, BodyArrived
    PROVE  \E h \in Stating(s, Consumed, "*", 1 .. MaxArguments) :
             /\ h[2] = decoder.argument_count /\ Len(Spans) <= h[2]
             /\ ReadOf(Consumed, Spans) \in BulkSeqs(s, h[1], Len(Spans))
             /\ \A p : End(ReadOf(Consumed, Spans), p) = Consumed + BodyEnd
<1>1. PICK c \in Nat, q \in Nat, k \in Nat :
        c = Consumed /\ q = decoder.cursor /\ k = decoder.bulk_length
  BY BufferedIs
<1>2. s \in Seq(Bytes)
  BY DEF Agrees
<1>3. decoder.bulk_length # None /\ decoder.argument_count # None
  BY DecoderAssumption DEF PartOf
<1>4. PICK h \in Stating(s, c, "*", 1 .. MaxArguments) : Follows(s, c, decoder, h)
  BY <1>1, <1>3 DEF PartOf
<1>5. h[1] \in Nat /\ h[2] \in Nat
  BY <1>1, <1>2, CountIs
<1>6. PICK n \in Nat : n = Len(decoder.spans)
  OBVIOUS
<1>7. PICK g : g = ReadOf(c, decoder.spans)
  OBVIOUS
<1>8. /\ h[2] = decoder.argument_count /\ n < h[2] /\ g \in BulkSeqs(s, h[1], n)
      /\ Reached(s, End(g, h[1]), c + decoder.cursor, decoder.bulk_length)
  BY <1>4, <1>6, <1>7 DEF Follows
<1>9. Chain(s, h[1], g, n)
  BY <1>2, <1>5, <1>6, <1>8, BulkSeqsChain
<1>10. PICK p \in Nat : p = End(g, h[1])
  BY <1>2, <1>5, <1>9, ChainEnd
<1>11. PICK b : b = <<c + q, k>>
  OBVIOUS
<1>12. b \in Bulks(s, p)
  <2>1. <<c + decoder.cursor, decoder.bulk_length>> \in Stating(s, p, "$", 0 .. MaxBulkBytes)
    BY <1>3, <1>8, <1>10 DEF Reached
  <2>2. QED
    BY <1>1, <1>10, <1>11, <2>1, BodyIsBulk
<1>13. PICK t : t = Spans
  OBVIOUS
<1>14. t = Append(decoder.spans, <<q, q + k>>)
  <2>1. BodyEnd - 2 = q + k
    BY <1>1 DEF BodyEnd
  <2>2. QED
    BY <1>1, <1>13, <2>1 DEF Spans
<1>15. Len(t) = n + 1
  <2>1. <<q, q + k>> \in Nat \X Nat
    OBVIOUS
  <2>2. QED
    BY <1>6, <1>14, <2>1
<1>16. PICK f : f = Append(g, b)
  OBVIOUS
<1>17. ReadOf(c, t) = f
  <2>1. PICK spans \in Seq(Nat \X Nat) : spans = decoder.spans
    OBVIOUS
  <2>2. PICK z : z = <<q, q + k>>
    OBVIOUS
  <2>3. ReadOf(c, Append(spans, z)) = Append(ReadOf(c, spans), b)
    BY <1>11, <2>2, ReadAppend, SMTT(30)
  <2>4. t = Append(spans, z)
    BY <1>14, <2>1, <2>2
  <2>5. QED
    BY <1>7, <1>16, <2>1, <2>3, <2>4
<1>18. f \in BulkSeqs(s, h[1], n + 1)
  <2>1. BulkSeqs(s, h[1], n + 1) = More(s, h[1], BulkSeqs(s, h[1], n))
    BY <1>6, BulkSeqsSteps
  <2>2. f \in More(s, h[1], BulkSeqs(s, h[1], n))
    BY <1>8, <1>10, <1>12, <1>16 DEF More
  <2>3. QED
    BY <2>1, <2>2
<1>19. ASSUME NEW z PROVE End(f, z) = Consumed + BodyEnd
  <2>1. g \in Seq(Nat \X Nat) /\ Len(g) = n /\ b \in Nat \X Nat /\ b[1] = c + q /\ b[2] = k
    BY <1>9, <1>11 DEF Chain
  <2>2. f # <<>> /\ Len(f) = n + 1 /\ f[n + 1] = b
    <3>1. PICK S : S = Nat \X Nat
      OBVIOUS
    <3>2. g \in Seq(S) /\ b \in S
      BY <2>1, <3>1
    <3>3. f # <<>> /\ Len(f) = Len(g) + 1 /\ f[Len(g) + 1] = b
      BY <1>16, <3>2, AppendOne
    <3>4. QED
      BY <2>1, <3>3
  <2>3. End(f, z) = (c + q) + k + 2
    BY <2>1, <2>2 DEF End
  <2>4. BodyEnd = q + k + 2
    BY <1>1 DEF BodyEnd
  <2>5. QED
    BY <1>1, <2>3, <2>4, SMTT(30)
<1>20. n + 1 <= h[2]
  BY <1>5, <1>6, <1>8
<1>21. QED
  BY <1>1, <1>4, <1>8, <1>13, <1>15, <1>17, <1>18, <1>19, <1>20

\* With the last of them it is a frame.
LEMMA FrameTaken ==
    ASSUME Buffered, NEW s, Agrees(s), PartOf(s, Consumed, decoder),
           decoder.spans \in Seq(Nat \X Nat), decoder.bulk_length \in Nat, BodyArrived,
           Len(Spans) = decoder.argument_count
    PROVE  /\ ReadOf(Consumed, Spans) \in Frames(s, Consumed)
           /\ End(ReadOf(Consumed, Spans), Consumed) = Consumed + BodyEnd
<1>1. PICK c \in Nat, x \in Nat : c = Consumed /\ x = BodyEnd
  BY BufferedIs DEF BodyEnd
<1>2. PICK f : f = ReadOf(Consumed, Spans)
  OBVIOUS
<1>3. PICK h \in Stating(s, c, "*", 1 .. MaxArguments) :
        /\ h[2] = decoder.argument_count
        /\ f \in BulkSeqs(s, h[1], Len(Spans))
        /\ \A p : End(f, p) = c + x
  BY <1>1, <1>2, BodyTaken
<1>4. f \in BulkSeqs(s, h[1], h[2]) /\ End(f, c) = c + x
  BY <1>3
<1>5. x <= MaxFrameBytes
  BY <1>1 DEF BodyArrived, FitsFrame
<1>6. (c + x) - c <= MaxFrameBytes
  BY <1>5, DecoderAssumption
<1>7. f \in Frames(s, c)
  BY <1>3, <1>4, <1>6, FramesAre
<1>8. QED
  BY <1>1, <1>2, <1>4, <1>7

\* Every argument of it lies in the buffer.
LEMMA ArgumentIs ==
    ASSUME Buffered, NEW s, Agrees(s), NEW spans \in Seq(Nat \X Nat),
           NEW f, f = ReadOf(Consumed, spans), f \in Frames(s, Consumed),
           NEW x \in Nat, x <= Len(input), End(f, Consumed) = Consumed + x,
           NEW i \in DOMAIN spans
    PROVE  Slice(spans[i][1], spans[i][2]) = SubSeq(s, f[i][1] + 1, f[i][1] + f[i][2])
<1>1. PICK c \in Nat, n \in Nat : c = Consumed /\ n = Len(input)
  BY BufferedIs
<1>2. s \in Seq(Bytes)
  BY DEF Agrees
<1>3. spans[i] \in Nat \X Nat
  OBVIOUS
<1>4. PICK a \in Nat, b \in Nat : a = spans[i][1] /\ b = spans[i][2]
  BY <1>3
<1>5. f[i] = <<c + a, b - a>> /\ DOMAIN f = DOMAIN spans
  BY <1>1, <1>4 DEF ReadOf
<1>6. f[i][1] = c + a /\ f[i][2] = b - a
  BY <1>5
<1>7. PICK h \in Stating(s, c, "*", 1 .. MaxArguments) :
        Chain(s, h[1], f, h[2]) /\ End(f, c) = EndAt(f, h[1], h[2])
  BY <1>1, <1>2, FrameChain
<1>8. PICK p \in Nat, m \in Nat : p = h[1] /\ m = h[2]
  BY <1>1, <1>2, CountIs
<1>9. Chain(s, p, f, m) /\ EndAt(f, p, m) = c + x
  BY <1>1, <1>7, <1>8
<1>10. i \in 1 .. m
  <2>1. f \in Seq(Nat \X Nat) /\ Len(f) = m
    BY <1>9 DEF Chain
  <2>2. DOMAIN f = 1 .. m
    BY <2>1
  <2>3. QED
    BY <1>5, <2>2
<1>11. m \in 0 .. m /\ i \in 0 .. m
  BY <1>10
<1>12. EndAt(f, p, i) <= EndAt(f, p, m)
  BY <1>2, <1>9, <1>11, ChainForward
<1>13. EndAt(f, p, i) = f[i][1] + f[i][2] + 2
  BY <1>2, <1>9, <1>10, ChainPlaces, SMTT(30)
<1>14. (c + a) + (b - a) + 2 <= c + x
  BY <1>6, <1>9, <1>12, <1>13
<1>15. b <= n /\ (c + a) + (b - a) = c + b
  BY <1>1, <1>14
<1>16. Slice(a, b) = SubSeq(s, (c + a) + 1, c + b)
  BY <1>1, <1>15, SamePiece, ZenonT(30)
<1>17. QED
  BY <1>4, <1>6, <1>15, <1>16

\* What TakeRequest returns is the request of that frame.
LEMMA RequestTaken ==
    ASSUME Buffered, NEW s, Agrees(s), PartOf(s, Consumed, decoder),
           decoder.spans \in Seq(Nat \X Nat), decoder.bulk_length \in Nat, BodyArrived,
           Len(Spans) = decoder.argument_count
    PROVE  RequestOf(s, ReadOf(Consumed, Spans)) = [i \in DOMAIN Spans |-> Slice(Spans[i][1], Spans[i][2])]
<1>1. PICK q \in Nat, k \in Nat : q = decoder.cursor /\ k = decoder.bulk_length
  BY BufferedIs
<1>2. PICK x \in Nat : x = BodyEnd /\ x <= Len(input)
  BY <1>1 DEF BodyEnd, BodyArrived
<1>3. PICK t \in Seq(Nat \X Nat) : t = Spans
  <2>1. BodyEnd - 2 \in Nat
    BY <1>1 DEF BodyEnd
  <2>2. PICK z \in Nat \X Nat : z = <<decoder.cursor, BodyEnd - 2>>
    BY <1>1, <2>1
  <2>3. Append(decoder.spans, z) \in Seq(Nat \X Nat)
    BY AppendOne
  <2>4. QED
    BY <2>2, <2>3 DEF Spans
<1>4. PICK f : f = ReadOf(Consumed, t)
  OBVIOUS
<1>5. f \in Frames(s, Consumed) /\ End(f, Consumed) = Consumed + x
  BY <1>2, <1>3, <1>4, FrameTaken
<1>6. \A i \in DOMAIN t : Slice(t[i][1], t[i][2]) = SubSeq(s, f[i][1] + 1, f[i][1] + f[i][2])
  BY <1>2, <1>4, <1>5, ArgumentIs, SMTT(30)
<1>7. DOMAIN f = DOMAIN t
  BY <1>4 DEF ReadOf
<1>8. RequestOf(s, f) = [i \in DOMAIN t |-> Slice(t[i][1], t[i][2])]
  BY <1>6, <1>7 DEF RequestOf
<1>9. QED
  BY <1>3, <1>4, <1>8

-----------------------------------------------------------------------------
(***************************************************************************)
(* The inductive invariant.  Whatever may still come, the requests         *)
(* returned are those of the frames consumed and the decoder has read the  *)
(* beginning of the next frame; decode asks for more bytes only when those *)
(* read hold no further frame, and a connection ends only when its stream  *)
(* holds none.                                                             *)
(***************************************************************************)
Faithful == \A s : Agrees(s) => Decoded(s, requests, Consumed) /\ PartOf(s, Consumed, decoder)

Waits == pc = "read" => \A s : Agrees(s) /\ Len(s) = taken => Frames(s, Consumed) = {}

Ends == pc \in {"closed", "failed"} =>
            Frames(stream, Consumed) = {} /\ (pc = "closed" <=> Consumed = Len(stream))

StreamInv ==
    /\ Buffered /\ Faithful /\ Waits /\ Ends
    /\ requests \in Seq(Requests)
    /\ decoder.argument_count # None => decoder.cursor > 0
    /\ pc \in {"decode", "read", "closed", "failed"}

\* The types of the decoder's fields.
LEMMA DecoderIs ==
    ASSUME Buffered
    PROVE  /\ DOMAIN decoder = DecoderFields /\ decoder.spans \in Seq(Nat \X Nat)
           /\ decoder.bulk_length \in Nat \cup {None}
  BY DEF Buffered, IInv, Typed

\* The stream itself, and what has been read of it, are such streams.
LEMMA StreamsAgree ==
    ASSUME Buffered
    PROVE  /\ Agrees(stream)
           /\ Agrees(SubSeq(stream, 1, taken)) /\ Len(SubSeq(stream, 1, taken)) = taken
<1>1. stream \in Seq(Bytes) /\ taken \in Nat /\ taken <= Len(stream)
  BY BufferedIs
<1>2. Agrees(stream)
  BY <1>1 DEF Agrees
<1>3. /\ SubSeq(stream, 1, taken) \in Seq(Bytes) /\ Len(SubSeq(stream, 1, taken)) = taken
      /\ \A i \in 1 .. taken : SubSeq(stream, 1, taken)[i] = stream[i]
  BY <1>1
<1>4. QED
  BY <1>1, <1>2, <1>3 DEF Agrees

\* A step of decode that returns no request leaves the bytes alone.
LEMMA SameBytes ==
    ASSUME Buffered, UNCHANGED <<stream, taken, input>>
    PROVE  /\ Consumed' = Consumed /\ Kept'
           /\ \A s : Agrees(s)' <=> Agrees(s)
<1>1. Consumed' = Consumed
  BY DEF Consumed
<1>2. Kept'
  BY <1>1 DEF Buffered, Kept
<1>3. QED
  BY <1>1, <1>2 DEF Agrees

\* PartOf looks at some of the decoder's fields only.
LEMMA PartOfFields ==
    ASSUME NEW s, NEW c, NEW d, NEW e, e.cursor = d.cursor, e.argument_count = d.argument_count,
           e.bulk_length = d.bulk_length, e.spans = d.spans, PartOf(s, c, d)
    PROVE  PartOf(s, c, e)
  BY DEF PartOf, Follows

\* decode waits for the rest of a header.
LEMMA StepAwaitHeader == StreamInv /\ IInv' /\ AwaitHeader => StreamInv'
<1> SUFFICES ASSUME StreamInv, IInv', AwaitHeader PROVE StreamInv'
  OBVIOUS
<1>0. Buffered /\ Faithful /\ requests \in Seq(Requests)
      /\ (decoder.argument_count # None => decoder.cursor > 0)
  BY DEF StreamInv
<1>1. /\ AtCount \/ AtLength
      /\ header_end = None /\ decoder' = [decoder EXCEPT !.scan = Scanned] /\ pc' = "read"
      /\ UNCHANGED <<stream, taken, input, requests>>
  BY DEF AwaitHeader
<1>2. Consumed' = Consumed /\ Kept' /\ \A s : Agrees(s)' <=> Agrees(s)
  BY <1>0, <1>1, SameBytes
<1>3. /\ DOMAIN decoder = DecoderFields /\ decoder.spans \in Seq(Nat \X Nat)
  BY <1>0, DecoderIs
<1>4. PICK m : m = Scanned
  OBVIOUS
<1>5. /\ decoder'.cursor = decoder.cursor /\ decoder'.scan = m
      /\ decoder'.argument_count = decoder.argument_count
      /\ decoder'.bulk_length = decoder.bulk_length /\ decoder'.spans = decoder.spans
  BY <1>1, <1>3, <1>4 DEF DecoderFields
<1>6. Unended'
  <2>1. PICK cursor \in Nat, scan \in Nat, n \in Nat :
          cursor = decoder.cursor /\ scan = decoder.scan /\ n = Len(input)
    BY <1>0, BufferedIs
  <2>2. Stops = {}
    BY <1>0, <1>1, HeaderEnd DEF Buffered, IInv
  <2>3. m \in {scan, n - 1}
    <3>1. m = Max({decoder.scan, Len(input) - 1})
      BY <1>4, <2>2 DEF Scanned
    <3>2. PICK a \in Int, b \in Int : a = scan /\ b = n - 1
      OBVIOUS
    <3>3. m = Max({a, b})
      BY <2>1, <3>1, <3>2
    <3>4. QED
      BY <3>2, <3>3, MinMaxOfTwo
  <2>4. ASSUME NEW q \in cursor .. m - 1 PROVE q + 1 < n /\ ~LineEnd(q)
    <3>1. CASE q \in cursor .. scan - 1
      BY <1>0, <2>1, <3>1 DEF Buffered, Unended
    <3>2. CASE ~(q \in cursor .. scan - 1)
      <4>1. q \in scan .. n - 2
        BY <2>1, <2>3, <3>2
      <4>2. q + 1 < n
        BY <2>1, <4>1
      <4>3. ~LineEnd(q)
        BY <2>1, <2>2, <4>1 DEF Stops
      <4>4. QED
        BY <4>2, <4>3
    <3>3. QED
      BY <3>1, <3>2
  <2>5. \A q : LineEnd(q)' <=> LineEnd(q)
    BY <1>1 DEF LineEnd, At
  <2>6. QED
    BY <1>1, <1>5, <2>1, <2>4, <2>5 DEF Unended
<1>7. Faithful'
  <2>1. ASSUME NEW s, Agrees(s) PROVE Decoded(s, requests', Consumed') /\ PartOf(s, Consumed', decoder')
    <3>1. Decoded(s, requests, Consumed) /\ PartOf(s, Consumed, decoder)
      BY <1>0, <2>1 DEF Faithful
    <3>2. PartOf(s, Consumed, decoder')
      BY <1>5, <3>1, PartOfFields
    <3>3. QED
      BY <1>1, <1>2, <3>1, <3>2
  <2>2. QED
    BY <1>2, <2>1 DEF Faithful
<1>8. Waits'
  <2>1. ASSUME NEW s, Agrees(s), Len(s) = taken PROVE Frames(s, Consumed) = {}
    <3>1. PartOf(s, Consumed, decoder)
      BY <1>0, <2>1 DEF Faithful
    <3>2. QED
      BY <1>0, <1>1, <1>3, <2>1, <3>1, HeaderVerdict
  <2>2. QED
    BY <1>1, <1>2, <2>1 DEF Waits
<1>9. Ends'
  BY <1>1 DEF Ends
<1>10. QED
  BY <1>0, <1>1, <1>2, <1>5, <1>6, <1>7, <1>8, <1>9 DEF StreamInv, Buffered

\* A connection fails when its stream holds no further frame, and bytes are left over.
LEMMA Fails ==
    ASSUME StreamInv, UNCHANGED <<stream, taken, input, decoder, requests>>, IInv',
           pc' = "failed", Len(input) > 0, Frames(stream, Consumed) = {}
    PROVE  StreamInv'
<1>0. Buffered /\ Faithful /\ requests \in Seq(Requests)
      /\ (decoder.argument_count # None => decoder.cursor > 0)
  BY DEF StreamInv
<1>1. Consumed' = Consumed /\ Kept' /\ \A s : Agrees(s)' <=> Agrees(s)
  BY <1>0, SameBytes
<1>2. Unended'
  BY <1>0 DEF Buffered, Unended, LineEnd, At
<1>3. Faithful'
  BY <1>0, <1>1 DEF Faithful
<1>4. Waits'
  BY DEF Waits
<1>5. Consumed # Len(stream)
  <2>1. PICK c \in Nat, n \in Nat : c = Consumed /\ n = Len(input) /\ c + n = taken /\ taken <= Len(stream)
    BY <1>0, BufferedIs
  <2>2. stream \in Seq(Bytes)
    BY <1>0, BufferedIs
  <2>3. c < Len(stream)
    BY <2>1, <2>2
  <2>4. QED
    BY <2>1, <2>3
<1>6. Ends'
  BY <1>1, <1>5 DEF Ends
<1>7. QED
  BY <1>0, <1>1, <1>2, <1>3, <1>4, <1>6 DEF StreamInv, Buffered

\* decode refuses a header.
LEMMA StepRejectHeader == StreamInv /\ IInv' /\ RejectHeader => StreamInv'
<1> SUFFICES ASSUME StreamInv, IInv', RejectHeader PROVE StreamInv'
  OBVIOUS
<1>0. Buffered /\ Faithful
  BY DEF StreamInv
<1>1. /\ AtCount \/ AtLength
      /\ header_end # None /\ ~LegalLength /\ pc' = "failed"
      /\ UNCHANGED <<stream, taken, input, decoder, requests>>
  BY DEF RejectHeader
<1>2. Agrees(stream)
  BY <1>0, StreamsAgree
<1>3. PartOf(stream, Consumed, decoder) /\ decoder.spans \in Seq(Nat \X Nat)
  BY <1>0, <1>2, DecoderIs DEF Faithful
<1>4. Frames(stream, Consumed) = {}
  BY <1>0, <1>1, <1>2, <1>3, HeaderVerdict
<1>5. Len(input) > 0
  <2>1. PICK cursor \in Nat, n \in Nat : cursor = decoder.cursor /\ n = Len(input)
    BY <1>0, BufferedIs
  <2>2. CASE Stops = {}
    <3>1. n - cursor >= MaxHeaderBytes \/ n >= MaxFrameBytes
      BY <1>1, <2>1, <2>2 DEF header_end
    <3>2. QED
      BY <2>1, <3>1, DecoderAssumption
  <2>3. CASE Stops # {}
    <3>1. PICK m \in Nat : m + 2 <= n
      BY <1>0, <2>1, <2>3, FirstStop
    <3>2. QED
      BY <2>1, <3>1
  <2>4. QED
    BY <2>2, <2>3
<1>6. QED
  BY <1>1, <1>4, <1>5, Fails

\* decode refuses a text.
LEMMA StepRejectBody == StreamInv /\ IInv' /\ RejectBody => StreamInv'
<1> SUFFICES ASSUME StreamInv, IInv', RejectBody PROVE StreamInv'
  OBVIOUS
<1>0. Buffered /\ Faithful /\ (decoder.argument_count # None => decoder.cursor > 0)
  BY DEF StreamInv
<1>1. /\ decoder.bulk_length # None
      /\ \/ ~FitsFrame
         \/ Len(input) >= BodyEnd /\ ~LineEnd(BodyEnd - 2)
      /\ pc' = "failed" /\ UNCHANGED <<stream, taken, input, decoder, requests>>
  BY DEF RejectBody, AtBody
<1>2. Agrees(stream)
  BY <1>0, StreamsAgree
<1>3. PartOf(stream, Consumed, decoder) /\ decoder.spans \in Seq(Nat \X Nat)
      /\ decoder.bulk_length \in Nat
  BY <1>0, <1>1, <1>2, DecoderIs DEF Faithful
<1>4. Frames(stream, Consumed) = {}
  BY <1>0, <1>1, <1>2, <1>3, BodyVerdict
<1>5. Len(input) > 0
  <2>1. decoder.argument_count # None
    BY <1>1, <1>3 DEF PartOf
  <2>2. PICK cursor \in Nat, scan \in Nat, n \in Nat :
          cursor = decoder.cursor /\ n = Len(input) /\ cursor <= scan /\ scan <= n
    BY <1>0, BufferedIs
  <2>3. QED
    BY <1>0, <2>1, <2>2
<1>6. QED
  BY <1>1, <1>4, <1>5, Fails

\* decode waits for the rest of a text.
LEMMA StepAwaitBody == StreamInv /\ IInv' /\ AwaitBody => StreamInv'
<1> SUFFICES ASSUME StreamInv, IInv', AwaitBody PROVE StreamInv'
  OBVIOUS
<1>0. Buffered /\ Faithful /\ requests \in Seq(Requests)
      /\ (decoder.argument_count # None => decoder.cursor > 0)
  BY DEF StreamInv
<1>1. /\ decoder.bulk_length # None /\ Len(input) < BodyEnd
      /\ pc' = "read" /\ UNCHANGED <<stream, taken, input, decoder, requests>>
  BY DEF AwaitBody, AtBody
<1>2. Consumed' = Consumed /\ Kept' /\ \A s : Agrees(s)' <=> Agrees(s)
  BY <1>0, <1>1, SameBytes
<1>3. Unended'
  BY <1>0, <1>1 DEF Buffered, Unended, LineEnd, At
<1>4. Faithful'
  BY <1>0, <1>1, <1>2 DEF Faithful
<1>5. Waits'
  <2>1. decoder.spans \in Seq(Nat \X Nat) /\ decoder.bulk_length \in Nat
    BY <1>0, <1>1, DecoderIs
  <2>2. ASSUME NEW s, Agrees(s), Len(s) = taken PROVE Frames(s, Consumed) = {}
    <3>1. PartOf(s, Consumed, decoder)
      BY <1>0, <2>2 DEF Faithful
    <3>2. QED
      BY <1>0, <1>1, <2>1, <2>2, <3>1, BodyVerdict
  <2>3. QED
    BY <1>1, <1>2, <2>2 DEF Waits
<1>6. Ends'
  BY <1>1 DEF Ends
<1>7. QED
  BY <1>0, <1>1, <1>2, <1>3, <1>4, <1>5, <1>6 DEF StreamInv, Buffered

\* decode goes on in the buffer: nothing lies between the cursor and the scan position.
LEMMA GoesOn ==
    ASSUME StreamInv, IInv', UNCHANGED <<stream, taken, input, requests>>, pc' = "decode",
           decoder'.cursor \in Nat, decoder'.scan = decoder'.cursor, decoder'.cursor > 0,
           \A s : Agrees(s) => PartOf(s, Consumed, decoder')
    PROVE  StreamInv'
<1>0. Buffered /\ Faithful /\ requests \in Seq(Requests)
  BY DEF StreamInv
<1>1. Consumed' = Consumed /\ Kept' /\ \A s : Agrees(s)' <=> Agrees(s)
  BY <1>0, SameBytes
<1>2. Unended'
  <2>1. decoder'.cursor .. decoder'.scan - 1 = {}
    OBVIOUS
  <2>2. QED
    BY <2>1 DEF Unended
<1>3. Faithful'
  BY <1>0, <1>1 DEF Faithful
<1>4. Waits' /\ Ends'
  BY DEF Waits, Ends
<1>5. QED
  BY <1>0, <1>1, <1>2, <1>3, <1>4 DEF StreamInv, Buffered

\* decode takes a header.
LEMMA StepTakeHeader == StreamInv /\ IInv' /\ TakeHeader => StreamInv'
<1> SUFFICES ASSUME StreamInv, IInv', TakeHeader PROVE StreamInv'
  OBVIOUS
<1>0. Buffered /\ Faithful
  BY DEF StreamInv
<1>1. /\ AtCount \/ AtLength
      /\ header_end # None /\ LegalLength
      /\ decoder' = [advance_header(header_end) EXCEPT
                        !.argument_count = IF AtCount THEN Length ELSE @,
                        !.bulk_length = IF AtCount THEN @ ELSE Length]
      /\ UNCHANGED <<stream, taken, input, requests, pc>>
  BY DEF TakeHeader
<1>2. /\ pc = "decode" /\ (AtCount <=> decoder.argument_count = None)
  BY <1>1 DEF AtCount, AtLength
<1>3. Agrees(stream)
  BY <1>0, StreamsAgree
<1>4. PartOf(stream, Consumed, decoder)
  BY <1>0, <1>3 DEF Faithful
<1>5. PICK n : n = Length /\ n \in Lengths
  BY <1>0, <1>1, <1>3, <1>4, HeaderLegal
<1>6. n \in Nat /\ n # None
  BY <1>5, LengthsAre, DecoderAssumption
<1>7. header_end # Malformed
  BY <1>1 DEF LegalLength
<1>8. PICK m \in Nat : m = header_end
  BY <1>0, <1>1, <1>7, HeaderFound
<1>9. DOMAIN decoder = DecoderFields /\ decoder.spans \in Seq(Nat \X Nat)
  BY <1>0, DecoderIs
<1>10. decoder.bulk_length = None
  BY <1>1, <1>4 DEF AtCount, AtLength, PartOf
<1>11. PICK d : /\ d = decoder' /\ d.cursor = m + 2 /\ d.scan = m + 2 /\ d.spans = decoder.spans
                /\ d.argument_count = IF AtCount THEN n ELSE decoder.argument_count
                /\ d.bulk_length = IF AtCount THEN None ELSE n
  <2>1. PICK b : b = [decoder EXCEPT !.cursor = m + 2, !.scan = m + 2]
    OBVIOUS
  <2>2. /\ DOMAIN b = DecoderFields /\ b.cursor = m + 2 /\ b.scan = m + 2 /\ b.spans = decoder.spans
        /\ b.argument_count = decoder.argument_count /\ b.bulk_length = None
    BY <1>9, <1>10, <2>1 DEF DecoderFields
  <2>3. decoder' = [b EXCEPT !.argument_count = IF AtCount THEN n ELSE @,
                             !.bulk_length = IF AtCount THEN @ ELSE n]
    BY <1>1, <1>5, <1>8, <2>1 DEF advance_header
  <2>4. CASE AtCount
    <3>1. decoder' = [b EXCEPT !.argument_count = n, !.bulk_length = None]
      BY <2>2, <2>3, <2>4
    <3>2. /\ decoder'.cursor = m + 2 /\ decoder'.scan = m + 2 /\ decoder'.spans = decoder.spans
          /\ decoder'.argument_count = n /\ decoder'.bulk_length = None
      BY <2>2, <3>1 DEF DecoderFields
    <3>3. QED
      BY <2>4, <3>2
  <2>5. CASE ~AtCount
    <3>1. decoder' = [b EXCEPT !.argument_count = decoder.argument_count, !.bulk_length = n]
      BY <2>2, <2>3, <2>5
    <3>2. /\ decoder'.cursor = m + 2 /\ decoder'.scan = m + 2 /\ decoder'.spans = decoder.spans
          /\ decoder'.argument_count = decoder.argument_count /\ decoder'.bulk_length = n
      BY <2>2, <3>1 DEF DecoderFields
    <3>3. QED
      BY <2>5, <3>2
  <2>6. QED
    BY <2>4, <2>5
<1>12. ASSUME NEW s, Agrees(s) PROVE PartOf(s, Consumed, d)
  <2>1. PartOf(s, Consumed, decoder)
    BY <1>0, <1>12 DEF Faithful
  <2>2. PICK c \in Nat, p \in Nat, e \in Nat : c = Consumed /\ p = c + decoder.cursor /\ e = c + m + 2
    BY <1>0, BufferedIs
  <2>3. PICK h : h = <<e, n>>
    OBVIOUS
  <2>4. h \in Stating(s, p, Prefix, Lengths)
    BY <1>0, <1>1, <1>5, <1>8, <1>12, <2>1, <2>2, <2>3, HeaderLegal
  <2>5. h[1] = e /\ h[2] = n
    BY <2>3
  <2>6. CASE AtCount
    <3>1. /\ decoder.cursor = 0 /\ d.spans = <<>> /\ d.bulk_length = None /\ d.argument_count = n
      BY <1>2, <1>11, <2>1, <2>6 DEF PartOf
    <3>2. p = c /\ c + d.cursor = e
      BY <1>11, <2>2, <3>1
    <3>3. Prefix = "*" /\ Lengths = 1 .. MaxArguments
      BY <1>2, <2>6 DEF Prefix, Lengths
    <3>4. h \in Stating(s, c, "*", 1 .. MaxArguments)
      BY <2>4, <3>2, <3>3
    <3>5. ReadOf(c, <<>>) = <<>>
      BY DEF ReadOf
    <3>6. <<>> \in BulkSeqs(s, e, 0) /\ Len(<<>>) = 0
      BY BulkSeqsSteps
    <3>7. End(<<>>, e) = e
      BY DEF End
    <3>8. n \in Nat /\ 0 < n
      BY <1>5, <3>3, DecoderAssumption
    <3>9. Reached(s, e, c + d.cursor, d.bulk_length)
      BY <3>1, <3>2 DEF Reached
    <3>10. Follows(s, c, d, h)
      BY <2>5, <3>1, <3>5, <3>6, <3>7, <3>8, <3>9 DEF Follows
    <3>11. QED
      BY <1>6, <2>2, <3>1, <3>4, <3>10 DEF PartOf
  <2>7. CASE ~AtCount
    <3>1. /\ decoder.argument_count # None /\ d.argument_count = decoder.argument_count
          /\ d.bulk_length = n /\ d.spans = decoder.spans
      BY <1>2, <1>11, <2>7
    <3>2. PICK k \in Stating(s, c, "*", 1 .. MaxArguments) : Follows(s, c, decoder, k)
      BY <2>1, <2>2, <3>1 DEF PartOf
    <3>3. End(ReadOf(c, decoder.spans), k[1]) = p
      BY <1>10, <2>2, <3>2 DEF Follows, Reached
    <3>4. Prefix = "$" /\ Lengths = 0 .. MaxBulkBytes
      BY <1>2, <2>7 DEF Prefix, Lengths
    <3>5. c + d.cursor = e
      BY <1>11, <2>2
    <3>6. Reached(s, p, c + d.cursor, d.bulk_length)
      BY <1>6, <2>3, <2>4, <3>1, <3>4, <3>5 DEF Reached
    <3>7. Follows(s, c, d, k)
      BY <3>1, <3>2, <3>3, <3>6 DEF Follows
    <3>8. QED
      BY <2>2, <3>1, <3>2, <3>7 DEF PartOf
  <2>8. QED
    BY <2>6, <2>7
<1>13. d.cursor \in Nat /\ d.scan = d.cursor /\ d.cursor > 0
  BY <1>11
<1>14. QED
  BY <1>1, <1>2, <1>11, <1>12, <1>13, GoesOn

\* decode takes an argument.
LEMMA StepTakeArgument == StreamInv /\ IInv' /\ TakeArgument => StreamInv'
<1> SUFFICES ASSUME StreamInv, IInv', TakeArgument PROVE StreamInv'
  OBVIOUS
<1>0. Buffered /\ Faithful
  BY DEF StreamInv
<1>1. /\ BodyArrived /\ Len(Spans) # decoder.argument_count
      /\ decoder' = [decoder EXCEPT !.spans = Spans, !.cursor = BodyEnd, !.scan = BodyEnd,
                                    !.bulk_length = None]
      /\ UNCHANGED <<stream, taken, input, requests, pc>>
  BY DEF TakeArgument
<1>2. pc = "decode" /\ decoder.bulk_length # None
  BY <1>1 DEF BodyArrived, AtBody
<1>3. /\ DOMAIN decoder = DecoderFields /\ decoder.spans \in Seq(Nat \X Nat)
      /\ decoder.bulk_length \in Nat
  BY <1>0, <1>2, DecoderIs
<1>4. PICK x \in Nat : x = BodyEnd /\ x > 0
  BY <1>0, <1>3, BufferedIs DEF BodyEnd
<1>5. PICK t : t = Spans
  OBVIOUS
<1>6. PICK d : /\ d = decoder' /\ d.cursor = x /\ d.scan = x /\ d.spans = t
               /\ d.argument_count = decoder.argument_count /\ d.bulk_length = None
  <2>1. decoder' = [decoder EXCEPT !.spans = t, !.cursor = x, !.scan = x, !.bulk_length = None]
    BY <1>1, <1>4, <1>5
  <2>2. /\ decoder'.cursor = x /\ decoder'.scan = x /\ decoder'.spans = t
        /\ decoder'.argument_count = decoder.argument_count /\ decoder'.bulk_length = None
    BY <1>3, <2>1 DEF DecoderFields
  <2>3. QED
    BY <2>2
<1>7. ASSUME NEW s, Agrees(s) PROVE PartOf(s, Consumed, d)
  <2>1. PartOf(s, Consumed, decoder)
    BY <1>0, <1>7 DEF Faithful
  <2>2. decoder.argument_count # None
    BY <1>2, <2>1 DEF PartOf
  <2>3. PICK c \in Nat : c = Consumed
    BY <1>0, BufferedIs
  <2>4. PICK h \in Stating(s, c, "*", 1 .. MaxArguments) :
          /\ h[2] = decoder.argument_count /\ Len(t) <= h[2]
          /\ ReadOf(c, t) \in BulkSeqs(s, h[1], Len(t))
          /\ \A p : End(ReadOf(c, t), p) = c + x
    BY <1>0, <1>1, <1>3, <1>4, <1>5, <1>7, <2>1, <2>3, BodyTaken
  <2>5. h[2] \in Nat
    <3>1. s \in Seq(Bytes)
      BY <1>7 DEF Agrees
    <3>2. QED
      BY <3>1, CountIs
  <2>6. Len(t) \in Nat
    BY <1>3, <1>5 DEF Spans
  <2>7. Len(t) < h[2]
    BY <1>1, <1>5, <2>4, <2>5, <2>6
  <2>8. Reached(s, End(ReadOf(c, t), h[1]), c + d.cursor, d.bulk_length)
    BY <1>6, <2>4 DEF Reached
  <2>9. Follows(s, c, d, h)
    BY <1>6, <2>4, <2>7, <2>8 DEF Follows
  <2>10. QED
    BY <1>6, <2>2, <2>3, <2>9 DEF PartOf
<1>8. QED
  BY <1>1, <1>2, <1>4, <1>6, <1>7, GoesOn

\* decode returns a request and next_request drops its bytes.
LEMMA StepTakeRequest == StreamInv /\ IInv' /\ TakeRequest => StreamInv'
<1> SUFFICES ASSUME StreamInv, IInv', TakeRequest PROVE StreamInv'
  OBVIOUS
<1>0. Buffered /\ Faithful /\ requests \in Seq(Requests)
  BY DEF StreamInv
<1>1. PICK r : r = [i \in DOMAIN Spans |-> Slice(Spans[i][1], Spans[i][2])]
  OBVIOUS
<1>2. /\ BodyArrived /\ Len(Spans) = decoder.argument_count
      /\ requests' = Append(requests, r) /\ input' = Slice(BodyEnd, Len(input))
      /\ decoder' = Fresh /\ pc' = "decode" /\ UNCHANGED <<stream, taken>>
  BY <1>1 DEF TakeRequest, AfterRequest, NextCall
<1>3. decoder.bulk_length # None
  BY <1>2 DEF BodyArrived, AtBody
<1>4. decoder.spans \in Seq(Nat \X Nat) /\ decoder.bulk_length \in Nat
  BY <1>0, <1>3, DecoderIs
<1>5. PICK c \in Nat, n \in Nat, x \in Nat :
        c = Consumed /\ n = Len(input) /\ x = BodyEnd /\ c + n = taken /\ x <= n
  BY <1>0, <1>2, <1>4, BufferedIs DEF BodyEnd, BodyArrived
<1>6. input \in Seq(Bytes) /\ taken \in Nat /\ taken <= Len(stream) /\ stream \in Seq(Bytes)
  BY <1>0, BufferedIs
<1>7. PICK rest : rest = SubSeq(input, x + 1, n)
  OBVIOUS
<1>8. /\ rest \in Seq(Bytes) /\ Len(rest) = n - x
      /\ \A i \in Nat : 1 <= i /\ i <= n - x => rest[i] = input[x + i]
  BY <1>5, <1>6, <1>7, PieceIs
<1>9. input' = rest
  BY <1>2, <1>5, <1>7 DEF Slice
<1>10. Consumed' = c + x
  <2>1. taken - (n - x) = c + x
    BY <1>5
  <2>2. QED
    BY <1>2, <1>8, <1>9, <2>1 DEF Consumed
<1>11. Kept'
  <2>1. ASSUME NEW i \in 1 .. n - x PROVE rest[i] = stream[(c + x) + i]
    <3>1. i \in Nat /\ 1 <= i /\ i <= n - x /\ x + i \in 1 .. n /\ c + (x + i) = (c + x) + i
      BY <1>5
    <3>2. input[x + i] = stream[c + (x + i)]
      BY <1>0, <1>5, <3>1 DEF Buffered, Kept
    <3>3. QED
      BY <1>8, <3>1, <3>2
  <2>2. c + x \in Nat
    OBVIOUS
  <2>3. QED
    BY <1>2, <1>8, <1>9, <1>10, <2>1, <2>2 DEF Kept
<1>12. decoder'.cursor = 0 /\ decoder'.scan = 0 /\ decoder'.spans = <<>>
       /\ decoder'.argument_count = None /\ decoder'.bulk_length = None
  BY <1>2 DEF Fresh
<1>13. Unended'
  <2>1. 0 .. 0 - 1 = {}
    OBVIOUS
  <2>2. QED
    BY <1>12, <2>1 DEF Unended
<1>14. ASSUME NEW s, Agrees(s) PROVE r \in Requests /\ Decoded(s, Append(requests, r), c + x)
  <2>1. Decoded(s, requests, c) /\ PartOf(s, Consumed, decoder)
    BY <1>0, <1>5, <1>14 DEF Faithful
  <2>2. PICK f : f = ReadOf(Consumed, Spans)
    OBVIOUS
  <2>3. f \in Frames(s, c) /\ End(f, c) = c + x
    BY <1>0, <1>2, <1>4, <1>5, <1>14, <2>1, <2>2, FrameTaken
  <2>4. RequestOf(s, f) = r
    BY <1>0, <1>1, <1>2, <1>4, <1>14, <2>1, <2>2, RequestTaken
  <2>5. s \in Seq(Bytes) /\ taken <= Len(s) /\ Len(s) \in Nat
    BY <1>14 DEF Agrees
  <2>6. c \in 0 .. Len(s)
    BY <1>5, <1>6, <2>5
  <2>7. QED
    BY <1>0, <2>1, <2>3, <2>4, <2>5, <2>6, DecodedFrame
<1>15. Faithful'
  <2>1. \A s : Agrees(s)' <=> Agrees(s)
    BY <1>2 DEF Agrees
  <2>2. \A s : PartOf(s, c + x, decoder')
    BY <1>12 DEF PartOf
  <2>3. QED
    BY <1>2, <1>10, <1>14, <2>1, <2>2 DEF Faithful
<1>16. requests' \in Seq(Requests)
  <2>1. r \in Requests
    BY <1>0, <1>14, StreamsAgree
  <2>2. QED
    BY <1>0, <1>2, <2>1, AppendOne
<1>17. Waits' /\ Ends'
  BY <1>2 DEF Waits, Ends
<1>18. QED
  BY <1>2, <1>11, <1>12, <1>13, <1>15, <1>16, <1>17 DEF StreamInv, Buffered

\* next_request reads more bytes.
LEMMA StepReceive == StreamInv /\ IInv' /\ Receive => StreamInv'
<1> SUFFICES ASSUME StreamInv, IInv', Receive PROVE StreamInv'
  OBVIOUS
<1>0. Buffered /\ Faithful /\ requests \in Seq(Requests)
      /\ (decoder.argument_count # None => decoder.cursor > 0)
  BY DEF StreamInv
<1>1. pc' = "decode" /\ UNCHANGED <<stream, decoder, requests>>
  BY DEF Receive
<1>18. PICK n \in Nat : /\ input' = input \o SubSeq(stream, taken + 1, taken + n)
                        /\ taken' = taken + n
  <2>1. PICK k \in 1 .. Min({Remaining, Len(stream) - taken}) :
          input' = input \o SubSeq(stream, taken + 1, taken + k) /\ taken' = taken + k
    BY DEF Receive
  <2>2. PICK a \in Int, b \in Int : a = Remaining /\ b = Len(stream) - taken
    <3>1. Len(input) \in Nat /\ taken \in Nat /\ stream \in Seq(Bytes)
      BY <1>0, BufferedIs
    <3>2. Remaining \in Int /\ Len(stream) - taken \in Int
      BY <3>1, DecoderAssumption DEF Remaining
    <3>3. QED
      BY <3>2
  <2>3. PICK l : l = Min({a, b})
    OBVIOUS
  <2>4. l \in Int
    BY <2>3, MinMaxOfTwo
  <2>5. k \in 1 .. l
    BY <2>1, <2>2, <2>3
  <2>6. k \in Nat
    BY <2>4, <2>5
  <2>7. QED
    BY <2>1, <2>6
<1>2. PICK more : /\ more = SubSeq(stream, taken + 1, taken + n)
                  /\ input' = input \o more /\ taken' = taken + n
  BY <1>18
<1>3. PICK c \in Nat, m \in Nat : c = Consumed /\ m = Len(input) /\ c + m = taken
  BY <1>0, BufferedIs
<1>4. input \in Seq(Bytes) /\ taken \in Nat /\ stream \in Seq(Bytes)
  BY <1>0, BufferedIs
<1>5. taken + n <= Len(stream)
  BY <1>1, <1>2, <1>4 DEF IInv, Typed
<1>6. /\ more \in Seq(Bytes) /\ Len(more) = n
      /\ \A i \in Nat : 1 <= i /\ i <= n => more[i] = stream[taken + i]
  <2>1. taken + n \in Nat /\ taken <= taken + n /\ (taken + n) - taken = n
    BY <1>4
  <2>2. PICK b \in Nat : b = taken + n
    BY <2>1
  <2>3. /\ more \in Seq(Bytes) /\ Len(more) = b - taken
        /\ \A i \in Nat : 1 <= i /\ i <= b - taken => more[i] = stream[taken + i]
    BY <1>2, <1>4, <1>5, <2>1, <2>2, PieceIs
  <2>4. QED
    BY <2>1, <2>2, <2>3
<1>7. /\ Len(input') = m + n
      /\ \A i \in 1 .. m : input'[i] = input[i]
      /\ \A i \in m + 1 .. m + n : input'[i] = more[i - m]
  BY <1>2, <1>3, <1>4, <1>6
<1>8. Consumed' = c
  <2>1. (taken + n) - (m + n) = c
    BY <1>3
  <2>2. QED
    BY <1>2, <1>7, <2>1 DEF Consumed
<1>9. Kept'
  <2>1. ASSUME NEW i \in 1 .. m + n PROVE input'[i] = stream[c + i]
    <3>1. CASE i \in 1 .. m
      BY <1>0, <1>3, <1>7, <3>1 DEF Buffered, Kept
    <3>2. CASE ~(i \in 1 .. m)
      <4>1. i \in m + 1 .. m + n /\ i - m \in Nat /\ 1 <= i - m /\ i - m <= n
            /\ taken + (i - m) = c + i
        BY <1>3, <3>2
      <4>2. more[i - m] = stream[taken + (i - m)]
        BY <1>6, <4>1
      <4>3. QED
        BY <1>7, <4>1, <4>2
    <3>3. QED
      BY <3>1, <3>2
  <2>2. QED
    BY <1>1, <1>7, <1>8, <2>1 DEF Kept
<1>10. Unended'
  <2>1. PICK cursor \in Nat, scan \in Nat : cursor = decoder.cursor /\ scan = decoder.scan
    BY <1>0, BufferedIs
  <2>2. ASSUME NEW q \in cursor .. scan - 1 PROVE q + 1 < m + n /\ ~LineEnd(q)'
    <3>1. q + 1 < m /\ ~LineEnd(q)
      BY <1>0, <1>3, <2>1 DEF Buffered, Unended
    <3>2. q + 1 \in 1 .. m /\ (q + 1) + 1 \in 1 .. m /\ q + 1 < m + n
      BY <3>1
    <3>3. input'[q + 1] = input[q + 1] /\ input'[(q + 1) + 1] = input[(q + 1) + 1]
      BY <1>7, <3>2
    <3>4. QED
      BY <3>1, <3>2, <3>3 DEF LineEnd, At
  <2>3. QED
    BY <1>1, <1>7, <2>1, <2>2 DEF Unended
<1>11. Faithful'
  <2>1. ASSUME NEW s, Agrees(s)' PROVE Agrees(s)
    <3>1. s \in Seq(Bytes) /\ taken + n <= Len(s) /\ \A i \in 1 .. taken + n : s[i] = stream[i]
      BY <1>1, <1>2, <2>1 DEF Agrees
    <3>2. taken <= Len(s) /\ \A i \in 1 .. taken : i \in 1 .. taken + n
      BY <1>4, <3>1
    <3>3. QED
      BY <3>1, <3>2 DEF Agrees
  <2>2. QED
    BY <1>0, <1>1, <1>3, <1>8, <2>1 DEF Faithful
<1>12. Waits' /\ Ends'
  BY <1>1 DEF Waits, Ends
<1>13. QED
  BY <1>0, <1>1, <1>9, <1>10, <1>11, <1>12 DEF StreamInv, Buffered

\* The client has closed its side.
LEMMA StepEndOfInput == StreamInv /\ IInv' /\ EndOfInput => StreamInv'
<1> SUFFICES ASSUME StreamInv, IInv', EndOfInput PROVE StreamInv'
  OBVIOUS
<1>0. Buffered /\ Faithful /\ Waits /\ requests \in Seq(Requests)
      /\ (decoder.argument_count # None => decoder.cursor > 0)
  BY DEF StreamInv
<1>1. /\ pc = "read" /\ (Remaining = 0 \/ taken = Len(stream))
      /\ pc' = IF input = <<>> THEN "closed" ELSE "failed"
      /\ UNCHANGED <<stream, taken, input, decoder, requests>>
  BY DEF EndOfInput
<1>2. PICK c \in Nat, n \in Nat : c = Consumed /\ n = Len(input) /\ c + n = taken
  BY <1>0, BufferedIs
<1>3. taken = Len(stream)
  <2>1. n < MaxFrameBytes
    BY <1>0, <1>1, <1>2 DEF Buffered, IInv, BufferSound
  <2>2. MaxFrameBytes - n # 0
    BY <2>1, DecoderAssumption
  <2>3. QED
    BY <1>1, <1>2, <2>2 DEF Remaining
<1>4. Frames(stream, Consumed) = {}
  BY <1>0, <1>1, <1>3, StreamsAgree DEF Waits
<1>5. input \in Seq(Bytes)
  BY <1>0, BufferedIs
<1>6. CASE input # <<>>
  <2>1. Len(input) > 0
    BY <1>5, <1>6
  <2>2. QED
    BY <1>1, <1>4, <1>6, <2>1, Fails
<1>7. CASE input = <<>>
  <2>1. n = 0
    BY <1>2, <1>7
  <2>2. Consumed = Len(stream)
    BY <1>2, <1>3, <2>1
  <2>3. Consumed' = Consumed /\ Kept' /\ \A s : Agrees(s)' <=> Agrees(s)
    BY <1>0, <1>1, SameBytes
  <2>4. Unended'
    BY <1>0, <1>1 DEF Buffered, Unended, LineEnd, At
  <2>5. Faithful'
    BY <1>0, <1>1, <2>3 DEF Faithful
  <2>6. Waits' /\ Ends'
    BY <1>1, <1>4, <1>7, <2>2, <2>3 DEF Waits, Ends
  <2>7. QED
    BY <1>0, <1>1, <1>7, <2>3, <2>4, <2>5, <2>6 DEF StreamInv, Buffered
<1>8. QED
  BY <1>6, <1>7

\* It holds when a connection begins.
LEMMA InitStreamInv == Init => StreamInv
<1> SUFFICES ASSUME Init PROVE StreamInv
  OBVIOUS
<1>0. IInv
  BY InitIInv
<1>1. /\ stream \in Seq(Bytes) /\ taken = 0 /\ input = <<>> /\ requests = <<>> /\ pc = "decode"
      /\ decoder = Fresh
  BY DecoderAssumption DEF Init
<1>2. decoder.cursor = 0 /\ decoder.scan = 0 /\ decoder.spans = <<>>
      /\ decoder.argument_count = None /\ decoder.bulk_length = None
  BY <1>1 DEF Fresh
<1>3. Consumed = 0 /\ Len(input) = 0
  <2>1. Len(input) = 0
    BY <1>1
  <2>2. 0 - 0 = 0
    OBVIOUS
  <2>3. QED
    BY <1>1, <2>1, <2>2 DEF Consumed
<1>4. Kept
  BY <1>3 DEF Kept
<1>5. Unended
  <2>1. 0 .. 0 - 1 = {}
    OBVIOUS
  <2>2. QED
    BY <1>2, <2>1 DEF Unended
<1>6. Faithful
  <2>1. ASSUME NEW s, Agrees(s) PROVE Decoded(s, <<>>, 0)
    BY <2>1, DecodedStart DEF Agrees
  <2>2. \A s : PartOf(s, 0, decoder)
    BY <1>2 DEF PartOf
  <2>3. QED
    BY <1>1, <1>3, <2>1, <2>2 DEF Faithful
<1>7. Waits /\ Ends
  BY <1>1 DEF Waits, Ends
<1>8. requests \in Seq(Requests)
  BY <1>1
<1>9. QED
  BY <1>0, <1>1, <1>2, <1>4, <1>5, <1>6, <1>7, <1>8 DEF StreamInv, Buffered

\* Every step keeps it.
LEMMA NextStreamInv == StreamInv /\ [Next]_vars => StreamInv'
<1> SUFFICES ASSUME StreamInv, [Next]_vars PROVE StreamInv'
  OBVIOUS
<1>1. IInv'
  BY NextIInv DEF StreamInv, Buffered
<1>2. CASE Ended \/ UNCHANGED vars
  <2>1. UNCHANGED <<stream, taken, input, decoder, requests, pc>>
    BY <1>2 DEF Ended, vars
  <2>2. Buffered /\ Faithful /\ Waits /\ Ends
    BY DEF StreamInv
  <2>3. Consumed' = Consumed /\ Kept' /\ \A s : Agrees(s)' <=> Agrees(s)
    BY <2>1, <2>2, SameBytes
  <2>4. Unended'
    BY <2>1, <2>2 DEF Buffered, Unended, LineEnd, At
  <2>5. Faithful'
    BY <2>1, <2>2, <2>3 DEF Faithful
  <2>6. Waits' /\ Ends'
    BY <2>1, <2>2, <2>3 DEF Waits, Ends
  <2>7. QED
    BY <1>1, <2>1, <2>3, <2>4, <2>5, <2>6 DEF StreamInv, Buffered
<1>3. QED
  BY <1>1, <1>2, StepAwaitHeader, StepRejectHeader, StepTakeHeader, StepAwaitBody, StepRejectBody,
     StepTakeArgument, StepTakeRequest, StepReceive, StepEndOfInput DEF Next

\* The requests are those of the bytes read, or of the whole stream.
LEMMA StreamInvMeans == StreamInv => NothingHeldBack /\ DecodesTheStream
<1> SUFFICES ASSUME StreamInv PROVE NothingHeldBack /\ DecodesTheStream
  OBVIOUS
<1>0. Buffered /\ Faithful /\ Waits /\ Ends /\ requests \in Seq(Requests)
  BY DEF StreamInv
<1>1. PICK c \in Nat : c = Consumed /\ c <= taken /\ taken \in Nat /\ taken <= Len(stream)
  BY <1>0, BufferedIs
<1>2. ASSUME NEW s, Agrees(s), Frames(s, Consumed) = {}
      PROVE  Meaning(s) = [requests |-> requests, whole |-> c = Len(s)]
  <2>1. s \in Seq(Bytes) /\ taken <= Len(s) /\ Len(s) \in Nat
    BY <1>2 DEF Agrees
  <2>2. c \in 0 .. Len(s)
    BY <1>1, <2>1
  <2>3. Decoded(s, requests, c)
    BY <1>0, <1>1, <1>2 DEF Faithful
  <2>4. QED
    BY <1>0, <1>1, <1>2, <2>1, <2>2, <2>3, DecodedAll
<1>3. NothingHeldBack
  <2> SUFFICES ASSUME pc = "read"
               PROVE  requests = Meaning(SubSeq(stream, 1, taken)).requests
    BY DEF NothingHeldBack
  <2>1. PICK s : s = SubSeq(stream, 1, taken)
    OBVIOUS
  <2>2. Agrees(s) /\ Len(s) = taken
    BY <1>0, <2>1, StreamsAgree
  <2>3. Frames(s, Consumed) = {}
    BY <1>0, <2>2 DEF Waits
  <2>4. Meaning(s) = [requests |-> requests, whole |-> c = Len(s)]
    BY <1>2, <2>2, <2>3
  <2>5. QED
    BY <2>1, <2>4
<1>4. DecodesTheStream
  <2> SUFFICES ASSUME pc \in {"closed", "failed"}
               PROVE  Meaning(stream) = [requests |-> requests, whole |-> pc = "closed"]
    BY DEF DecodesTheStream
  <2>1. Agrees(stream)
    BY <1>0, StreamsAgree
  <2>2. Frames(stream, Consumed) = {} /\ (pc = "closed" <=> c = Len(stream))
    BY <1>0, <1>1 DEF Ends
  <2>3. Meaning(stream) = [requests |-> requests, whole |-> c = Len(stream)]
    BY <1>2, <2>1, <2>2
  <2>4. (c = Len(stream)) = (pc = "closed")
    BY <2>2, Zenon
  <2>5. QED
    BY <2>3, <2>4, Zenon
<1>5. QED
  BY <1>3, <1>4

-----------------------------------------------------------------------------
\* However the bytes are cut into reads, and whatever the limits: when next_request
\* asks for more bytes, every request that is complete in those it has read has been
\* returned, in order, and nothing else has.
THEOREM DecoderNothingHeldBack == Spec => []NothingHeldBack
  BY InitStreamInv, NextStreamInv, StreamInvMeans, PTL DEF Spec

\* A connection ends with exactly the requests of its stream up to the first malformed
\* or truncated one, and without an error exactly when there is none.
THEOREM DecoderDecodesTheStream == Spec => []DecodesTheStream
  BY InitStreamInv, NextStreamInv, StreamInvMeans, PTL DEF Spec

-----------------------------------------------------------------------------
(***************************************************************************)
(* Decimal numerals.  DigitsOf is a recursive function on Nat: a table of  *)
(* numerals exists up to every number, two of them agree, and so the       *)
(* equation holds.                                                         *)
(***************************************************************************)
LastDigit(n) == DigitNames[(n % 10) + 1]

\* The numeral of n, given that of its tenth.
Numerals(n, front) == (IF n < 10 THEN <<>> ELSE front) \o <<LastDigit(n)>>

NumeralsTo(n, g) == g = [i \in 0 .. n |-> Numerals(i, g[i \div 10])]

\* The quotient by ten of a number of more than one digit is smaller.
LEMMA TenthSmaller ==
    ASSUME NEW n \in Nat, ~(n < 10)
    PROVE  n \div 10 \in Nat /\ n \div 10 < n
  OBVIOUS

\* A one-digit number does not depend on what would stand before it.
LEMMA NumeralsSame ==
    ASSUME NEW n, NEW a, NEW b, ~(n < 10) => a = b
    PROVE  Numerals(n, a) = Numerals(n, b)
  BY Zenon DEF Numerals

\* Two tables of numerals agree wherever both are defined.
LEMMA NumeralsUnique ==
    ASSUME NEW n \in Nat, NEW m \in Nat, NEW g, NEW h, NumeralsTo(n, g), NumeralsTo(m, h),
           NEW i \in Nat, i <= n, i <= m
    PROVE  g[i] = h[i]
<1> DEFINE Bad == {j \in Nat : j <= n /\ j <= m /\ g[j] # h[j]}
<1>1. SUFFICES ASSUME Bad # {} PROVE FALSE
  OBVIOUS
<1>2. PICK j \in Bad : \A k \in Bad : j <= k
  BY <1>1, LeastNatural
<1>3. g[j] = Numerals(j, g[j \div 10]) /\ h[j] = Numerals(j, h[j \div 10])
  BY DEF NumeralsTo
<1>4. ASSUME ~(j < 10) PROVE g[j \div 10] = h[j \div 10]
  <2>1. j \div 10 \in Nat /\ j \div 10 < j
    BY <1>4, TenthSmaller
  <2>2. QED
    BY <1>2, <2>1
<1>5. QED
  BY <1>2, <1>3, <1>4, NumeralsSame

\* There is a table up to every number.
LEMMA NumeralsExist ==
    ASSUME NEW n \in Nat
    PROVE  \E g : NumeralsTo(n, g)
<1> DEFINE Bad == {j \in Nat : ~\E g : NumeralsTo(j, g)}
<1>1. SUFFICES ASSUME Bad # {} PROVE FALSE
  OBVIOUS
<1>2. PICK j \in Bad : \A k \in Bad : j <= k
  BY <1>1, LeastNatural
<1>3. \E g : \A i \in 0 .. j - 1 : g[i] = Numerals(i, g[i \div 10])
  <2>1. CASE j = 0
    BY <2>1
  <2>2. CASE j # 0
    <3>1. j - 1 \in Nat /\ ~(j <= j - 1)
      BY <2>2
    <3>2. PICK g : NumeralsTo(j - 1, g)
      BY <1>2, <3>1
    <3>3. QED
      BY <3>2 DEF NumeralsTo
  <2>3. QED
    BY <2>1, <2>2
<1>4. PICK g : \A i \in 0 .. j - 1 : g[i] = Numerals(i, g[i \div 10])
  BY <1>3
<1> DEFINE h == [i \in 0 .. j |-> Numerals(i, g[i \div 10])]
<1>5. ASSUME NEW i \in 0 .. j PROVE h[i] = Numerals(i, h[i \div 10])
  <2>1. ASSUME ~(i < 10) PROVE h[i \div 10] = g[i \div 10]
    <3>1. i \div 10 \in 0 .. j - 1
      BY <2>1, TenthSmaller
    <3>2. QED
      BY <1>4, <3>1
  <2>2. QED
    BY <2>1, NumeralsSame
<1>6. h = [i \in 0 .. j |-> h[i]]
  OBVIOUS
<1> HIDE DEF h
<1>7. NumeralsTo(j, h)
  BY <1>5, <1>6 DEF NumeralsTo
<1>8. QED
  BY <1>2, <1>7

\* The equation that defines DigitsOf holds.
LEMMA DigitsOfDefined == \A n \in Nat : DigitsOf[n] = Numerals(n, DigitsOf[n \div 10])
<1> DEFINE upto(n) == CHOOSE g : NumeralsTo(n, g)
           d == [n \in Nat |-> upto(n)[n]]
<1>1. \A n \in Nat : NumeralsTo(n, upto(n))
  BY NumeralsExist
<1>2. ASSUME NEW n \in Nat PROVE d[n] = Numerals(n, d[n \div 10])
  <2> HIDE DEF upto
  <2>1. upto(n)[n] = Numerals(n, upto(n)[n \div 10])
    BY <1>1 DEF NumeralsTo
  <2>2. ASSUME ~(n < 10) PROVE upto(n)[n \div 10] = d[n \div 10]
    <3>1. n \div 10 \in Nat /\ n \div 10 < n
      BY <2>2, TenthSmaller
    <3>2. ASSUME NEW m \in Nat, m < n PROVE upto(n)[m] = upto(m)[m]
      BY <1>1, <3>2, NumeralsUnique
    <3>3. QED
      BY <3>1, <3>2
  <2>3. QED
    BY <2>1, <2>2, NumeralsSame
<1>3. d = [n \in Nat |-> d[n]]
  OBVIOUS
<1> HIDE DEF d
<1> DEFINE solves(f) == f = [n \in Nat |-> Numerals(n, f[n \div 10])]
<1>4. solves(d)
  BY <1>2, <1>3
<1>5. DigitsOf = CHOOSE f : solves(f)
  BY DEF DigitsOf, Numerals, LastDigit
<1>6. solves(DigitsOf)
  BY <1>4, <1>5
<1>7. QED
  BY <1>6

\* The ten digits differ, and none is part of a line ending or a sign.
LEMMA DigitNamesDiffer ==
    /\ \A i, j \in 1 .. 10 : DigitNames[i] = DigitNames[j] => i = j
    /\ \A i \in 1 .. 10 : DigitNames[i] \in Digits
    /\ \A d \in Digits : d \in Characters /\ d # "CR" /\ d # "LF" /\ d # "-"
<1>1. \A i, j \in 1 .. 10 : DigitNames[i] = DigitNames[j] => i = j
  BY DEF DigitNames
<1>2. \A i \in 1 .. 10 : DigitNames[i] \in {"0", "1", "2", "3", "4", "5", "6", "7", "8", "9"}
  BY DEF DigitNames
<1>3. \A i \in 1 .. 10 : DigitNames[i] \in Digits
  BY DEF Digits
<1>4. ASSUME NEW d \in Digits PROVE d \in Characters /\ d # "CR" /\ d # "LF" /\ d # "-"
  <2>1. PICK i \in 1 .. 10 : d = DigitNames[i]
    BY DEF Digits
  <2>2. d \in {"0", "1", "2", "3", "4", "5", "6", "7", "8", "9"}
    BY <1>2, <2>1
  <2>3. d \in Characters
    BY EncoderAssumption
  <2>4. QED
    BY <2>2, <2>3
<1>5. QED
  BY <1>1, <1>3, <1>4

\* The last digit is a digit, and tells numbers with the same tenth apart.
LEMMA LastDigitIs ==
    ASSUME NEW n \in Nat
    PROVE  /\ LastDigit(n) \in Digits
           /\ \A m \in Nat : LastDigit(m) = LastDigit(n) => m % 10 = n % 10
<1>1. \A k \in Nat : (k % 10) + 1 \in 1 .. 10
  OBVIOUS
<1>2. QED
  BY <1>1, DigitNamesDiffer DEF LastDigit

\* A numeral is a sequence of digits.
LEMMA DigitsOfType ==
    ASSUME NEW n \in Nat
    PROVE  DigitsOf[n] \in Seq(Digits)
<1> DEFINE Bad == {j \in Nat : DigitsOf[j] \notin Seq(Digits)}
<1>1. SUFFICES ASSUME Bad # {} PROVE FALSE
  OBVIOUS
<1>2. PICK j \in Bad : \A k \in Bad : j <= k
  BY <1>1, LeastNatural
<1> DEFINE front == IF j < 10 THEN <<>> ELSE DigitsOf[j \div 10]
<1>3. front \in Seq(Digits)
  <2>1. CASE j < 10
    BY <2>1
  <2>2. CASE ~(j < 10)
    <3>1. j \div 10 \in Nat /\ j \div 10 < j
      BY <2>2, TenthSmaller
    <3>2. QED
      BY <1>2, <2>2, <3>1
  <2>3. QED
    BY <2>1, <2>2
<1>4. <<LastDigit(j)>> \in Seq(Digits)
  BY LastDigitIs
<1>5. DigitsOf[j] = front \o <<LastDigit(j)>>
  BY DigitsOfDefined DEF Numerals
<1> HIDE DEF front
<1>6. DigitsOf[j] \in Seq(Digits)
  BY <1>3, <1>4, <1>5, ConcatProperties
<1>7. QED
  BY <1>2, <1>6

\* A numeral, digit by digit.
LEMMA DigitsOfIs ==
    ASSUME NEW n \in Nat
    PROVE  /\ Len(DigitsOf[n]) \in Nat
           /\ Len(DigitsOf[n]) = IF n < 10 THEN 1 ELSE 1 + Len(DigitsOf[n \div 10])
           /\ DigitsOf[n][Len(DigitsOf[n])] = LastDigit(n)
           /\ ~(n < 10) => \A i \in 1 .. Len(DigitsOf[n]) - 1 :
                              DigitsOf[n][i] = DigitsOf[n \div 10][i]
<1>1. CASE n < 10
  <2>1. DigitsOf[n] = <<>> \o <<LastDigit(n)>>
    BY <1>1, DigitsOfDefined DEF Numerals
  <2>2. <<>> \o <<LastDigit(n)>> = <<LastDigit(n)>>
    BY ConcatEmptySeq
  <2>3. QED
    BY <1>1, <2>1, <2>2
<1>2. CASE ~(n < 10)
  <2>1. PICK f : f = DigitsOf[n \div 10]
    OBVIOUS
  <2>2. f \in Seq(Digits)
    BY <1>2, <2>1, TenthSmaller, DigitsOfType
  <2>3. DigitsOf[n] = f \o <<LastDigit(n)>>
    BY <1>2, <2>1, DigitsOfDefined DEF Numerals
  <2>4. <<LastDigit(n)>> \in Seq(Digits) /\ Len(<<LastDigit(n)>>) = 1
    BY LastDigitIs
  <2>5. PICK k \in Nat : k = Len(f)
    BY <2>2
  <2>6. /\ Len(DigitsOf[n]) = k + 1
        /\ \A i \in 1 .. k + 1 : DigitsOf[n][i] = IF i <= k THEN f[i] ELSE <<LastDigit(n)>>[i - k]
    BY <2>2, <2>3, <2>4, <2>5, ConcatProperties
  <2>7. DigitsOf[n][k + 1] = LastDigit(n)
    <3>1. k + 1 \in 1 .. k + 1 /\ ~(k + 1 <= k) /\ (k + 1) - k = 1
      OBVIOUS
    <3>2. QED
      BY <2>6, <3>1
  <2>8. \A i \in 1 .. k : DigitsOf[n][i] = f[i]
    BY <2>6
  <2>9. QED
    BY <1>2, <2>1, <2>5, <2>6, <2>7, <2>8
<1>3. QED
  BY <1>1, <1>2

\* It has at least one digit.
LEMMA DigitsOfLong ==
    ASSUME NEW n \in Nat
    PROVE  Len(DigitsOf[n]) \in Nat /\ Len(DigitsOf[n]) >= 1
<1>1. CASE n < 10
  BY <1>1, DigitsOfIs
<1>2. CASE ~(n < 10)
  BY <1>2, DigitsOfIs, TenthSmaller
<1>3. QED
  BY <1>1, <1>2

\* Different numbers have different numerals.
LEMMA DigitsOfInjective ==
    ASSUME NEW m \in Nat, NEW n \in Nat, DigitsOf[m] = DigitsOf[n]
    PROVE  m = n
<1> DEFINE Bad == {j \in Nat : \E k \in Nat : k # j /\ DigitsOf[j] = DigitsOf[k]}
<1>1. SUFFICES ASSUME Bad # {} PROVE FALSE
  OBVIOUS
<1>2. PICK j \in Bad : \A k \in Bad : j <= k
  BY <1>1, LeastNatural
<1>3. PICK k \in Nat : k # j /\ DigitsOf[j] = DigitsOf[k]
  BY <1>2
<1>4. j % 10 = k % 10
  BY <1>3, DigitsOfIs, LastDigitIs
<1>5. \A a \in Nat : ~(a < 10) => Len(DigitsOf[a]) # 1
  <2> SUFFICES ASSUME NEW a \in Nat, ~(a < 10) PROVE Len(DigitsOf[a]) # 1
    OBVIOUS
  <2>1. a \div 10 \in Nat
    BY TenthSmaller
  <2>2. Len(DigitsOf[a \div 10]) \in Nat /\ Len(DigitsOf[a \div 10]) >= 1
    BY <2>1, DigitsOfLong
  <2>3. PICK l \in Nat : l = Len(DigitsOf[a \div 10]) /\ l >= 1
    BY <2>2
  <2>4. Len(DigitsOf[a]) = 1 + l
    BY <2>3, DigitsOfIs
  <2>5. QED
    BY <2>3, <2>4
<1>6. j < 10 <=> k < 10
  BY <1>3, <1>5, DigitsOfIs
<1>7. CASE j < 10
  BY <1>3, <1>4, <1>6, <1>7
<1>8. CASE ~(j < 10)
  <2>1. PICK a \in Nat, b \in Nat : a = j \div 10 /\ b = k \div 10 /\ a < j
    BY <1>6, <1>8, TenthSmaller
  <2>0. /\ Len(DigitsOf[j]) = 1 + Len(DigitsOf[a]) /\ Len(DigitsOf[k]) = 1 + Len(DigitsOf[b])
        /\ Len(DigitsOf[a]) \in Nat /\ Len(DigitsOf[b]) \in Nat
        /\ \A i \in 1 .. Len(DigitsOf[j]) - 1 : DigitsOf[j][i] = DigitsOf[a][i]
        /\ \A i \in 1 .. Len(DigitsOf[k]) - 1 : DigitsOf[k][i] = DigitsOf[b][i]
    BY <1>6, <1>8, <2>1, DigitsOfIs
  <2>2. Len(DigitsOf[a]) = Len(DigitsOf[b]) /\ Len(DigitsOf[j]) - 1 = Len(DigitsOf[a])
    BY <1>3, <2>0
  <2>3. \A i \in 1 .. Len(DigitsOf[a]) : DigitsOf[a][i] = DigitsOf[b][i]
    BY <1>3, <2>0, <2>2
  <2>4. DigitsOf[a] = DigitsOf[b]
    BY <2>2, <2>3, DigitsOfType, SeqEqual
  <2>5. a = b
    BY <1>2, <2>1, <2>4
  <2>6. QED
    BY <1>3, <1>4, <2>1, <2>5
<1>9. QED
  BY <1>7, <1>8

\* decimal_digits counts the digits.
LEMMA DigitsCounted ==
    ASSUME NEW n \in Nat
    PROVE  decimal_digits[n] = Len(DigitsOf[n])
<1> DEFINE solves(f) == f = [i \in Nat |-> IF i < 10 THEN 1 ELSE 1 + f[i \div 10]]
           lengths == [i \in Nat |-> Len(DigitsOf[i])]
<1>1. solves(lengths)
  <2>1. ASSUME NEW i \in Nat
        PROVE  lengths[i] = IF i < 10 THEN 1 ELSE 1 + lengths[i \div 10]
    <3>1. ~(i < 10) => i \div 10 \in Nat
      BY TenthSmaller
    <3>2. QED
      BY <3>1, DigitsOfIs
  <2>2. lengths = [i \in Nat |-> lengths[i]]
    OBVIOUS
  <2> HIDE DEF lengths
  <2>3. QED
    BY <2>1, <2>2
<1>2. decimal_digits = CHOOSE f : solves(f)
  BY DEF decimal_digits
<1>3. solves(decimal_digits)
  BY <1>1, <1>2
<1>4. \A i \in Nat : decimal_digits[i] = IF i < 10 THEN 1 ELSE 1 + decimal_digits[i \div 10]
  BY <1>3
<1> DEFINE Bad == {j \in Nat : decimal_digits[j] # Len(DigitsOf[j])}
<1>5. SUFFICES ASSUME Bad # {} PROVE FALSE
  OBVIOUS
<1>6. PICK j \in Bad : \A k \in Bad : j <= k
  BY <1>5, LeastNatural
<1>7. CASE j < 10
  BY <1>4, <1>6, <1>7, DigitsOfIs
<1>8. CASE ~(j < 10)
  <2>1. PICK a \in Nat : a = j \div 10 /\ a < j
    BY <1>8, TenthSmaller
  <2>2. decimal_digits[a] = Len(DigitsOf[a])
    BY <1>6, <2>1
  <2>3. QED
    BY <1>4, <1>6, <1>8, <2>1, <2>2, DigitsOfIs
<1>9. QED
  BY <1>7, <1>8

\* unsigned_abs, and the sign.
LEMMA SignIs ==
    ASSUME NEW n \in Int
    PROVE  /\ unsigned_abs(n) \in Nat
           /\ (IF n < 0 THEN <<"-">> ELSE <<>>) \in Texts
           /\ Len(IF n < 0 THEN <<"-">> ELSE <<>>) = Negative(n) /\ Negative(n) \in Nat
<1>1. unsigned_abs(n) \in Nat
  BY DEF unsigned_abs
<1>2. "-" \in Characters
  BY EncoderAssumption
<1>3. CASE n < 0
  BY <1>1, <1>2, <1>3 DEF Negative, Texts
<1>4. CASE ~(n < 0)
  BY <1>1, <1>4 DEF Negative, Texts
<1>5. QED
  BY <1>3, <1>4

\* The digits of its absolute value.
LEMMA AbsDigits ==
    ASSUME NEW n \in Int
    PROVE  /\ DigitsOf[unsigned_abs(n)] \in Seq(Digits) /\ DigitsOf[unsigned_abs(n)] \in Texts
           /\ Len(DigitsOf[unsigned_abs(n)]) = decimal_digits[unsigned_abs(n)]
           /\ Len(DigitsOf[unsigned_abs(n)]) \in Nat /\ Len(DigitsOf[unsigned_abs(n)]) >= 1
<1>1. PICK m \in Nat : m = unsigned_abs(n)
  BY SignIs
<1>2. PICK d : d = DigitsOf[m]
  OBVIOUS
<1>3. d \in Seq(Digits) /\ Len(d) = decimal_digits[m] /\ Len(d) \in Nat /\ Len(d) >= 1
  BY <1>2, DigitsOfType, DigitsCounted, DigitsOfLong
<1>4. d \in Texts
  <2>1. Digits \subseteq Characters
    BY EncoderAssumption
  <2>2. QED
    BY <1>3, <2>1 DEF Texts
<1>5. QED
  BY <1>1, <1>2, <1>3, <1>4

\* A printed integer: its bytes, and how many they are.
LEMMA DecimalIs ==
    ASSUME NEW n \in Int
    PROVE  /\ Decimal(n) \in Texts
           /\ Len(Decimal(n)) = decimal_digits[unsigned_abs(n)] + Negative(n)
           /\ \A i \in 1 .. Len(Decimal(n)) : Decimal(n)[i] # "CR"
           /\ n < 0 => Decimal(n)[1] = "-"
           /\ ~(n < 0) => Decimal(n) = DigitsOf[unsigned_abs(n)]
<1>1. PICK sign : sign = IF n < 0 THEN <<"-">> ELSE <<>>
  OBVIOUS
<1>2. PICK d : d = DigitsOf[unsigned_abs(n)]
  OBVIOUS
<1>3. sign \in Texts /\ Len(sign) = Negative(n) /\ Len(sign) \in Nat
  BY <1>1, SignIs
<1>4. d \in Seq(Digits) /\ Len(d) = decimal_digits[unsigned_abs(n)] /\ Len(d) \in Nat
  BY <1>2, AbsDigits
<1>5. d \in Texts
  BY <1>2, AbsDigits
<1>6. Decimal(n) = sign \o d
  BY <1>1, <1>2 DEF Decimal
<1>7. /\ sign \o d \in Texts /\ Len(sign \o d) = Len(sign) + Len(d)
      /\ \A i \in 1 .. Len(sign) + Len(d) :
            (sign \o d)[i] = IF i <= Len(sign) THEN sign[i] ELSE d[i - Len(sign)]
  BY <1>3, <1>5, ConcatProperties DEF Texts
<1>8. \A i \in 1 .. Len(sign) : sign[i] = "-"
  <2>1. CASE n < 0
    BY <1>1, <2>1
  <2>2. CASE ~(n < 0)
    BY <1>1, <2>2
  <2>3. QED
    BY <2>1, <2>2
<1>9. \A i \in 1 .. Len(d) : d[i] \in Digits /\ d[i] # "CR"
  BY <1>4, DigitNamesDiffer
<1>10. ASSUME NEW i \in 1 .. Len(sign) + Len(d) PROVE (sign \o d)[i] # "CR"
  <2>1. CASE i <= Len(sign)
    <3>1. sign[i] = "-"
      BY <1>3, <1>8, <2>1
    <3>2. QED
      BY <1>7, <2>1, <3>1
  <2>2. CASE ~(i <= Len(sign))
    <3>1. i - Len(sign) \in 1 .. Len(d)
      BY <1>3, <1>4, <2>2
    <3>2. QED
      BY <1>7, <1>9, <2>2, <3>1
  <2>3. QED
    BY <2>1, <2>2
<1>11. ASSUME n < 0 PROVE Decimal(n)[1] = "-"
  <2>1. Len(sign) = 1
    BY <1>1, <1>11
  <2>2. 1 \in 1 .. Len(sign) + Len(d) /\ 1 <= Len(sign)
    BY <1>4, <2>1
  <2>3. QED
    BY <1>6, <1>7, <1>8, <2>1, <2>2
<1>12. ASSUME ~(n < 0) PROVE Decimal(n) = d
  <2>1. sign = <<>>
    BY <1>1, <1>12
  <2>2. QED
    BY <1>4, <1>6, <2>1, ConcatEmptySeq
<1>13. Len(Decimal(n)) = decimal_digits[unsigned_abs(n)] + Negative(n)
  <2>1. PICK a \in Nat, b \in Nat : a = Len(sign) /\ b = Len(d)
    BY <1>3, <1>4
  <2>2. Len(Decimal(n)) = a + b /\ a = Negative(n) /\ b = decimal_digits[unsigned_abs(n)]
    BY <1>3, <1>4, <1>6, <1>7, <2>1
  <2>3. QED
    BY <2>2
<1>14. \A i \in 1 .. Len(Decimal(n)) : Decimal(n)[i] # "CR"
  BY <1>6, <1>7, <1>10
<1>15. QED
  BY <1>2, <1>6, <1>7, <1>11, <1>12, <1>13, <1>14

\* Different integers are printed differently.
LEMMA DecimalInjective ==
    ASSUME NEW m \in Int, NEW n \in Int, Decimal(m) = Decimal(n)
    PROVE  m = n
<1>1. ASSUME NEW k \in Int, ~(k < 0) PROVE Decimal(k)[1] # "-"
  <2>1. PICK d : d = DigitsOf[unsigned_abs(k)]
    OBVIOUS
  <2>2. d \in Seq(Digits) /\ Len(d) \in Nat /\ Len(d) >= 1
    BY <2>1, AbsDigits
  <2>3. d[1] \in Digits
    BY <2>2
  <2>4. QED
    BY <1>1, <2>1, <2>3, DecimalIs, DigitNamesDiffer
<1>2. m < 0 <=> n < 0
  BY <1>1, DecimalIs
<1>3. DigitsOf[unsigned_abs(m)] = DigitsOf[unsigned_abs(n)]
  <2>1. CASE ~(m < 0)
    BY <1>2, <2>1, DecimalIs
  <2>2. CASE m < 0
    <3>1. PICK a, b : a = DigitsOf[unsigned_abs(m)] /\ b = DigitsOf[unsigned_abs(n)]
      OBVIOUS
    <3>2. a \in Texts /\ b \in Texts
      BY <3>1, AbsDigits
    <3>3. <<"-">> \o a = <<"-">> \o b
      BY <1>2, <2>2, <3>1 DEF Decimal
    <3>4. <<"-">> \in Texts
      BY EncoderAssumption DEF Texts
    <3>5. a = b
      BY <3>2, <3>3, <3>4, ConcatSimplifications DEF Texts
    <3>6. QED
      BY <3>1, <3>5
  <2>3. QED
    BY <2>1, <2>2
<1>4. unsigned_abs(m) = unsigned_abs(n)
  BY <1>3, SignIs, DigitsOfInjective
<1>5. QED
  BY <1>2, <1>4 DEF unsigned_abs

-----------------------------------------------------------------------------
(***************************************************************************)
(* Headers.                                                                *)
(***************************************************************************)
Line(c, text) == <<c>> \o text \o Eol

\* l is c, text and a line ending.
IsLine(c, text, l) ==
    /\ l \in Texts /\ Len(text) \in Nat
    /\ Len(l) = Len(text) + 3
    /\ l[1] = c
    /\ \A i \in 1 .. Len(text) : l[i + 1] = text[i]
    /\ l[Len(text) + 2] = "CR" /\ l[Len(text) + 3] = "LF"

\* A line, byte by byte.
LEMMA LineIs ==
    ASSUME NEW c \in Characters, NEW text \in Texts
    PROVE  IsLine(c, text, Line(c, text))
<1>1. Eol \in Seq(Characters) /\ Len(Eol) = 2 /\ Eol[1] = "CR" /\ Eol[2] = "LF"
  BY EncoderAssumption DEF Eol
<1>2. <<c>> \in Seq(Characters) /\ text \in Seq(Characters) /\ Len(text) \in Nat /\ Len(<<c>>) = 1
  BY DEF Texts
<1>3. PICK n \in Nat : n = Len(text)
  BY <1>2
<1>4. PICK f : f = <<c>> \o text
  OBVIOUS
<1>5. /\ f \in Seq(Characters) /\ Len(f) = 1 + n
      /\ \A i \in 1 .. 1 + n : f[i] = IF i <= 1 THEN <<c>>[i] ELSE text[i - 1]
  BY <1>2, <1>3, <1>4, ConcatProperties
<1>6. PICK g : g = f \o Eol
  OBVIOUS
<1>7. /\ g \in Seq(Characters) /\ Len(g) = (1 + n) + 2
      /\ \A i \in 1 .. (1 + n) + 2 : g[i] = IF i <= 1 + n THEN f[i] ELSE Eol[i - (1 + n)]
  <2>1. Len(f) = 1 + n /\ Len(Eol) = 2 /\ Eol \in Seq(Characters)
    BY <1>1, <1>5
  <2> HIDE DEF Eol
  <2>2. /\ f \o Eol \in Seq(Characters) /\ Len(f \o Eol) = Len(f) + Len(Eol)
        /\ \A i \in 1 .. Len(f) + Len(Eol) :
              (f \o Eol)[i] = IF i <= Len(f) THEN f[i] ELSE Eol[i - Len(f)]
    BY <1>5, <2>1, ConcatProperties
  <2>3. QED
    BY <1>6, <2>1, <2>2
<1>8. f[1] = c /\ \A i \in 1 .. n : f[i + 1] = text[i]
  <2>1. f[1] = c
    BY <1>5
  <2>2. ASSUME NEW i \in 1 .. n PROVE f[i + 1] = text[i]
    <3>1. i + 1 \in 1 .. 1 + n /\ ~(i + 1 <= 1) /\ (i + 1) - 1 = i
      OBVIOUS
    <3>2. QED
      BY <1>5, <3>1
  <2>3. QED
    BY <2>1, <2>2
<1>9. g[1] = c /\ \A i \in 1 .. n : g[i + 1] = text[i]
  BY <1>7, <1>8
<1>10. g[n + 2] = "CR" /\ g[n + 3] = "LF"
  <2>1. /\ n + 2 \in 1 .. (1 + n) + 2 /\ ~(n + 2 <= 1 + n) /\ (n + 2) - (1 + n) = 1
        /\ n + 3 \in 1 .. (1 + n) + 2 /\ ~(n + 3 <= 1 + n) /\ (n + 3) - (1 + n) = 2
    OBVIOUS
  <2>2. QED
    BY <1>1, <1>7, <2>1
<1>11. QED
  BY <1>3, <1>4, <1>6, <1>7, <1>9, <1>10 DEF Line, Texts, IsLine

-----------------------------------------------------------------------------
(***************************************************************************)
(* Total is a recursive function on Parts.  Its equation is solved for     *)
(* parts nested ever deeper.                                               *)
(***************************************************************************)
\* The kinds of a reply, and what each holds.
LEMMA PartIs ==
    ASSUME NEW r \in Parts
    PROVE  \/ r.kind = "simple" /\ r.text \in Texts /\ r = Simple(r.text)
           \/ r.kind = "error" /\ r.text \in Texts /\ r = Error(r.text)
           \/ r.kind = "bulk" /\ r.text \in Texts /\ r = Bulk(r.text)
           \/ r.kind = "integer" /\ r.integer \in Int /\ r = Integer(r.integer)
           \/ r.kind = "null" /\ r = NullBulk
           \/ r.kind = "array" /\ r.elements \in Seq(Parts) /\ r = Array(r.elements)
<1>1. r \in AnyReply
  BY EncoderAssumption
<1>2. CASE r \in [kind : {"simple", "error", "bulk"}, text : Texts]
  BY <1>2 DEF Simple, Error, Bulk
<1>3. CASE r \in [kind : {"integer"}, integer : Int]
  BY <1>3 DEF Integer
<1>4. CASE r \in [kind : {"null"}]
  BY <1>4 DEF NullBulk
<1>5. CASE r \in [kind : {"array"}, elements : Seq(Parts)]
  BY <1>5 DEF Array
<1>6. QED
  BY <1>1, <1>2, <1>3, <1>4, <1>5 DEF AnyReply

\* The elements of an array are parts, and less deep.
LEMMA ElementIs ==
    ASSUME NEW r \in Parts, r.kind = "array"
    PROVE  /\ r.elements \in Seq(Parts) /\ Len(r.elements) \in Nat
           /\ DOMAIN r.elements = 1 .. Len(r.elements)
           /\ \A i \in 1 .. Len(r.elements) :
                 r.elements[i] \in Parts /\ Depth[r.elements[i]] < Depth[r]
<1>1. r.elements \in Seq(Parts)
  BY PartIs
<1>2. Len(r.elements) \in Nat /\ DOMAIN r.elements = 1 .. Len(r.elements)
  BY <1>1
<1>3. \A i \in 1 .. Len(r.elements) : r.elements[i] \in Parts
  BY <1>1
<1>4. \A i \in DOMAIN r.elements : Depth[r.elements[i]] < Depth[r]
  BY EncoderAssumption
<1>5. QED
  BY <1>1, <1>2, <1>3, <1>4

\* The total of r, given that of its elements.
ElementLens(r, g) == [i \in DOMAIN r.elements |-> g[r.elements[i]]]

TotalOf(r, g) == OwnLen(r) + IF r.kind = "array" THEN SumFunction(ElementLens(r, g)) ELSE 0

\* It depends on nothing else.
LEMMA TotalOfSame ==
    ASSUME NEW r \in Parts, NEW g, NEW h,
           r.kind = "array" =>
              \A i \in 1 .. Len(r.elements) : g[r.elements[i]] = h[r.elements[i]]
    PROVE  TotalOf(r, g) = TotalOf(r, h)
<1>1. ASSUME r.kind = "array" PROVE ElementLens(r, g) = ElementLens(r, h)
  BY <1>1, ElementIs DEF ElementLens
<1>2. QED
  BY <1>1 DEF TotalOf

Shallow(d) == {r \in Parts : Depth[r] <= d}

TotalsTo(d, g) == g = [r \in Shallow(d) |-> TotalOf(r, g)]

\* The totals of all parts up to a depth exist.
LEMMA TotalsExist ==
    ASSUME NEW d \in Nat
    PROVE  \E g : TotalsTo(d, g)
<1> DEFINE Bad == {j \in Nat : ~\E g : TotalsTo(j, g)}
<1>1. SUFFICES ASSUME Bad # {} PROVE FALSE
  OBVIOUS
<1>2. PICK j \in Bad : \A k \in Bad : j <= k
  BY <1>1, LeastNatural
<1>0. \A r \in Parts : Depth[r] \in Nat
  BY EncoderAssumption
<1>3. \E g : \A r \in Shallow(j - 1) : g[r] = TotalOf(r, g)
  <2>1. CASE j = 0
    <3>1. Shallow(j - 1) = {}
      BY <1>0, <2>1 DEF Shallow
    <3>2. QED
      BY <3>1
  <2>2. CASE j # 0
    <3>1. j - 1 \in Nat /\ ~(j <= j - 1)
      BY <2>2
    <3>2. PICK g : TotalsTo(j - 1, g)
      BY <1>2, <3>1
    <3>3. QED
      BY <3>2 DEF TotalsTo
  <2>3. QED
    BY <2>1, <2>2
<1>4. PICK g : \A r \in Shallow(j - 1) : g[r] = TotalOf(r, g)
  BY <1>3
<1> DEFINE h == [r \in Shallow(j) |-> TotalOf(r, g)]
<1>5. ASSUME NEW r \in Shallow(j) PROVE h[r] = TotalOf(r, h)
  <2>1. ASSUME r.kind = "array", NEW i \in 1 .. Len(r.elements)
        PROVE  g[r.elements[i]] = h[r.elements[i]]
    <3>1. PICK e : e = r.elements[i]
      OBVIOUS
    <3>2. e \in Parts /\ Depth[e] < Depth[r] /\ Depth[r] <= j
      BY <2>1, <3>1, ElementIs DEF Shallow
    <3>3. e \in Shallow(j - 1) /\ e \in Shallow(j)
      BY <1>0, <3>2 DEF Shallow
    <3>4. QED
      BY <1>4, <3>1, <3>3
  <2>2. r \in Parts
    BY DEF Shallow
  <2> HIDE DEF h
  <2>3. TotalOf(r, g) = TotalOf(r, h)
    BY <2>1, <2>2, TotalOfSame
  <2>4. QED
    BY <2>3 DEF h
<1>6. h = [r \in Shallow(j) |-> h[r]]
  OBVIOUS
<1> HIDE DEF h
<1>7. TotalsTo(j, h)
  BY <1>5, <1>6 DEF TotalsTo
<1>8. QED
  BY <1>2, <1>7

\* The equation that defines Total holds.
LEMMA TotalDefined == \A r \in Parts : Total[r] = TotalOf(r, Total)
<1> DEFINE solves(g) == g = [r \in Parts |-> TotalOf(r, g)]
<1>1. Shallow(MaxDepth) = Parts /\ MaxDepth \in Nat
  BY EncoderAssumption DEF Shallow
<1>2. \E g : solves(g)
  BY <1>1, TotalsExist DEF TotalsTo
<1>3. Total = CHOOSE g : solves(g)
  BY DEF Total, TotalOf, ElementLens
<1>4. solves(Total)
  BY <1>2, <1>3
<1>5. QED
  BY <1>4

\* u is s and then t.
Joined(s, t, u) ==
    /\ u \in Texts /\ Len(s) \in Nat /\ Len(t) \in Nat
    /\ Len(u) = Len(s) + Len(t)
    /\ \A i \in 1 .. Len(s) : u[i] = s[i]
    /\ \A i \in 1 .. Len(t) : u[Len(s) + i] = t[i]

\* One text after another.
LEMMA ConcatTexts ==
    ASSUME NEW s \in Texts, NEW t \in Texts
    PROVE  Joined(s, t, s \o t)
<1>1. /\ s \o t \in Texts /\ Len(s) \in Nat /\ Len(t) \in Nat
      /\ Len(s \o t) = Len(s) + Len(t)
      /\ \A i \in 1 .. Len(s) + Len(t) : (s \o t)[i] = IF i <= Len(s) THEN s[i] ELSE t[i - Len(s)]
  BY ConcatProperties DEF Texts
<1>2. PICK m \in Nat, n \in Nat : m = Len(s) /\ n = Len(t)
  BY <1>1
<1>3. PICK st : st = s \o t
  OBVIOUS
<1>4. \A i \in 1 .. m + n : st[i] = IF i <= m THEN s[i] ELSE t[i - m]
  BY <1>1, <1>2, <1>3
<1>5. \A i \in 1 .. m : st[i] = s[i]
  BY <1>4
<1>6. ASSUME NEW i \in 1 .. n PROVE st[m + i] = t[i]
  <2>1. m + i \in 1 .. m + n /\ ~(m + i <= m) /\ (m + i) - m = i
    OBVIOUS
  <2>2. QED
    BY <1>4, <2>1
<1>7. QED
  BY <1>1, <1>2, <1>3, <1>5, <1>6 DEF Joined

\* A line ending is a text.
LEMMA EolIs == Eol \in Texts /\ Len(Eol) = 2 /\ Eol[1] = "CR" /\ Eol[2] = "LF"
  BY EncoderAssumption DEF Eol, Texts

\* The numeral of -1.
LEMMA MinusOne == Decimal(-1) \in Texts /\ Len(Decimal(-1)) = 2 /\ Decimal(-1)[1] = "-" /\ Decimal(-1)[2] = "1"
<1>1. PICK m \in Int : m = -1
  OBVIOUS
<1>3. PICK k \in Nat : k = 1
  OBVIOUS
<1>2. unsigned_abs(m) = k /\ m < 0
  <2>1. m + 1 = 0
    BY <1>1
  <2>3. m < 0 /\ -m = k
    BY <1>3, <2>1
  <2>2. QED
    BY <2>3 DEF unsigned_abs
<1>4. Len(DigitsOf[k]) = 1 /\ DigitsOf[k][1] = LastDigit(k) /\ DigitsOf[k] \in Seq(Digits)
  <2>1. k < 10
    BY <1>3
  <2>2. Len(DigitsOf[k]) = 1 /\ DigitsOf[k][Len(DigitsOf[k])] = LastDigit(k)
    BY <2>1, DigitsOfIs
  <2>3. QED
    BY <2>2, DigitsOfType
<1>5. LastDigit(k) = "1"
  <2>1. (k % 10) + 1 = 2
    BY <1>3
  <2>2. QED
    BY <2>1 DEF LastDigit, DigitNames
<1>6. PICK d : d = DigitsOf[k]
  OBVIOUS
<1>7. d \in Texts /\ Len(d) = 1 /\ d[1] = "1"
  BY <1>2, <1>3, <1>4, <1>5, <1>6, AbsDigits
<1>8. PICK sign : sign = <<"-">>
  OBVIOUS
<1>9. sign \in Texts /\ Len(sign) = 1 /\ sign[1] = "-"
  BY <1>8, EncoderAssumption DEF Texts
<1>10. Decimal(m) = sign \o d
  BY <1>2, <1>3, <1>6, <1>8 DEF Decimal
<1>11. PICK t : t = sign \o d
  OBVIOUS
<1>12. Joined(sign, d, t)
  BY <1>7, <1>9, <1>11, ConcatTexts
<1>13. t \in Texts /\ Len(t) = 2 /\ t[1] = "-" /\ t[2] = "1"
  <2>1. t \in Texts /\ Len(t) = 1 + 1 /\ t[1] = sign[1] /\ t[1 + 1] = d[1]
    BY <1>7, <1>9, <1>12 DEF Joined
  <2>2. QED
    BY <1>7, <1>9, <2>1
<1>14. QED
  BY <1>1, <1>10, <1>11, <1>13

\* The null bulk is a line too: its length is the numeral of -1.
LEMMA NullLine == <<"$", "-", "1">> \o Eol = Line("$", Decimal(-1))
<1>1. PICK a : a = <<"$", "-", "1">>
  OBVIOUS
<1>2. "1" \in Characters
  <2>1. DigitNames[2] \in Digits /\ DigitNames[2] = "1"
    BY DigitNamesDiffer DEF DigitNames
  <2>2. QED
    BY <2>1, EncoderAssumption
<1>3. a \in Texts /\ Len(a) = 3 /\ a[1] = "$" /\ a[2] = "-" /\ a[3] = "1"
  BY <1>1, <1>2, EncoderAssumption DEF Texts
<1>4. PICK eol : eol = Eol
  OBVIOUS
<1>5. eol \in Texts /\ Len(eol) = 2 /\ eol[1] = "CR" /\ eol[2] = "LF"
  BY <1>4, EolIs
<1>6. PICK b : b = a \o eol
  OBVIOUS
<1>8. Joined(a, eol, b)
  BY <1>3, <1>5, <1>6, ConcatTexts
<1>7. /\ b \in Texts /\ Len(b) = 3 + 2 /\ b[1] = a[1] /\ b[2] = a[2] /\ b[3] = a[3]
      /\ b[3 + 1] = eol[1] /\ b[3 + 2] = eol[2]
  BY <1>3, <1>5, <1>8 DEF Joined
<1>9. PICK t : t = Decimal(-1)
  OBVIOUS
<1>10. t \in Texts /\ Len(t) = 2 /\ t[1] = "-" /\ t[2] = "1" /\ "$" \in Characters
  BY <1>9, MinusOne, EncoderAssumption
<1>11. PICK l : l = Line("$", t)
  OBVIOUS
<1>12. /\ l \in Texts /\ Len(l) = 2 + 3 /\ l[1] = "$"
       /\ \A i \in 1 .. 2 : l[i + 1] = t[i]
       /\ l[2 + 2] = "CR" /\ l[2 + 3] = "LF"
  <2>1. IsLine("$", t, l)
    BY <1>10, <1>11, LineIs
  <2>2. QED
    BY <1>10, <2>1 DEF IsLine
<1>13. l[1 + 1] = "-" /\ l[2 + 1] = "1"
  BY <1>10, <1>12
<1>14. \A i \in 1 .. 5 : b[i] = l[i]
  BY <1>3, <1>5, <1>7, <1>12, <1>13
<1>15. b = l
  BY <1>7, <1>12, <1>14, SeqEqual DEF Texts
<1>16. QED
  BY <1>1, <1>4, <1>6, <1>9, <1>11, <1>15

BulkLine(text) == Line("$", Decimal(Len(text)))

\* The bytes of each kind of reply.
LEMMA HeaderForm ==
    ASSUME NEW r \in Parts
    PROVE  /\ r.kind = "simple" => Header(r) = Line("+", r.text)
           /\ r.kind = "error" => Header(r) = Line("-", r.text)
           /\ r.kind = "integer" => Header(r) = Line(":", Decimal(r.integer))
           /\ r.kind = "null" => Header(r) = Line("$", Decimal(-1))
           /\ r.kind = "bulk" => Header(r) = (BulkLine(r.text) \o r.text) \o Eol
           /\ r.kind = "array" => Header(r) = Line("*", Decimal(Len(r.elements)))
<1>1. r.kind = "null" => Header(r) = <<"$", "-", "1">> \o Eol
  BY DEF Header
<1>2. QED
  BY <1>1, NullLine DEF Header, Line, BulkLine

\* b is the line that says how long text is, then text.
IsBulk(text, e, b) ==
    /\ b \in Texts /\ e \in Nat /\ Len(b) = e + Len(text) + 2
    /\ Len(text) \in Nat /\ e = Len(Decimal(Len(text))) + 3
    /\ BulkLine(text) \in Texts /\ e = Len(BulkLine(text))
    /\ \A i \in 1 .. e : b[i] = BulkLine(text)[i]
    /\ \A i \in 1 .. Len(text) : b[e + i] = text[i]

\* A bulk, byte by byte.
LEMMA BulkBytes ==
    ASSUME NEW text \in Texts
    PROVE  IsBulk(text, Len(BulkLine(text)), (BulkLine(text) \o text) \o Eol)
<1>0. PICK b, n, e : b = (BulkLine(text) \o text) \o Eol /\ n = Len(text) /\ e = Len(BulkLine(text))
  OBVIOUS
<1>1. n \in Nat
  BY <1>0 DEF Texts
<1>2. Decimal(n) \in Texts /\ "$" \in Characters
  BY <1>1, DecimalIs, EncoderAssumption
<1>3. PICK l : l = BulkLine(text)
  OBVIOUS
<1>4. l \in Texts /\ e \in Nat /\ e = Len(l) /\ e = Len(Decimal(n)) + 3
  <2>1. IsLine("$", Decimal(n), l)
    BY <1>0, <1>2, <1>3, LineIs DEF BulkLine
  <2>2. QED
    BY <1>0, <1>3, <2>1 DEF IsLine
<1>5. PICK f : f = l \o text
  OBVIOUS
<1>6. /\ f \in Texts /\ Len(f) = e + n
      /\ \A i \in 1 .. e : f[i] = l[i]
      /\ \A i \in 1 .. n : f[e + i] = text[i]
  <2>1. Joined(l, text, f)
    BY <1>4, <1>5, ConcatTexts
  <2>2. QED
    BY <1>0, <1>4, <2>1 DEF Joined
<1>7. b = f \o Eol
  BY <1>0, <1>3, <1>5
<1>8. PICK m \in Nat : m = e + n
  BY <1>1, <1>4
<1>9. /\ b \in Texts /\ Len(b) = m + 2
      /\ \A i \in 1 .. m : b[i] = f[i]
  <2>1. Joined(f, Eol, b)
    BY <1>6, <1>7, EolIs, ConcatTexts
  <2>2. QED
    BY <1>6, <1>8, <2>1, EolIs DEF Joined
<1>10. (\A i \in 1 .. e : i \in 1 .. m) /\ (\A i \in 1 .. n : e + i \in 1 .. m)
  BY <1>1, <1>4, <1>8
<1>11. /\ \A i \in 1 .. e : b[i] = l[i]
       /\ \A i \in 1 .. n : b[e + i] = text[i]
  BY <1>6, <1>9, <1>10
<1>12. QED
  BY <1>0, <1>1, <1>3, <1>4, <1>8, <1>9, <1>11 DEF IsBulk

\* encoded_len counts the bytes encode pushes for r itself.
LEMMA HeaderLength ==
    ASSUME NEW r \in Parts
    PROVE  Header(r) \in Texts /\ Len(Header(r)) = OwnLen(r) /\ OwnLen(r) \in Nat /\ OwnLen(r) >= 3
<1>0. {"+", "-", ":", "$", "*"} \subseteq Characters /\ "-" \in Characters
  BY EncoderAssumption
<1>9. ASSUME NEW c \in {"+", "-", ":", "$", "*"}, NEW t \in Texts
      PROVE  Line(c, t) \in Texts /\ Len(Line(c, t)) = Len(t) + 3 /\ Len(t) \in Nat
  <2>1. c \in Characters
    BY <1>0
  <2>2. QED
    BY <2>1, LineIs DEF IsLine
<1>1. CASE r.kind = "simple"
  <2>1. r.text \in Texts
    BY <1>1, PartIs
  <2>2. OwnLen(r) = Len(r.text) + 3
    BY <1>1 DEF OwnLen
  <2>3. QED
    <3>1. Header(r) = Line("+", r.text)
      BY <1>1, HeaderForm
    <3>2. Line("+", r.text) \in Texts /\ Len(Line("+", r.text)) = Len(r.text) + 3 /\ Len(r.text) \in Nat
      BY <1>9, <2>1
    <3>3. QED
      BY <2>2, <3>1, <3>2
<1>2. CASE r.kind = "error"
  <2>1. r.text \in Texts
    BY <1>2, PartIs
  <2>2. OwnLen(r) = Len(r.text) + 3
    BY <1>2 DEF OwnLen
  <2>3. QED
    <3>1. Header(r) = Line("-", r.text)
      BY <1>2, HeaderForm
    <3>2. Line("-", r.text) \in Texts /\ Len(Line("-", r.text)) = Len(r.text) + 3 /\ Len(r.text) \in Nat
      BY <1>9, <2>1
    <3>3. QED
      BY <2>2, <3>1, <3>2
<1>3. CASE r.kind = "integer"
  <2>1. PICK n \in Int : n = r.integer
    BY <1>3, PartIs
  <2>2. OwnLen(r) = decimal_digits[unsigned_abs(n)] + 3 + Negative(n)
    BY <1>3, <2>1 DEF OwnLen
  <2>3. Decimal(n) \in Texts /\ Len(Decimal(n)) = decimal_digits[unsigned_abs(n)] + Negative(n)
    BY DecimalIs
  <2>4. decimal_digits[unsigned_abs(n)] \in Nat /\ Negative(n) \in Nat
    BY AbsDigits, SignIs
  <2>5. QED
    <3>1. Header(r) = Line(":", Decimal(n))
      BY <1>3, <2>1, HeaderForm
    <3>2. Line(":", Decimal(n)) \in Texts /\ Len(Line(":", Decimal(n))) = Len(Decimal(n)) + 3
      BY <1>9, <2>3
    <3>3. QED
      BY <2>2, <2>3, <2>4, <3>1, <3>2
<1>4. CASE r.kind = "null"
  <2>1. OwnLen(r) = 5
    BY <1>4 DEF OwnLen
  <2>2. PICK t : t = Decimal(-1) /\ t \in Texts /\ Len(t) = 2
    BY MinusOne
  <2>3. Line("$", t) \in Texts /\ Len(Line("$", t)) = 2 + 3
    BY <1>9, <2>2
  <2>4. Header(r) = Line("$", t)
    BY <1>4, <2>2, HeaderForm
  <2>5. QED
    BY <2>1, <2>3, <2>4
<1>5. CASE r.kind = "bulk"
  <2>1. PICK n \in Nat : n = Len(r.text)
    BY <1>5, PartIs DEF Texts
  <2>2. OwnLen(r) = decimal_digits[n] + 5 + n
    BY <1>5, <2>1 DEF OwnLen
  <2>3. unsigned_abs(n) = n /\ Negative(n) = 0
    BY DEF unsigned_abs, Negative
  <2>4. Len(Decimal(n)) = decimal_digits[n] + 0 /\ decimal_digits[n] \in Nat
    BY <2>3, DecimalIs, AbsDigits
  <2>5. r.text \in Texts
    BY <1>5, PartIs
  <2>6. Header(r) = (BulkLine(r.text) \o r.text) \o Eol
    BY <1>5, HeaderForm
  <2>7. Header(r) \in Texts /\ Len(Header(r)) = (Len(Decimal(n)) + 3) + n + 2
    <3>1. PICK b, e : b = Header(r) /\ e = Len(BulkLine(r.text))
      OBVIOUS
    <3>2. IsBulk(r.text, e, b)
      BY <2>5, <2>6, <3>1, BulkBytes
    <3>3. QED
      BY <2>1, <3>1, <3>2 DEF IsBulk
  <2>8. QED
    BY <2>2, <2>4, <2>7
<1>6. CASE r.kind = "array"
  <2>1. PICK n \in Nat : n = Len(r.elements)
    BY <1>6, ElementIs
  <2>2. OwnLen(r) = decimal_digits[n] + 3
    BY <1>6, <2>1 DEF OwnLen
  <2>3. unsigned_abs(n) = n /\ Negative(n) = 0
    BY DEF unsigned_abs, Negative
  <2>4. Decimal(n) \in Texts /\ Len(Decimal(n)) = decimal_digits[n] + 0 /\ decimal_digits[n] \in Nat
    BY <2>3, DecimalIs, AbsDigits
  <2>5. QED
    <3>1. Header(r) = Line("*", Decimal(n))
      BY <1>6, <2>1, HeaderForm
    <3>2. Line("*", Decimal(n)) \in Texts /\ Len(Line("*", Decimal(n))) = Len(Decimal(n)) + 3
      BY <1>9, <2>4
    <3>3. QED
      BY <2>2, <2>4, <3>1, <3>2
<1>7. QED
  BY <1>1, <1>2, <1>3, <1>4, <1>5, <1>6, PartIs

-----------------------------------------------------------------------------
(***************************************************************************)
(* The lengths of the elements of an array, laid one after the other, add  *)
(* up to their sum.                                                        *)
(***************************************************************************)
\* The partial sums of a sequence of numbers.
LEMMA PartialSums ==
    ASSUME NEW n \in Nat, NEW f \in [1 .. n -> Nat]
    PROVE  \E o \in [0 .. n -> Nat] :
              o[0] = 0 /\ o[n] = SumFunction(f) /\ \A i \in 1 .. n : o[i] = o[i - 1] + f[i]
<1> DEFINE o == [i \in 0 .. n |-> SumFunctionOnSet(f, 1 .. i)]
<1>1. \A i \in 0 .. n : IsFiniteSet(1 .. i) /\ \A j \in 1 .. i : j \in 1 .. n
  BY FS_Interval
<1>0. \A i \in 0 .. n : \A j \in 1 .. i : f[j] \in Nat /\ f[j] \in Int
  BY <1>1
<1>2. \A i \in 0 .. n : o[i] = SumFunctionOnSet(f, 1 .. i) /\ o[i] \in Nat
  BY <1>0, <1>1, SumType
<1>3. o[0] = 0
  <2>1. 1 .. 0 = {}
    OBVIOUS
  <2>2. QED
    BY <1>2, <2>1, SumEmpty
<1>4. ASSUME NEW i \in 1 .. n PROVE o[i] = o[i - 1] + f[i]
  <2>1. i \in 0 .. n /\ i - 1 \in 0 .. n /\ i \in 1 .. i /\ (1 .. i) \ {i} = 1 .. (i - 1)
    OBVIOUS
  <2>2. SumFunctionOnSet(f, 1 .. i) = f[i] + SumFunctionOnSet(f, (1 .. i) \ {i})
    BY <1>0, <1>1, <2>1, SumRemove, SMTT(30)
  <2>3. o[i] = f[i] + o[i - 1]
    BY <1>2, <2>1, <2>2
  <2> HIDE DEF o
  <2>4. f[i] \in Nat /\ o[i - 1] \in Nat
    BY <1>2, <2>1
  <2>5. QED
    BY <2>3, <2>4
<1>5. o[n] = SumFunction(f)
  <2>1. DOMAIN f = 1 .. n
    OBVIOUS
  <2>2. SumFunction(f) = SumFunctionOnSet(f, 1 .. n)
    BY <2>1, Zenon DEF SumFunction
  <2>3. QED
    BY <1>2, <2>2
<1>6. DOMAIN o = 0 .. n /\ o = [i \in 0 .. n |-> o[i]]
  OBVIOUS
<1> HIDE DEF o
<1>7. o \in [0 .. n -> Nat]
  BY <1>2, <1>6
<1>8. QED
  BY <1>3, <1>4, <1>5, <1>7

\* A total is a natural number.
LEMMA TotalType ==
    ASSUME NEW r \in Parts
    PROVE  Total[r] \in Nat
<1> DEFINE Bad == {d \in Nat : \E x \in Parts : Depth[x] = d /\ Total[x] \notin Nat}
<1>0. \A x \in Parts : Depth[x] \in Nat
  BY EncoderAssumption
<1>1. SUFFICES ASSUME Bad # {} PROVE FALSE
  BY <1>0
<1>2. PICK j \in Bad : \A k \in Bad : j <= k
  BY <1>1, LeastNatural
<1>3. PICK x \in Parts : Depth[x] = j /\ Total[x] \notin Nat
  BY <1>2
<1>4. Total[x] = TotalOf(x, Total) /\ OwnLen(x) \in Nat
  BY TotalDefined, HeaderLength
<1>5. CASE x.kind # "array"
  BY <1>3, <1>4, <1>5 DEF TotalOf
<1>6. CASE x.kind = "array"
  <2>1. PICK n \in Nat : n = Len(x.elements) /\ DOMAIN x.elements = 1 .. n
    BY <1>6, ElementIs
  <2>2. ASSUME NEW i \in 1 .. n PROVE Total[x.elements[i]] \in Nat
    <3>1. PICK e \in Parts : e = x.elements[i] /\ Depth[e] < Depth[x]
      BY <1>6, <2>1, ElementIs
    <3>2. Depth[e] \in Nat /\ ~(j <= Depth[e])
      BY <1>0, <1>3, <3>1
    <3>3. QED
      BY <1>2, <3>1, <3>2
  <2>3. PICK f : f = ElementLens(x, Total)
    OBVIOUS
  <2>4. f \in [1 .. n -> Nat]
    BY <2>1, <2>2, <2>3 DEF ElementLens
  <2>5. SumFunction(f) \in Nat
    <3>1. PICK o \in [0 .. n -> Nat] : o[n] = SumFunction(f)
      BY <2>4, PartialSums
    <3>2. QED
      BY <3>1
  <2>6. Total[x] = OwnLen(x) + SumFunction(f)
    BY <1>4, <1>6, <2>3 DEF TotalOf
  <2>7. QED
    BY <1>3, <1>4, <2>5, <2>6
<1>7. QED
  BY <1>5, <1>6

\* o says where each of the parts q begins and ends, where a part may begin and end as T says.
Laid(T, q, o) ==
    /\ o \in [0 .. Len(q) -> Nat]
    /\ \A i \in 1 .. Len(q) : <<q[i], o[i - 1], o[i]>> \in T

\* The parts q follow each other from a to b.
Strung(T, q, a, b) == \E o : Laid(T, q, o) /\ o[0] = a /\ o[Len(q)] = b

\* A part, where it begins and where it ends.
Places == Parts \X Nat \X Nat

\* Parts that are as long as their totals.
Sized == {t \in Places : t[3] = t[2] + Total[t[1]]}

\* The same, of a triple.
LEMMA SizedIs ==
    ASSUME NEW r \in Parts, NEW a \in Nat, NEW b
    PROVE  <<r, a, b>> \in Sized <=> b = a + Total[r]
<1>1. Total[r] \in Nat
  BY TotalType
<1>2. QED
  BY <1>1 DEF Sized, Places

\* The elements of a part.
ElementsOf(r) == IF r.kind = "array" THEN r.elements ELSE <<>>

\* An array's elements fill what its total counts beyond its own bytes.
LEMMA ElementsFill ==
    ASSUME NEW r \in Parts, NEW a \in Nat
    PROVE  Strung(Sized, ElementsOf(r), a + OwnLen(r), a + Total[r])
<1>1. Total[r] = TotalOf(r, Total) /\ OwnLen(r) \in Nat
  BY TotalDefined, HeaderLength
<1>2. CASE r.kind # "array"
  <2>1. PICK b \in Nat : b = a + OwnLen(r) /\ b = a + Total[r]
    BY <1>1, <1>2 DEF TotalOf
  <2> DEFINE o == [i \in 0 .. 0 |-> b]
  <2>2. Len(<<>>) = 0 /\ o \in [0 .. 0 -> Nat] /\ o[0] = b
    OBVIOUS
  <2>3. Laid(Sized, <<>>, o)
    BY <2>2 DEF Laid
  <2>4. Strung(Sized, <<>>, b, b)
    BY <2>2, <2>3 DEF Strung
  <2>5. QED
    BY <1>2, <2>1, <2>4 DEF ElementsOf
<1>3. CASE r.kind = "array"
  <2>0. PICK q : q = r.elements
    OBVIOUS
  <2>1. PICK n \in Nat : q = r.elements /\ n = Len(q) /\ DOMAIN q = 1 .. n
    BY <1>3, <2>0, ElementIs
  <2>2. \A i \in 1 .. n : Total[q[i]] \in Nat
    BY <1>3, <2>1, ElementIs, TotalType
  <2>3. PICK f : f = ElementLens(r, Total)
    OBVIOUS
  <2>4. f \in [1 .. n -> Nat] /\ \A i \in 1 .. n : f[i] = Total[q[i]]
    BY <2>1, <2>2, <2>3 DEF ElementLens
  <2>5. PICK p \in [0 .. n -> Nat] :
           p[0] = 0 /\ p[n] = SumFunction(f) /\ \A i \in 1 .. n : p[i] = p[i - 1] + f[i]
    BY <2>4, PartialSums
  <2>6. PICK b \in Nat : b = a + OwnLen(r)
    BY <1>1
  <2> DEFINE o == [i \in 0 .. n |-> b + p[i]]
  <2>7. o \in [0 .. n -> Nat] /\ \A i \in 0 .. n : o[i] = b + p[i] /\ p[i] \in Nat
    BY <2>5, <2>6
  <2> HIDE DEF o
  <2>8. ASSUME NEW i \in 1 .. n PROVE o[i] = o[i - 1] + Total[q[i]]
    <3>1. i \in 0 .. n /\ i - 1 \in 0 .. n
      OBVIOUS
    <3>2. p[i] = p[i - 1] + Total[q[i]] /\ Total[q[i]] \in Nat
      BY <2>2, <2>4, <2>5
    <3>3. o[i] = b + p[i] /\ o[i - 1] = b + p[i - 1] /\ p[i - 1] \in Nat
      BY <2>7, <3>1
    <3>4. QED
      BY <2>6, <3>2, <3>3
  <2>9. Laid(Sized, q, o)
    <3>1. ASSUME NEW i \in 1 .. n PROVE <<q[i], o[i - 1], o[i]>> \in Sized
      <4>1. q[i] \in Parts /\ o[i - 1] \in Nat
        BY <1>3, <2>1, <2>7, ElementIs
      <4>2. QED
        BY <2>8, <4>1, SizedIs
    <3>2. QED
      BY <2>1, <2>7, <3>1 DEF Laid
  <2>10. o[0] = a + OwnLen(r) /\ o[n] = a + Total[r]
    <3>1. Total[r] = OwnLen(r) + SumFunction(f)
      BY <1>1, <1>3, <2>3 DEF TotalOf
    <3>2. 0 \in 0 .. n /\ n \in 0 .. n
      OBVIOUS
    <3>3. o[0] = b + 0 /\ o[n] = b + SumFunction(f) /\ SumFunction(f) \in Nat
      BY <2>5, <2>7, <3>2
    <3>4. QED
      BY <1>1, <2>6, <3>1, <3>3
  <2>11. QED
    BY <1>3, <2>1, <2>9, <2>10 DEF Strung, ElementsOf
<1>4. QED
  BY <1>2, <1>3

\* What is laid out does not go back.
LEMMA SizedForward ==
    ASSUME NEW q \in Seq(Parts), NEW a, NEW b, Strung(Sized, q, a, b)
    PROVE  a \in Nat /\ b \in Nat /\ a <= b
<1>1. PICK o : Laid(Sized, q, o) /\ o[0] = a /\ o[Len(q)] = b
  BY DEF Strung
<1>2. PICK n \in Nat : n = Len(q)
  OBVIOUS
<1>3. o \in [0 .. n -> Nat] /\ \A i \in 1 .. n : o[i] = o[i - 1] + Total[q[i]] /\ Total[q[i]] \in Nat
  <2>1. o \in [0 .. n -> Nat] /\ \A i \in 1 .. n : <<q[i], o[i - 1], o[i]>> \in Sized
    BY <1>1, <1>2 DEF Laid
  <2>2. ASSUME NEW i \in 1 .. n PROVE o[i] = o[i - 1] + Total[q[i]] /\ Total[q[i]] \in Nat
    <3>1. q[i] \in Parts /\ o[i - 1] \in Nat
      BY <1>2, <2>1
    <3>2. QED
      BY <2>1, <3>1, SizedIs, TotalType
  <2>3. QED
    BY <2>1, <2>2
<1>4. \A i \in 0 .. n : o[0] <= o[i]
  <2> DEFINE Bad == {i \in Nat : i <= n /\ ~(o[0] <= o[i])}
  <2>1. SUFFICES ASSUME Bad # {} PROVE FALSE
    OBVIOUS
  <2>2. PICK j \in Bad : \A k \in Bad : j <= k
    BY <2>1, LeastNatural
  <2>3. o[0] \in Nat /\ o[j] \in Nat
    BY <1>3, <2>2
  <2>4. j # 0
    BY <2>2, <2>3
  <2>5. j \in 1 .. n /\ j - 1 \in Nat /\ j - 1 <= n /\ ~(j <= j - 1) /\ j - 1 \in 0 .. n
    BY <2>2, <2>4
  <2>6. o[0] <= o[j - 1] /\ o[j - 1] \in Nat
    BY <1>3, <2>2, <2>5
  <2>7. o[j] = o[j - 1] + Total[q[j]] /\ Total[q[j]] \in Nat
    BY <1>3, <2>5
  <2>8. QED
    BY <2>2, <2>3, <2>6, <2>7
<1>5. QED
  BY <1>1, <1>2, <1>3, <1>4

\* The parts of two sequences, one sequence after the other.
LEMMA PartsConcat ==
    ASSUME NEW s \in Seq(Parts), NEW t \in Seq(Parts), NEW m \in Nat, NEW n \in Nat,
           m = Len(s), n = Len(t), NEW u, u = s \o t
    PROVE  /\ u \in Seq(Parts) /\ Len(u) = m + n
           /\ \A i \in 1 .. m : u[i] = s[i]
           /\ \A i \in 1 .. n : u[m + i] = t[i]
<1>1. /\ u \in Seq(Parts) /\ Len(u) = m + n
      /\ \A i \in 1 .. m + n : u[i] = IF i <= m THEN s[i] ELSE t[i - m]
  BY ConcatProperties
<1>2. \A i \in 1 .. m : u[i] = s[i]
  BY <1>1
<1>3. ASSUME NEW i \in 1 .. n PROVE u[m + i] = t[i]
  <2>1. m + i \in 1 .. m + n /\ ~(m + i <= m) /\ (m + i) - m = i
    OBVIOUS
  <2>2. QED
    BY <1>1, <2>1
<1>4. QED
  BY <1>1, <1>2, <1>3

\* Two sequences laid out one after the other.
LEMMA StrungConcat ==
    ASSUME NEW T, NEW s \in Seq(Parts), NEW t \in Seq(Parts), NEW a, NEW b, NEW c,
           Strung(T, s, a, b), Strung(T, t, b, c)
    PROVE  Strung(T, s \o t, a, c)
<1>1. PICK x : Laid(T, s, x) /\ x[0] = a /\ x[Len(s)] = b
  BY DEF Strung
<1>2. PICK y : Laid(T, t, y) /\ y[0] = b /\ y[Len(t)] = c
  BY DEF Strung
<1>3. PICK m \in Nat, n \in Nat : m = Len(s) /\ n = Len(t)
  OBVIOUS
<1>4. PICK u : u = s \o t
  OBVIOUS
<1>5. /\ Len(u) = m + n
      /\ \A i \in 1 .. m : u[i] = s[i]
      /\ \A i \in 1 .. n : u[m + i] = t[i]
  BY <1>3, <1>4, PartsConcat
<1>6. /\ x \in [0 .. m -> Nat] /\ \A i \in 1 .. m : <<s[i], x[i - 1], x[i]>> \in T
      /\ y \in [0 .. n -> Nat] /\ \A i \in 1 .. n : <<t[i], y[i - 1], y[i]>> \in T
  BY <1>1, <1>2, <1>3 DEF Laid
<1> DEFINE o == [i \in 0 .. m + n |-> IF i <= m THEN x[i] ELSE y[i - m]]
<1>7. ASSUME NEW i \in 0 .. m + n
      PROVE  o[i] \in Nat /\ (i <= m => o[i] = x[i]) /\ (m <= i => o[i] = y[i - m])
  <2>1. CASE i < m
    BY <1>6, <2>1
  <2>2. CASE i = m
    <3>1. i - m = 0
      BY <2>2
    <3>2. QED
      BY <1>1, <1>2, <1>3, <1>6, <2>2, <3>1
  <2>3. CASE i > m
    <3>1. i - m \in 0 .. n
      BY <2>3
    <3>2. QED
      BY <1>6, <2>3, <3>1
  <2>4. QED
    BY <2>1, <2>2, <2>3
<1>8. o \in [0 .. m + n -> Nat]
  BY <1>7
<1> HIDE DEF o
<1>9. ASSUME NEW i \in 1 .. m + n PROVE <<u[i], o[i - 1], o[i]>> \in T
  <2>0. i \in 0 .. m + n /\ i - 1 \in 0 .. m + n
    OBVIOUS
  <2>1. CASE i <= m
    <3>1. i \in 1 .. m /\ i - 1 <= m
      BY <2>1
    <3>2. QED
      BY <1>5, <1>6, <1>7, <2>0, <2>1, <3>1
  <2>2. CASE ~(i <= m)
    <3>1. PICK k \in 1 .. n : k = i - m /\ m + k = i /\ k - 1 = (i - 1) - m /\ m <= i - 1 /\ m <= i
      BY <2>2
    <3>2. u[i] = t[k] /\ o[i] = y[k] /\ o[i - 1] = y[k - 1]
      BY <1>5, <1>7, <2>0, <3>1
    <3>3. QED
      BY <1>6, <3>1, <3>2
  <2>3. QED
    BY <2>1, <2>2
<1>10. Laid(T, u, o)
  BY <1>5, <1>8, <1>9 DEF Laid
<1>11. o[0] = a /\ o[m + n] = c
  <2>1. 0 \in 0 .. m + n /\ 0 <= m /\ m + n \in 0 .. m + n /\ m <= m + n /\ (m + n) - m = n
    OBVIOUS
  <2>2. o[0] = x[0] /\ o[m + n] = y[n]
    BY <1>7, <2>1
  <2>3. QED
    BY <1>1, <1>2, <1>3, <2>2
<1>12. QED
  BY <1>4, <1>5, <1>10, <1>11 DEF Strung

\* Without the first part.
LEMMA StrungTail ==
    ASSUME NEW T, NEW q \in Seq(Parts), q # <<>>, NEW a, NEW b, Strung(T, q, a, b)
    PROVE  \E m \in Nat : <<Head(q), a, m>> \in T /\ Strung(T, Tail(q), m, b)
<1>1. PICK o : Laid(T, q, o) /\ o[0] = a /\ o[Len(q)] = b
  BY DEF Strung
<1>2. PICK n \in Nat : Len(q) = n + 1
  <2>1. Len(q) \in Nat /\ Len(q) # 0
    BY EmptySeq
  <2>2. Len(q) - 1 \in Nat /\ Len(q) = (Len(q) - 1) + 1
    BY <2>1
  <2>3. QED
    BY <2>2
<1>3. PICK t : t = Tail(q)
  OBVIOUS
<1>4. t \in Seq(Parts) /\ Len(t) = n /\ (\A i \in 1 .. n : t[i] = q[i + 1]) /\ Head(q) = q[1]
  BY <1>2, <1>3, HeadTailProperties
<1>5. o \in [0 .. n + 1 -> Nat] /\ \A i \in 1 .. n + 1 : <<q[i], o[i - 1], o[i]>> \in T
  BY <1>1, <1>2 DEF Laid
<1> DEFINE x == [i \in 0 .. n |-> o[i + 1]]
<1>6. x \in [0 .. n -> Nat] /\ \A i \in 0 .. n : x[i] = o[i + 1]
  BY <1>5
<1> HIDE DEF x
<1>7. ASSUME NEW i \in 1 .. n PROVE <<t[i], x[i - 1], x[i]>> \in T
  <2>1. i \in 0 .. n /\ i - 1 \in 0 .. n /\ (i - 1) + 1 = i /\ i + 1 \in 1 .. n + 1 /\ (i + 1) - 1 = i
    OBVIOUS
  <2>2. <<q[i + 1], o[(i + 1) - 1], o[i + 1]>> \in T
    BY <1>5, <2>1
  <2>3. x[i] = o[i + 1] /\ x[i - 1] = o[i]
    BY <1>6, <2>1
  <2>4. QED
    BY <1>4, <2>1, <2>2, <2>3
<1>8. Laid(T, t, x)
  BY <1>4, <1>6, <1>7 DEF Laid
<1>9. <<Head(q), a, o[1]>> \in T /\ o[1] \in Nat /\ x[0] = o[1] /\ x[n] = b
  <2>1. 0 \in 0 .. n /\ n \in 0 .. n /\ 0 + 1 = 1 /\ 1 \in 1 .. n + 1 /\ 1 - 1 = 0 /\ 1 \in 0 .. n + 1
    OBVIOUS
  <2>2. <<q[1], o[1 - 1], o[1]>> \in T /\ x[0] = o[1] /\ x[n] = o[n + 1] /\ o[1] \in Nat
    BY <1>5, <1>6, <2>1
  <2>3. QED
    BY <1>1, <1>2, <1>4, <2>1, <2>2
<1>10. Strung(T, t, o[1], b)
  BY <1>4, <1>8, <1>9 DEF Strung
<1>11. QED
  BY <1>3, <1>9, <1>10

\* Two sequences that follow each other, taken apart.
LEMMA StrungSplit ==
    ASSUME NEW T, NEW s \in Seq(Parts), NEW t \in Seq(Parts), NEW a, NEW c,
           Strung(T, s \o t, a, c)
    PROVE  \E b \in Nat : Strung(T, s, a, b) /\ Strung(T, t, b, c)
<1>1. PICK m \in Nat, n \in Nat : m = Len(s) /\ n = Len(t)
  OBVIOUS
<1>2. PICK u : u = s \o t
  OBVIOUS
<1>3. /\ Len(u) = m + n
      /\ \A i \in 1 .. m : u[i] = s[i]
      /\ \A i \in 1 .. n : u[m + i] = t[i]
  BY <1>1, <1>2, PartsConcat
<1>4. PICK o : Laid(T, u, o) /\ o[0] = a /\ o[m + n] = c
  BY <1>2, <1>3 DEF Strung
<1>5. o \in [0 .. m + n -> Nat] /\ \A i \in 1 .. m + n : <<u[i], o[i - 1], o[i]>> \in T
  BY <1>3, <1>4 DEF Laid
<1> DEFINE x == [i \in 0 .. m |-> o[i]]
           y == [i \in 0 .. n |-> o[m + i]]
<1>6. /\ x \in [0 .. m -> Nat] /\ \A i \in 0 .. m : x[i] = o[i]
      /\ y \in [0 .. n -> Nat] /\ \A i \in 0 .. n : y[i] = o[m + i]
  BY <1>5
<1> HIDE DEF x, y
<1>7. ASSUME NEW i \in 1 .. m PROVE <<s[i], x[i - 1], x[i]>> \in T
  <2>1. i \in 1 .. m + n /\ i \in 0 .. m /\ i - 1 \in 0 .. m
    OBVIOUS
  <2>2. QED
    BY <1>3, <1>5, <1>6, <2>1
<1>8. ASSUME NEW i \in 1 .. n PROVE <<t[i], y[i - 1], y[i]>> \in T
  <2>1. m + i \in 1 .. m + n /\ i \in 0 .. n /\ i - 1 \in 0 .. n /\ m + (i - 1) = (m + i) - 1
    OBVIOUS
  <2>2. <<u[m + i], o[(m + i) - 1], o[m + i]>> \in T
    BY <1>5, <2>1
  <2>3. y[i] = o[m + i] /\ y[i - 1] = o[(m + i) - 1] /\ u[m + i] = t[i]
    BY <1>3, <1>6, <2>1
  <2>4. QED
    BY <2>2, <2>3
<1>9. Laid(T, s, x) /\ Laid(T, t, y)
  BY <1>1, <1>6, <1>7, <1>8 DEF Laid
<1>10. x[0] = a /\ x[m] = o[m] /\ y[0] = o[m] /\ y[n] = c /\ o[m] \in Nat
  <2>1. 0 \in 0 .. m /\ m \in 0 .. m /\ 0 \in 0 .. n /\ n \in 0 .. n /\ m + 0 = m /\ m \in 0 .. m + n
    OBVIOUS
  <2>2. QED
    BY <1>4, <1>5, <1>6, <2>1
<1>11. QED
  BY <1>1, <1>9, <1>10 DEF Strung

\* No parts, and one.
LEMMA StrungFew ==
    ASSUME NEW T, NEW a, NEW b
    PROVE  /\ Strung(T, <<>>, a, b) <=> a \in Nat /\ a = b
           /\ \A r : <<r, a, b>> \in T /\ a \in Nat /\ b \in Nat => Strung(T, <<r>>, a, b)
<1>1. Len(<<>>) = 0
  OBVIOUS
<1>2. ASSUME a \in Nat, a = b PROVE Strung(T, <<>>, a, b)
  <2> DEFINE o == [i \in 0 .. 0 |-> a]
  <2>1. o \in [0 .. 0 -> Nat] /\ o[0] = a
    BY <1>2
  <2>2. Laid(T, <<>>, o)
    BY <2>1 DEF Laid
  <2>3. QED
    BY <1>1, <1>2, <2>1, <2>2 DEF Strung
<1>3. ASSUME Strung(T, <<>>, a, b) PROVE a \in Nat /\ a = b
  BY <1>1, <1>3 DEF Strung, Laid
<1>4. ASSUME NEW r, <<r, a, b>> \in T, a \in Nat, b \in Nat PROVE Strung(T, <<r>>, a, b)
  <2> DEFINE o == [i \in 0 .. 1 |-> IF i = 0 THEN a ELSE b]
  <2>1. o \in [0 .. 1 -> Nat] /\ o[0] = a /\ o[1] = b
    BY <1>4
  <2>2. Len(<<r>>) = 1 /\ <<r>>[1] = r
    OBVIOUS
  <2> HIDE DEF o
  <2>3. \A i \in 1 .. 1 : <<(<<r>>)[i], o[i - 1], o[i]>> \in T
    <3>1. \A i \in 1 .. 1 : i = 1 /\ i - 1 = 0
      OBVIOUS
    <3>2. QED
      BY <1>4, <2>1, <2>2, <3>1
  <2>4. Laid(T, <<r>>, o)
    BY <2>1, <2>2, <2>3 DEF Laid
  <2>5. QED
    BY <2>1, <2>2, <2>4 DEF Strung
<1>5. QED
  BY <1>2, <1>3, <1>4

\* More places, more ways to follow each other.
LEMMA StrungMore ==
    ASSUME NEW T, NEW U, T \subseteq U, NEW q, NEW a, NEW b, Strung(T, q, a, b)
    PROVE  Strung(U, q, a, b)
  BY DEF Strung, Laid

\* The elements of a part are parts.
LEMMA ElementsOfType ==
    ASSUME NEW r \in Parts
    PROVE  ElementsOf(r) \in Seq(Parts)
  BY ElementIs DEF ElementsOf

\* What is left to encode: the elements, then the rest.
LEMMA ElementsAre ==
    ASSUME NEW r \in Parts, NEW rest \in Seq(Parts)
    PROVE  Elements(r, rest) = ElementsOf(r) \o rest
<1>1. <<>> \o rest = rest
  BY ConcatEmptySeq
<1>2. QED
  BY <1>1 DEF Elements, ElementsOf

-----------------------------------------------------------------------------
(***************************************************************************)
(* What bytes spell a reply: the least set of places that holds a part     *)
(* wherever its own bytes stand and its elements follow.                   *)
(***************************************************************************)
HeaderAt(s, r, p) ==
    p + Len(Header(r)) <= Len(s) /\ \A i \in 1 .. Len(Header(r)) : s[p + i] = Header(r)[i]

Closed(s, T) ==
    \A r \in Parts : \A p, e \in Nat :
        HeaderAt(s, r, p) /\ Strung(T, ElementsOf(r), p + Len(Header(r)), e) => <<r, p, e>> \in T

Spelled(s) == {t \in Places : \A T \in SUBSET Places : Closed(s, T) => t \in T}

\* A part whose own bytes stand in s and whose elements are spelled after them is spelled.
LEMMA SpelledClosed ==
    ASSUME NEW s
    PROVE  Closed(s, Spelled(s))
<1> SUFFICES ASSUME NEW r \in Parts, NEW p \in Nat, NEW e \in Nat, HeaderAt(s, r, p),
                    Strung(Spelled(s), ElementsOf(r), p + Len(Header(r)), e)
             PROVE  <<r, p, e>> \in Spelled(s)
  BY DEF Closed
<1>1. ASSUME NEW T \in SUBSET Places, Closed(s, T) PROVE <<r, p, e>> \in T
  <2>1. Spelled(s) \subseteq T
    BY <1>1 DEF Spelled
  <2>2. Strung(T, ElementsOf(r), p + Len(Header(r)), e)
    BY <2>1, StrungMore
  <2>3. QED
    BY <1>1, <2>2 DEF Closed
<1>2. <<r, p, e>> \in Places
  BY DEF Places
<1>3. QED
  BY <1>1, <1>2 DEF Spelled

-----------------------------------------------------------------------------
(***************************************************************************)
(* The invariant.  What is out and the totals of what is pending make the  *)
(* total of the reply; and in any text that begins with what is out and    *)
(* goes on with what is pending, the reply is spelled from the beginning.  *)
(***************************************************************************)
Starts(s) == s \in Texts /\ Len(output) <= Len(s) /\ \A i \in 1 .. Len(output) : s[i] = output[i]

Completes ==
    \A s : \A e \in Nat :
        Starts(s) /\ Strung(Spelled(s), pending, Len(output), e) => <<reply, 0, e>> \in Spelled(s)

EncoderTyped ==
    /\ wanted \in Parts /\ reply \in Parts /\ output \in Texts /\ pending \in Seq(Parts)
    /\ stage \in {"limit", "encode", "written"}

EncoderInv ==
    /\ EncoderTyped
    /\ stage = "limit" => output = <<>> /\ reply = wanted
    /\ stage # "limit" =>
          /\ Strung(Sized, pending, Len(output), Total[reply])
          /\ Completes
          /\ reserved = Total[reply] /\ Total[reply] <= MaxReplyBytes
          /\ reply = wanted \/ (reply = Error(LimitText) /\ Total[wanted] > MaxReplyBytes)
    /\ stage = "written" => pending = <<>>

\* At first nothing is sent.
LEMMA EncoderInitInv == EncoderInit => EncoderInv
<1> SUFFICES ASSUME EncoderInit PROVE EncoderInv
  OBVIOUS
<1>1. wanted \in Parts /\ reply \in Parts
  BY EncoderAssumption DEF EncoderInit
<1>2. output \in Texts /\ pending \in Seq(Parts)
  BY DEF EncoderInit, Texts
<1>3. QED
  BY <1>1, <1>2 DEF EncoderInit, EncoderInv, EncoderTyped

\* The error that replaces a long reply fits.
LEMMA LimitFits == Error(LimitText) \in Parts /\ Total[Error(LimitText)] = Len(LimitText) + 3
<1>1. PICK r \in Parts : r = Error(LimitText)
  BY EncoderAssumption
<1>2. r.kind = "error" /\ r.text = LimitText
  BY <1>1 DEF Error
<1>3. OwnLen(r) = Len(LimitText) + 3
  BY <1>2 DEF OwnLen
<1>4. TotalOf(r, Total) = OwnLen(r) + 0 /\ OwnLen(r) \in Nat
  BY <1>2, HeaderLength DEF TotalOf
<1>5. QED
  BY <1>1, <1>3, <1>4, TotalDefined

\* Limit sends what fits.
LEMMA StepLimit == EncoderInv /\ Limit => EncoderInv'
<1> SUFFICES ASSUME EncoderInv, Limit PROVE EncoderInv'
  OBVIOUS
<1>1. PICK sent : sent = IF TooLong(reply) THEN Error(LimitText) ELSE reply
  OBVIOUS
<1>2. /\ reply' = sent /\ reserved' = encoded_len(sent) /\ pending' = <<sent>>
      /\ stage = "limit" /\ stage' = "encode" /\ wanted' = wanted /\ output' = output
  BY <1>1 DEF Limit
<1>3. EncoderTyped /\ output = <<>> /\ reply = wanted
  BY <1>2 DEF EncoderInv
<1>4. /\ MaxReplyBytes \in Nat /\ UsizeMax \in Nat /\ MaxReplyBytes <= UsizeMax /\ None \notin Nat
      /\ Len(LimitText) \in Nat /\ Len(LimitText) + 3 <= MaxReplyBytes
  BY EncoderAssumption DEF Texts
<1>5. reply \in Parts /\ Total[reply] \in Nat
  BY <1>3, TotalType DEF EncoderTyped
<1>6. sent \in Parts /\ Total[sent] \in Nat
  BY <1>1, <1>5, LimitFits, TotalType
<1>7. TooLong(reply) <=> Total[reply] > MaxReplyBytes
  <2>1. CASE Total[reply] > UsizeMax
    <3>1. encoded_len(reply) = None
      BY <2>1 DEF encoded_len
    <3>2. QED
      BY <1>4, <1>5, <2>1, <3>1 DEF TooLong
  <2>2. CASE ~(Total[reply] > UsizeMax)
    <3>1. encoded_len(reply) = Total[reply]
      BY <2>2 DEF encoded_len
    <3>2. encoded_len(reply) # None
      BY <1>4, <1>5, <3>1
    <3>3. QED
      BY <3>1, <3>2 DEF TooLong
  <2>3. QED
    BY <2>1, <2>2
<1>8. Total[sent] <= MaxReplyBytes
  <2>1. CASE TooLong(reply)
    BY <1>1, <1>4, <2>1, LimitFits
  <2>2. CASE ~TooLong(reply)
    BY <1>1, <1>4, <1>5, <1>7, <2>2
  <2>3. QED
    BY <2>1, <2>2
<1>9. encoded_len(sent) = Total[sent]
  <2>1. ~(Total[sent] > UsizeMax)
    BY <1>4, <1>6, <1>8
  <2>2. QED
    BY <2>1 DEF encoded_len
<1>10. Len(output) = 0
  BY <1>3
<1>11. Strung(Sized, <<sent>>, 0, Total[sent])
  <2>1. <<sent, 0, Total[sent]>> \in Sized
    BY <1>6, SizedIs
  <2>2. QED
    BY <1>6, <2>1, StrungFew
<1>12. ASSUME NEW s, NEW e \in Nat, Strung(Spelled(s), <<sent>>, 0, e)
       PROVE  <<sent, 0, e>> \in Spelled(s)
  <2>1. <<sent>> \in Seq(Parts) /\ <<sent>> # <<>> /\ Head(<<sent>>) = sent /\ Tail(<<sent>>) = <<>>
    BY <1>6
  <2>2. PICK m \in Nat : <<sent, 0, m>> \in Spelled(s) /\ Strung(Spelled(s), <<>>, m, e)
    BY <1>12, <2>1, StrungTail
  <2>3. QED
    BY <2>2, StrungFew
<1>13. Completes'
  BY <1>2, <1>10, <1>12 DEF Completes
<1>14. EncoderTyped'
  BY <1>2, <1>3, <1>6 DEF EncoderTyped
<1>15. sent = wanted \/ (sent = Error(LimitText) /\ Total[wanted] > MaxReplyBytes)
  BY <1>1, <1>3, <1>7
<1>16. QED
  BY <1>2, <1>8, <1>9, <1>10, <1>11, <1>13, <1>14, <1>15 DEF EncoderInv

\* The bytes of a part stand where encode puts them.
LEMMA Pushed ==
    ASSUME NEW s, NEW r \in Parts, output \in Texts, output' = output \o Header(r), Starts(s)'
    PROVE  Starts(s) /\ HeaderAt(s, r, Len(output))
<1>1. PICK a, b : a = output /\ b = Header(r)
  OBVIOUS
<1>2. a \in Texts /\ b \in Texts
  BY <1>1, HeaderLength
<1>3. Joined(a, b, a \o b)
  BY <1>2, ConcatTexts
<1>4. PICK c : c = a \o b
  OBVIOUS
<1>5. PICK m \in Nat, n \in Nat : m = Len(a) /\ n = Len(b)
  BY <1>3 DEF Joined
<1>6. /\ Len(c) = m + n
      /\ \A i \in 1 .. m : c[i] = a[i]
      /\ \A i \in 1 .. n : c[m + i] = b[i]
  BY <1>3, <1>4, <1>5 DEF Joined
<1>7. s \in Texts /\ Len(c) <= Len(s) /\ \A i \in 1 .. Len(c) : s[i] = c[i]
  BY <1>1, <1>4 DEF Starts
<1>8. Len(s) \in Nat
  BY <1>7 DEF Texts
<1>9. m <= Len(s) /\ m + n <= Len(s)
  BY <1>6, <1>7, <1>8
<1>10. \A i \in 1 .. m : s[i] = a[i]
  <2>1. \A i \in 1 .. m : i \in 1 .. m + n
    OBVIOUS
  <2>2. QED
    BY <1>6, <1>7, <2>1
<1>11. \A i \in 1 .. n : s[m + i] = b[i]
  <2>1. \A i \in 1 .. n : m + i \in 1 .. m + n
    OBVIOUS
  <2>2. QED
    BY <1>6, <1>7, <2>1
<1>12. QED
  BY <1>1, <1>5, <1>7, <1>9, <1>10, <1>11 DEF Starts, HeaderAt

\* encode replaces a part by its bytes and its elements.
LEMMA StepEncode == EncoderInv /\ encode => EncoderInv'
<1> SUFFICES ASSUME EncoderInv, encode PROVE EncoderInv'
  OBVIOUS
<1>1. PICK h, q : h = Head(pending) /\ q = Tail(pending)
  OBVIOUS
<1>2. /\ stage = "encode" /\ pending # <<>> /\ output' = output \o Header(h)
      /\ pending' = Elements(h, q)
      /\ wanted' = wanted /\ reply' = reply /\ reserved' = reserved /\ stage' = stage
  BY <1>1 DEF encode
<1>3. EncoderTyped /\ Strung(Sized, pending, Len(output), Total[reply]) /\ Completes
  BY <1>2 DEF EncoderInv
<1>4. h \in Parts /\ q \in Seq(Parts) /\ pending = <<h>> \o q
  BY <1>1, <1>2, <1>3, HeadTailProperties DEF EncoderTyped
<1>5. pending' = ElementsOf(h) \o q /\ ElementsOf(h) \in Seq(Parts)
  BY <1>2, <1>4, ElementsAre, ElementsOfType
<1>6. pending' \in Seq(Parts)
  BY <1>4, <1>5, ConcatProperties
<1>7. output \in Texts /\ Header(h) \in Texts /\ Len(output) \in Nat
  BY <1>3, <1>4, HeaderLength DEF EncoderTyped, Texts
<1>8. Joined(output, Header(h), output')
  BY <1>2, <1>7, ConcatTexts
<1>9. output' \in Texts /\ Len(output') = Len(output) + OwnLen(h) /\ Len(output') = Len(output) + Len(Header(h))
  BY <1>4, <1>8, HeaderLength DEF Joined
<1>10. Strung(Sized, pending', Len(output'), Total[reply'])
  <2>1. PICK m \in Nat : <<h, Len(output), m>> \in Sized /\ Strung(Sized, q, m, Total[reply])
    BY <1>1, <1>2, <1>3, StrungTail DEF EncoderTyped
  <2>2. m = Len(output) + Total[h]
    BY <1>4, <1>7, <2>1, SizedIs
  <2>3. Strung(Sized, ElementsOf(h), Len(output) + OwnLen(h), Len(output) + Total[h])
    BY <1>4, <1>7, ElementsFill
  <2>4. Strung(Sized, ElementsOf(h) \o q, Len(output) + OwnLen(h), Total[reply])
    BY <1>4, <1>5, <2>1, <2>2, <2>3, StrungConcat
  <2>5. QED
    BY <1>2, <1>5, <1>9, <2>4
<1>11. ASSUME NEW s, NEW e \in Nat, Starts(s)', Strung(Spelled(s), pending', Len(output'), e)
       PROVE  <<reply', 0, e>> \in Spelled(s)
  <2>1. Starts(s) /\ HeaderAt(s, h, Len(output))
    BY <1>2, <1>4, <1>7, <1>11, Pushed
  <2>2. PICK b \in Nat : /\ Strung(Spelled(s), ElementsOf(h), Len(output'), b)
                         /\ Strung(Spelled(s), q, b, e)
    BY <1>4, <1>5, <1>11, StrungSplit
  <2>3. <<h, Len(output), b>> \in Spelled(s)
    BY <1>4, <1>7, <1>9, <2>1, <2>2, SpelledClosed DEF Closed
  <2>4. Strung(Spelled(s), <<h>>, Len(output), b)
    BY <1>7, <2>3, StrungFew
  <2>5. <<h>> \in Seq(Parts)
    BY <1>4
  <2>6. Strung(Spelled(s), pending, Len(output), e)
    BY <1>4, <2>2, <2>4, <2>5, StrungConcat
  <2>7. QED
    BY <1>2, <1>3, <2>1, <2>6 DEF Completes
<1>12. Completes'
  BY <1>11 DEF Completes
<1>13. EncoderTyped'
  BY <1>2, <1>3, <1>6, <1>9 DEF EncoderTyped
<1>14. QED
  BY <1>2, <1>10, <1>12, <1>13 DEF EncoderInv

\* Every step keeps the invariant.
LEMMA EncoderNextInv == EncoderInv /\ [EncoderNext]_encoder_vars => EncoderInv'
<1> SUFFICES ASSUME EncoderInv, [EncoderNext]_encoder_vars PROVE EncoderInv'
  OBVIOUS
<1>1. CASE Limit
  BY <1>1, StepLimit
<1>2. CASE encode
  BY <1>2, StepEncode
<1>3. ASSUME UNCHANGED <<wanted, reply, reserved, pending, output>>, stage' \in {"encode", "written"},
             stage # "limit", stage' = "written" => pending = <<>>
      PROVE  EncoderInv'
  <2>1. Completes'
    BY <1>3 DEF Completes, Starts, EncoderInv
  <2>2. QED
    BY <1>3, <2>1 DEF EncoderInv, EncoderTyped
<1>4. CASE Send
  BY <1>3, <1>4 DEF Send
<1>5. CASE UNCHANGED encoder_vars
  <2>1. stage # "limit" => Completes'
    BY <1>5 DEF Completes, Starts, EncoderInv, encoder_vars
  <2>2. QED
    BY <1>5, <2>1 DEF EncoderInv, EncoderTyped, encoder_vars
<1>6. QED
  BY <1>1, <1>2, <1>4, <1>5 DEF EncoderNext, Sent

\* What the invariant says of the length.
LEMMA EncoderInvLength == EncoderInv => LengthExact
<1> SUFFICES ASSUME EncoderInv PROVE LengthExact
  OBVIOUS
<1>1. EncoderTyped /\ MaxReplyBytes \in Nat
  BY EncoderAssumption DEF EncoderInv
<1>2. CASE stage = "limit"
  BY <1>1, <1>2 DEF EncoderInv, LengthExact
<1>3. CASE stage # "limit"
  <2>1. /\ Strung(Sized, pending, Len(output), Total[reply]) /\ Total[reply] <= MaxReplyBytes
        /\ reserved = Total[reply] /\ (reply # wanted => Total[wanted] > MaxReplyBytes)
    BY <1>3 DEF EncoderInv
  <2>2. Len(output) \in Nat /\ Total[reply] \in Nat /\ Len(output) <= Total[reply]
    BY <1>1, <2>1, SizedForward DEF EncoderTyped
  <2>3. stage = "written" => Len(output) = Total[reply]
    BY <2>1, StrungFew DEF EncoderInv
  <2>4. QED
    BY <1>1, <2>1, <2>2, <2>3 DEF LengthExact
<1>4. QED
  BY <1>2, <1>3

\* encoded_len foresees exactly what encode writes, however deep arrays are nested.
THEOREM EncoderLengthExact == EncoderSpec => []LengthExact
<1>1. EncoderInit => EncoderInv
  BY EncoderInitInv
<1>2. EncoderInv /\ [EncoderNext]_encoder_vars => EncoderInv'
  BY EncoderNextInv
<1>3. EncoderInv => LengthExact
  BY EncoderInvLength
<1>4. QED
  BY <1>1, <1>2, <1>3, PTL DEF EncoderSpec

-----------------------------------------------------------------------------
(***************************************************************************)
(* The client's side: a line is read up to its ending, a number is read    *)
(* as itself, and items are read one after the other.                      *)
(***************************************************************************)
\* l stands in s after p.
Stands(s, l, p) == p + Len(l) <= Len(s) /\ \A i \in 1 .. Len(l) : s[p + i] = l[i]

\* A piece of a text.
LEMMA TextPiece ==
    ASSUME NEW s \in Texts, NEW m \in Nat, NEW n \in Nat, m + n <= Len(s)
    PROVE  /\ SubSeq(s, m + 1, m + n) \in Texts /\ Len(SubSeq(s, m + 1, m + n)) = n
           /\ \A i \in 1 .. n : SubSeq(s, m + 1, m + n)[i] = s[m + i]
<1>1. Len(s) \in Nat /\ s \in Seq(Characters)
  BY DEF Texts
<1>2. \A i \in m + 1 .. m + n : s[i] \in Characters
  BY <1>1
<1>3. SubSeq(s, m + 1, m + n) \in Texts
  BY <1>2, SubSeqProperties DEF Texts
<1>4. Len(SubSeq(s, m + 1, m + n)) = n
  BY <1>1
<1>5. ASSUME NEW i \in 1 .. n PROVE SubSeq(s, m + 1, m + n)[i] = s[m + i]
  BY <1>1
<1>6. QED
  BY <1>3, <1>4, <1>5

\* A line is read up to its ending: its text holds none.
LEMMA LineRead ==
    ASSUME NEW s \in Texts, NEW p \in Nat, NEW c, c # "CR", NEW t \in Texts,
           \A i \in 1 .. Len(t) : t[i] # "CR", NEW l, IsLine(c, t, l), Stands(s, l, p)
    PROVE  /\ p < Len(s) /\ s[p + 1] = c
           /\ LineAfter(s, p) = p + Len(l)
           /\ SubSeq(s, p + 2, (p + Len(l)) - 2) = t
<1>1. PICK n \in Nat, k \in Nat : n = Len(t) /\ k = Len(s)
  BY DEF Texts
<1>2. Len(l) = n + 3 /\ p + (n + 3) <= k
  BY <1>1 DEF IsLine, Stands
<1>3. /\ l[1] = c /\ l[n + 2] = "CR" /\ l[n + 3] = "LF" /\ \A i \in 1 .. n : l[i + 1] = t[i]
      /\ \A i \in 1 .. n + 3 : s[p + i] = l[i]
  BY <1>1, <1>2 DEF IsLine, Stands
<1>4. s[p + 1] = c /\ s[p + (n + 2)] = "CR" /\ s[p + (n + 3)] = "LF"
  <2>1. 1 \in 1 .. n + 3 /\ n + 2 \in 1 .. n + 3 /\ n + 3 \in 1 .. n + 3
    OBVIOUS
  <2>2. QED
    BY <1>3, <2>1
<1>5. ASSUME NEW i \in 1 .. n PROVE s[p + (i + 1)] = t[i]
  <2>1. i + 1 \in 1 .. n + 3
    OBVIOUS
  <2>2. QED
    BY <1>3, <2>1
<1>6. PICK e \in Nat : e = p + (n + 3)
  OBVIOUS
<1> DEFINE ends == {f \in p + 2 .. Len(s) : s[f - 1] = "CR" /\ s[f] = "LF"}
<1>7. e \in ends
  <2>1. e \in p + 2 .. Len(s) /\ e - 1 = p + (n + 2)
    BY <1>1, <1>2, <1>6
  <2>2. QED
    BY <1>4, <1>6, <2>1
<1>8. ASSUME NEW f \in ends PROVE e <= f
  <2>1. SUFFICES ASSUME f < e PROVE FALSE
    BY <1>6
  <2>2. f \in Int /\ p + 2 <= f /\ s[f - 1] = "CR"
    BY <1>1
  <2>3. CASE f = p + 2
    <3>1. f - 1 = p + 1
      BY <2>3
    <3>2. QED
      BY <1>4, <2>2, <3>1
  <2>4. CASE f # p + 2
    <3>1. PICK i \in 1 .. n : f - 1 = p + (i + 1)
      <4>1. f - p - 2 \in 1 .. n /\ f - 1 = p + ((f - p - 2) + 1)
        BY <1>6, <2>1, <2>2, <2>4
      <4>2. QED
        BY <4>1
    <3>2. t[i] # "CR"
      BY <1>1
    <3>3. QED
      BY <1>5, <2>2, <3>1, <3>2
  <2>5. QED
    BY <2>3, <2>4
<1>9. LineAfter(s, p) = e
  <2>1. LineAfter(s, p) = IF ends = {} THEN 0 ELSE CHOOSE x \in ends : \A f \in ends : x <= f
    BY Zenon DEF LineAfter
  <2>2. \A x \in ends : x \in Int
    BY <1>1
  <2> HIDE DEF ends
  <2>3. PICK x : x = CHOOSE m \in ends : \A f \in ends : m <= f
    OBVIOUS
  <2>4. x \in ends /\ \A f \in ends : x <= f
    BY <1>7, <1>8, <2>3
  <2>5. x = e
    BY <1>7, <1>8, <2>2, <2>4
  <2>6. QED
    BY <1>7, <2>1, <2>3, <2>5
<1>10. SubSeq(s, p + 2, e - 2) = t
  <2>1. PICK m \in Nat : m = p + 1
    OBVIOUS
  <2>2. PICK f \in Nat : f = e - 2 /\ f = m + n /\ f <= k /\ p + 2 = m + 1
    BY <1>2, <1>6, <2>1
  <2>3. /\ SubSeq(s, m + 1, m + n) \in Texts /\ Len(SubSeq(s, m + 1, m + n)) = n
        /\ \A i \in 1 .. n : SubSeq(s, m + 1, m + n)[i] = s[m + i]
    <3>1. m + n <= Len(s)
      BY <1>1, <2>2
    <3>2. QED
      BY <3>1, TextPiece
  <2>4. \A i \in 1 .. n : m + i = p + (i + 1)
    BY <2>1
  <2>5. \A i \in 1 .. n : SubSeq(s, m + 1, m + n)[i] = t[i]
    BY <1>5, <2>3, <2>4
  <2>6. SubSeq(s, m + 1, m + n) = t
    BY <1>1, <2>3, <2>5, SeqEqual DEF Texts
  <2>7. QED
    BY <2>2, <2>6
<1>11. p + Len(l) = e /\ p < Len(s)
  BY <1>1, <1>2, <1>6
<1>12. QED
  BY <1>4, <1>9, <1>10, <1>11

\* The number that is written is the one that is read.
LEMMA NumberRead ==
    ASSUME NEW n \in Numbers
    PROVE  {m \in Numbers : Decimal(m) = Decimal(n)} = {n}
<1>1. Numbers \subseteq Int
  BY EncoderAssumption
<1>2. \A m \in Numbers : Decimal(m) = Decimal(n) => m = n
  BY <1>1, DecimalInjective
<1>3. QED
  BY <1>2

Joining(inner, before) == {<<Append(before[1], r[1]), r[2]>> : r \in inner[before[2]]}

\* The set of the empty sequence of items.
NoItems(e) == {<<<<>>, e>>}

ItemsTo(inner, e, n, g) ==
    g = [i \in 0 .. n |-> IF i = 0 THEN NoItems(e)
                          ELSE UNION {Joining(inner, before) : before \in g[i - 1]}]

\* Between the offsets o[i - 1] and o[i] the i-th of q is read, and nothing else.
EachRead(inner, q, n, o) ==
    n = Len(q) /\ \A i \in 1 .. n : inner[o[i - 1]] = {<<q[i], o[i]>>}

\* Items that can be read in one way only.
LEMMA ItemsRead ==
    ASSUME NEW inner, NEW q \in Seq(Parts), NEW n \in Nat, NEW o \in [0 .. n -> Nat],
           EachRead(inner, q, n, o)
    PROVE  Items(inner, o[0], n) = {<<q, o[n]>>}
<1> SUFFICES ASSUME n = Len(q), \A i \in 1 .. n : inner[o[i - 1]] = {<<q[i], o[i]>>}
             PROVE  Items(inner, o[0], n) = {<<q, o[n]>>}
  BY DEF EachRead
<1> DEFINE upto(i) == SubSeq(q, 1, i)
           g == [i \in 0 .. n |-> {<<upto(i), o[i]>>}]
<1>1. upto(0) = <<>> /\ upto(n) = q /\ \A i \in 1 .. n : upto(i) = Append(upto(i - 1), q[i])
  <2>1. upto(0) = <<>>
    OBVIOUS
  <2>2. upto(n) = q
    BY SubSeqFull
  <2>3. ASSUME NEW i \in 1 .. n PROVE upto(i) = Append(upto(i - 1), q[i])
    <3>1. i - 1 \in Nat /\ i \in Nat /\ i <= Len(q)
      OBVIOUS
    <3>2. PICK a, b : a = upto(i) /\ b = upto(i - 1)
      OBVIOUS
    <3>3. a \in Seq(Parts) /\ Len(a) = i /\ \A j \in 1 .. i : a[j] = q[j]
      BY <3>1, <3>2
    <3>4. b \in Seq(Parts) /\ Len(b) = i - 1 /\ \A j \in 1 .. i - 1 : b[j] = q[j]
      BY <3>1, <3>2
    <3>5. q[i] \in Parts
      OBVIOUS
    <3> HIDE DEF upto
    <3>6. Append(b, q[i]) \in Seq(Parts) /\ Len(Append(b, q[i])) = i
          /\ \A j \in 1 .. i : Append(b, q[i])[j] = a[j]
      BY <3>1, <3>3, <3>4, <3>5
    <3>7. a = Append(b, q[i])
      BY <3>3, <3>6, SeqEqual
    <3>8. QED
      BY <3>2, <3>7
  <2>4. QED
    BY <2>1, <2>2, <2>3
<1> HIDE DEF upto
<1>2. ASSUME NEW i \in 1 .. n, NEW S, S = {<<upto(i - 1), o[i - 1]>>}
      PROVE  UNION {Joining(inner, before) : before \in S} = {<<upto(i), o[i]>>}
  <2>1. PICK b : b = <<upto(i - 1), o[i - 1]>>
    OBVIOUS
  <2>2. {Joining(inner, before) : before \in S} = {Joining(inner, b)}
    BY <1>2, <2>1
  <2>3. b[1] = upto(i - 1) /\ b[2] = o[i - 1]
    BY <2>1
  <2>4. inner[b[2]] = {<<q[i], o[i]>>}
    BY <2>3
  <2>5. Joining(inner, b) = {<<Append(b[1], q[i]), o[i]>>}
    BY <2>4 DEF Joining
  <2>6. QED
    BY <1>1, <2>2, <2>3, <2>5
<1>3. ItemsTo(inner, o[0], n, g)
  <2>1. ASSUME NEW i \in 0 .. n
        PROVE  g[i] = IF i = 0 THEN NoItems(o[0])
                      ELSE UNION {Joining(inner, before) : before \in g[i - 1]}
    <3>1. CASE i = 0
      BY <1>1, <3>1 DEF NoItems
    <3>2. CASE i # 0
      <4>1. i \in 1 .. n /\ g[i - 1] = {<<upto(i - 1), o[i - 1]>>} /\ g[i] = {<<upto(i), o[i]>>}
        BY <3>2
      <4> HIDE DEF g
      <4>2. QED
        BY <1>2, <3>2, <4>1
    <3>3. QED
      BY <3>1, <3>2
  <2>2. g = [i \in 0 .. n |-> g[i]]
    OBVIOUS
  <2> HIDE DEF g
  <2>3. QED
    BY <2>1, <2>2 DEF ItemsTo
<1>4. PICK h : h = CHOOSE x : ItemsTo(inner, o[0], n, x)
  OBVIOUS
<1>5. ItemsTo(inner, o[0], n, h)
  BY <1>3, <1>4
<1>6. Items(inner, o[0], n) = h[n]
  BY <1>4 DEF Items, ItemsTo, Joining, NoItems
<1>7. \A i \in 0 .. n : h[i] = IF i = 0 THEN NoItems(o[0])
                               ELSE UNION {Joining(inner, before) : before \in h[i - 1]}
  BY <1>5 DEF ItemsTo
<1>8. \A i \in 0 .. n : h[i] = {<<upto(i), o[i]>>}
  <2> DEFINE Bad == {i \in Nat : i <= n /\ h[i] # {<<upto(i), o[i]>>}}
  <2>1. SUFFICES ASSUME Bad # {} PROVE FALSE
    OBVIOUS
  <2>2. PICK j \in Bad : \A k \in Bad : j <= k
    BY <2>1, LeastNatural
  <2>3. ASSUME j = 0 PROVE FALSE
    <3>1. h[0] = {<<<<>>, o[0]>>}
      <4>1. 0 \in 0 .. n
        OBVIOUS
      <4>2. h[0] = NoItems(o[0])
        BY <1>7, <4>1
      <4>3. QED
        BY <4>2 DEF NoItems
    <3>2. h[j] = {<<upto(j), o[j]>>}
      BY <1>1, <2>3, <3>1
    <3>3. QED
      BY <2>2, <3>2
  <2>4. j \in 1 .. n /\ j \in 0 .. n /\ j - 1 \in Nat /\ j - 1 <= n /\ ~(j <= j - 1)
    BY <2>2, <2>3
  <2>5. h[j - 1] = {<<upto(j - 1), o[j - 1]>>}
    BY <2>2, <2>4
  <2>6. h[j] = UNION {Joining(inner, before) : before \in h[j - 1]}
    BY <1>7, <2>3, <2>4
  <2>7. QED
    BY <1>2, <2>2, <2>4, <2>5, <2>6
<1>9. QED
  BY <1>1, <1>6, <1>8

-----------------------------------------------------------------------------
\* What can be read at one depth, given what can be read one less deep.
Level(s, inner) == [q \in 0 .. Len(s) |-> ReadWith(s, inner, q)]

Nothing(s) == [q \in 0 .. Len(s) |-> {}]

LevelsTo(s, n, g) == g = [d \in 0 .. n |-> Level(s, IF d = 0 THEN Nothing(s) ELSE g[d - 1])]

\* The levels exist.
LEMMA LevelsExist ==
    ASSUME NEW s, NEW n \in Nat
    PROVE  \E g : LevelsTo(s, n, g)
<1> DEFINE Bad == {j \in Nat : ~\E g : LevelsTo(s, j, g)}
<1>1. SUFFICES ASSUME Bad # {} PROVE FALSE
  OBVIOUS
<1>2. PICK j \in Bad : \A k \in Bad : j <= k
  BY <1>1, LeastNatural
<1>3. \E g : \A d \in 0 .. j - 1 : g[d] = Level(s, IF d = 0 THEN Nothing(s) ELSE g[d - 1])
  <2>1. CASE j = 0
    BY <2>1
  <2>2. CASE j # 0
    <3>1. j - 1 \in Nat /\ ~(j <= j - 1)
      BY <2>2
    <3>2. PICK g : LevelsTo(s, j - 1, g)
      BY <1>2, <3>1
    <3>3. QED
      BY <3>2 DEF LevelsTo
  <2>3. QED
    BY <2>1, <2>2
<1>4. PICK g : \A d \in 0 .. j - 1 : g[d] = Level(s, IF d = 0 THEN Nothing(s) ELSE g[d - 1])
  BY <1>3
<1> DEFINE h == [d \in 0 .. j |-> Level(s, IF d = 0 THEN Nothing(s) ELSE g[d - 1])]
<1>5. ASSUME NEW d \in 0 .. j PROVE h[d] = Level(s, IF d = 0 THEN Nothing(s) ELSE h[d - 1])
  <2>1. CASE d = 0
    BY <2>1
  <2>2. CASE d # 0
    <3>1. d - 1 \in 0 .. j - 1 /\ d - 1 \in 0 .. j
      BY <2>2
    <3>2. h[d - 1] = g[d - 1]
      BY <1>4, <3>1
    <3>3. QED
      BY <2>2, <3>2
  <2>3. QED
    BY <2>1, <2>2
<1>6. h = [d \in 0 .. j |-> h[d]]
  OBVIOUS
<1> HIDE DEF h
<1>7. LevelsTo(s, j, h)
  BY <1>5, <1>6 DEF LevelsTo
<1>8. QED
  BY <1>2, <1>7

\* What can be read in s, arrays nested up to d deep.
ReadTo(s, d) == (CHOOSE g : LevelsTo(s, MaxDepth, g))[d]

\* Read reads as deep as there is.
LEMMA ReadIs ==
    ASSUME NEW s, NEW p
    PROVE  Read(s, p) = ReadTo(s, MaxDepth)[p]
  BY DEF Read, ReadTo, LevelsTo, Level, Nothing

\* One level deeper.
LEMMA ReadToIs ==
    ASSUME NEW s, NEW d \in 0 .. MaxDepth, NEW p \in 0 .. Len(s)
    PROVE  ReadTo(s, d)[p] = ReadWith(s, IF d = 0 THEN Nothing(s) ELSE ReadTo(s, d - 1), p)
<1>1. PICK g : g = CHOOSE x : LevelsTo(s, MaxDepth, x)
  OBVIOUS
<1>2. LevelsTo(s, MaxDepth, g)
  BY <1>1, LevelsExist, EncoderAssumption
<1>3. g[d] = Level(s, IF d = 0 THEN Nothing(s) ELSE g[d - 1])
  BY <1>2 DEF LevelsTo
<1>4. PICK inner : inner = IF d = 0 THEN Nothing(s) ELSE g[d - 1]
  OBVIOUS
<1>5. g[d][p] = ReadWith(s, inner, p)
  BY <1>3, <1>4 DEF Level
<1>6. QED
  BY <1>1, <1>4, <1>5 DEF ReadTo

\* A line without a number.
LEMMA ReadsLine ==
    ASSUME NEW s \in Texts, NEW p \in Nat, NEW inner, NEW c \in {"+", "-"}, NEW t \in Texts,
           \A i \in 1 .. Len(t) : t[i] # "CR", Stands(s, Line(c, t), p)
    PROVE  ReadWith(s, inner, p) =
             {<<IF c = "+" THEN Simple(t) ELSE Error(t), p + Len(Line(c, t))>>}
<1>1. PICK l : l = Line(c, t)
  OBVIOUS
<1>2. c \in Characters /\ c # "CR"
  BY EncoderAssumption
<1>3. IsLine(c, t, l)
  BY <1>1, <1>2, LineIs
<1>4. PICK e : e = p + Len(l)
  OBVIOUS
<1>5. p < Len(s) /\ s[p + 1] = c /\ LineAfter(s, p) = e /\ SubSeq(s, p + 2, e - 2) = t
  BY <1>1, <1>2, <1>3, <1>4, LineRead
<1>6. e # 0 /\ ~(p >= Len(s))
  <2>1. Len(s) \in Nat /\ Len(l) \in Nat /\ Len(l) >= 3
    BY <1>3 DEF IsLine, Texts
  <2>2. QED
    BY <1>4, <1>5, <2>1
<1>7. CASE c = "+"
  <2>1. ReadWith(s, inner, p) = {<<Simple(SubSeq(s, p + 2, e - 2)), e>>}
    BY <1>5, <1>6, <1>7 DEF ReadWith
  <2>2. QED
    BY <1>1, <1>4, <1>5, <1>7, <2>1
<1>8. CASE c = "-"
  <2>1. ReadWith(s, inner, p) = {<<Error(SubSeq(s, p + 2, e - 2)), e>>}
    BY <1>5, <1>6, <1>8 DEF ReadWith
  <2>2. QED
    BY <1>1, <1>4, <1>5, <1>8, <2>1
<1>9. QED
  BY <1>7, <1>8

\* A line with a number.
LEMMA ReadsNumber ==
    ASSUME NEW s \in Texts, NEW p \in Nat, NEW c \in {":", "$", "*"}, NEW n \in Numbers,
           Stands(s, Line(c, Decimal(n)), p), NEW e, e = p + Len(Line(c, Decimal(n)))
    PROVE  /\ ~(p >= Len(s)) /\ s[p + 1] = c /\ e \in Nat /\ e # 0
           /\ LineAfter(s, p) = e /\ NumberIn(s, p, e) = {n}
<1>1. PICK l : l = Line(c, Decimal(n))
  OBVIOUS
<1>2. c \in Characters /\ c # "CR" /\ n \in Int
  BY EncoderAssumption
<1>3. Decimal(n) \in Texts /\ \A i \in 1 .. Len(Decimal(n)) : Decimal(n)[i] # "CR"
  BY <1>2, DecimalIs
<1>4. IsLine(c, Decimal(n), l)
  BY <1>1, <1>2, <1>3, LineIs
<1>5. p < Len(s) /\ s[p + 1] = c /\ LineAfter(s, p) = e /\ SubSeq(s, p + 2, e - 2) = Decimal(n)
  BY <1>1, <1>2, <1>3, <1>4, LineRead
<1>6. NumberIn(s, p, e) = {n}
  <2>1. PICK d : d = SubSeq(s, p + 2, e - 2)
    OBVIOUS
  <2>2. NumberIn(s, p, e) = {m \in Numbers : Decimal(m) = d}
    BY <2>1 DEF NumberIn
  <2>3. d = Decimal(n)
    BY <1>5, <2>1
  <2>4. QED
    BY <2>2, <2>3, NumberRead
<1>7. e \in Nat /\ e # 0 /\ ~(p >= Len(s))
  <2>1. Len(s) \in Nat /\ Len(l) \in Nat /\ Len(l) >= 3
    BY <1>4 DEF IsLine, Texts
  <2>2. QED
    BY <1>1, <1>5, <2>1
<1>8. QED
  BY <1>5, <1>6, <1>7

\* A part without elements ends with its own bytes.
LEMMA NoElements ==
    ASSUME NEW r \in Parts, r.kind # "array", NEW T, NEW a, NEW e, Strung(T, ElementsOf(r), a, e)
    PROVE  e = a
<1>1. Strung(T, <<>>, a, e)
  BY DEF ElementsOf
<1>2. QED
  BY <1>1, StrungFew

\* The text of a simple or an error reply has no line ending.
LEMMA OwnText ==
    ASSUME NEW r \in Parts, r.kind \in {"simple", "error"}
    PROVE  r.text \in Texts /\ \A i \in 1 .. Len(r.text) : r.text[i] # "CR"
<1>1. r.text \in Texts
  BY PartIs
<1>2. "CR" \notin Range(r.text)
  BY EncoderAssumption
<1>3. DOMAIN r.text = 1 .. Len(r.text)
  BY <1>1 DEF Texts
<1>4. QED
  BY <1>1, <1>2, <1>3 DEF Range

\* An integer is read back.
LEMMA ReadsInteger ==
    ASSUME NEW s \in Texts, NEW p \in Nat, NEW inner, NEW n \in Numbers,
           Stands(s, Line(":", Decimal(n)), p)
    PROVE  ReadWith(s, inner, p) = {<<Integer(n), p + Len(Line(":", Decimal(n)))>>}
<1>1. PICK e : e = p + Len(Line(":", Decimal(n)))
  OBVIOUS
<1>2. /\ ~(p >= Len(s)) /\ s[p + 1] = ":" /\ e # 0
      /\ LineAfter(s, p) = e /\ NumberIn(s, p, e) = {n}
  BY <1>1, ReadsNumber
<1>3. ReadWith(s, inner, p) = {<<Integer(m), e>> : m \in NumberIn(s, p, e)}
  BY <1>2 DEF ReadWith
<1>4. QED
  BY <1>1, <1>2, <1>3

\* A null bulk is read back.
LEMMA ReadsNull ==
    ASSUME NEW s \in Texts, NEW p \in Nat, NEW inner, NEW n \in Numbers, n = -1,
           Stands(s, Line("$", Decimal(n)), p)
    PROVE  ReadWith(s, inner, p) = {<<NullBulk, p + Len(Line("$", Decimal(n)))>>}
<1>1. PICK e : e = p + Len(Line("$", Decimal(n)))
  OBVIOUS
<1>2. /\ ~(p >= Len(s)) /\ s[p + 1] = "$" /\ e # 0
      /\ LineAfter(s, p) = e /\ NumberIn(s, p, e) = {n}
  BY <1>1, ReadsNumber
<1>3. NumberIn(s, p, e) = {-1}
  BY <1>2
<1>4. ReadWith(s, inner, p) = {<<NullBulk, e>>}
  BY <1>2, <1>3 DEF ReadWith
<1>5. QED
  BY <1>1, <1>4

\* b is what encode pushes for a bulk.
IsBulkOf(b, text) == b = (BulkLine(text) \o text) \o Eol

\* A bulk is read back, whatever its bytes.
LEMMA ReadsBulk ==
    ASSUME NEW s \in Texts, NEW p \in Nat, NEW inner, NEW text \in Texts, Len(text) \in Numbers,
           NEW b, IsBulkOf(b, text), Stands(s, b, p)
    PROVE  ReadWith(s, inner, p) = {<<Bulk(text), p + Len(b)>>}
<1>1. PICK n \in Nat : n = Len(text)
  BY DEF Texts
<1>2. PICK k \in Nat : k = Len(BulkLine(text)) /\ IsBulk(text, k, b)
  <2>1. IsBulk(text, Len(BulkLine(text)), b)
    BY BulkBytes DEF IsBulkOf
  <2>2. QED
    BY <2>1 DEF IsBulk
<1>3. /\ Len(b) = k + n + 2 /\ (\A i \in 1 .. k : b[i] = BulkLine(text)[i])
      /\ \A i \in 1 .. n : b[k + i] = text[i]
  BY <1>1, <1>2 DEF IsBulk
<1>4. PICK l \in Nat : l = Len(s)
  BY DEF Texts
<1>5. p + (k + n + 2) <= l /\ \A i \in 1 .. k + n + 2 : s[p + i] = b[i]
  BY <1>3, <1>4 DEF Stands
<1>6. Stands(s, BulkLine(text), p)
  <2>1. p + k <= l /\ \A i \in 1 .. k : i \in 1 .. k + n + 2
    BY <1>5
  <2>2. QED
    BY <1>2, <1>3, <1>4, <1>5, <2>1 DEF Stands
<1>7. PICK e \in Nat : e = p + k
  OBVIOUS
<1>8. /\ ~(p >= Len(s)) /\ s[p + 1] = "$" /\ e # 0
      /\ LineAfter(s, p) = e /\ NumberIn(s, p, e) = {n}
  <2>1. n \in Numbers /\ Stands(s, Line("$", Decimal(n)), p) /\ e = p + Len(Line("$", Decimal(n)))
    BY <1>1, <1>2, <1>6, <1>7 DEF BulkLine
  <2>2. QED
    BY <2>1, ReadsNumber
<1>9. PICK piece : piece = SubSeq(s, e + 1, e + n)
  OBVIOUS
<1>10. piece = text
  <2>1. e + n <= Len(s)
    BY <1>4, <1>5, <1>7
  <2>2. piece \in Texts /\ Len(piece) = n /\ \A i \in 1 .. n : piece[i] = s[e + i]
    BY <1>9, <2>1, TextPiece, ZenonT(30)
  <2>3. ASSUME NEW i \in 1 .. n PROVE s[e + i] = text[i]
    <3>1. k + i \in 1 .. k + n + 2 /\ e + i = p + (k + i)
      BY <1>7
    <3>2. QED
      BY <1>3, <1>5, <3>1
  <2>4. QED
    BY <1>1, <2>2, <2>3, SeqEqual DEF Texts
<1>11. PICK numbers : numbers = NumberIn(s, p, e)
  OBVIOUS
<1>12. numbers = {n} /\ numbers # {} /\ numbers # {-1} /\ (CHOOSE m \in numbers : TRUE) = n
  <2>1. n # -1
    BY <1>1
  <2>2. QED
    BY <1>8, <1>11, <2>1
<1>13. n >= 0 /\ e + n + 2 <= Len(s)
  BY <1>4, <1>5, <1>7
<1>14. ReadWith(s, inner, p) = {<<Bulk(SubSeq(s, e + 1, e + n)), e + n + 2>>}
  BY <1>8, <1>11, <1>12, <1>13 DEF ReadWith
<1>15. p + Len(b) = e + n + 2
  BY <1>3, <1>7
<1>16. QED
  BY <1>9, <1>10, <1>14, <1>15

\* The elements of an array of n start after e, and are read as q.
ArrayIs(inner, p, e, n, q, end) ==
    e = p + Len(Line("*", Decimal(n))) /\ Items(inner, e, n) = {<<q, end>>}

\* An array is read back if its elements are.
LEMMA ReadsArray ==
    ASSUME NEW s \in Texts, NEW p \in Nat, NEW inner, NEW n \in Nat, n \in Numbers,
           Stands(s, Line("*", Decimal(n)), p),
           NEW e, NEW q, NEW end, ArrayIs(inner, p, e, n, q, end)
    PROVE  ReadWith(s, inner, p) = {<<Array(q), end>>}
<1>1. /\ ~(p >= Len(s)) /\ s[p + 1] = "*" /\ e # 0
      /\ LineAfter(s, p) = e /\ NumberIn(s, p, e) = {n}
  BY ReadsNumber DEF ArrayIs
<1>2. PICK numbers : numbers = NumberIn(s, p, e)
  OBVIOUS
<1>3. numbers # {} /\ (CHOOSE m \in numbers : TRUE) = n /\ n >= 0
  BY <1>1, <1>2
<1>4. ReadWith(s, inner, p) = {<<Array(r[1]), r[2]>> : r \in Items(inner, e, n)}
  BY <1>1, <1>2, <1>3 DEF ReadWith
<1>5. QED
  BY <1>4 DEF ArrayIs

-----------------------------------------------------------------------------
\* Places where a client that reads deep enough reads that part and nothing else.
Readable(s) ==
    {t \in Places : \A d \in Depth[t[1]] .. MaxDepth : ReadTo(s, d)[t[2]] = {<<t[1], t[3]>>}}

\* The same, of a triple.
LEMMA ReadableIs ==
    ASSUME NEW s, NEW r \in Parts, NEW p \in Nat, NEW e \in Nat
    PROVE  <<r, p, e>> \in Readable(s) <=>
             \A d \in Depth[r] .. MaxDepth : ReadTo(s, d)[p] = {<<r, e>>}
<1>1. PICK t : t = <<r, p, e>>
  OBVIOUS
<1>2. t \in Places /\ t[1] = r /\ t[2] = p /\ t[3] = e
  BY <1>1 DEF Places
<1>3. t \in Readable(s) <=> \A d \in Depth[t[1]] .. MaxDepth : ReadTo(s, d)[t[2]] = {<<t[1], t[3]>>}
  BY <1>2 DEF Readable
<1>4. QED
  BY <1>1, <1>2, <1>3

\* The elements of r are read from a to e, by a client that reads one level less than d.
ElementsFound(s, r, a, e, d) ==
    \/ d # 0 /\ Items(ReadTo(s, d - 1), a, Len(r.elements)) = {<<r.elements, e>>}
    \/ r.elements = <<>> /\ e = a

\* Elements that can be read are read one after the other.
LEMMA ElementsRead ==
    ASSUME NEW s, NEW r \in Parts, r.kind = "array", NEW a \in Nat, NEW e,
           Strung(Readable(s), r.elements, a, e), NEW d \in Depth[r] .. MaxDepth
    PROVE  ElementsFound(s, r, a, e, d)
<1>1. PICK q : q = r.elements
  OBVIOUS
<1>2. q \in Seq(Parts)
  BY <1>1, ElementIs
<1>3. CASE q = <<>>
  BY <1>1, <1>3, StrungFew DEF ElementsFound
<1>4. CASE q # <<>>
  <2>1. PICK n \in Nat : n = Len(q)
    BY <1>2
  <2>2. PICK o \in [0 .. n -> Nat] :
           /\ o[0] = a /\ o[n] = e
           /\ \A i \in 1 .. n : <<q[i], o[i - 1], o[i]>> \in Readable(s)
    BY <1>1, <2>1 DEF Strung, Laid
  <2>3. /\ MaxDepth \in Nat /\ Depth[r] \in Nat /\ d \in Nat
        /\ \A i \in 1 .. n : q[i] \in Parts /\ Depth[q[i]] < Depth[r] /\ Depth[q[i]] \in Nat
    <3>1. MaxDepth \in Nat /\ \A x \in Parts : Depth[x] \in Nat
      BY EncoderAssumption
    <3>2. \A i \in 1 .. n : q[i] \in Parts /\ Depth[q[i]] < Depth[r]
      BY <1>1, <2>1, ElementIs
    <3>3. QED
      BY <3>1, <3>2
  <2>4. n >= 1
    BY <1>2, <1>4, <2>1
  <2>5. d # 0
    <3>1. 1 \in 1 .. n
      BY <2>4
    <3>2. QED
      BY <2>3, <3>1
  <2>6. ASSUME NEW i \in 1 .. n PROVE ReadTo(s, d - 1)[o[i - 1]] = {<<q[i], o[i]>>}
    <3>1. d - 1 \in Depth[q[i]] .. MaxDepth
      BY <2>3
    <3>2. o[i - 1] \in Nat /\ o[i] \in Nat
      BY <2>2
    <3>3. PICK x \in Parts, b \in Nat, c \in Nat : x = q[i] /\ b = o[i - 1] /\ c = o[i]
      BY <2>3, <3>2
    <3>4. <<x, b, c>> \in Readable(s)
      BY <2>2, <3>3
    <3>5. \A f \in Depth[x] .. MaxDepth : ReadTo(s, f)[b] = {<<x, c>>}
      BY <3>4, ReadableIs
    <3>6. QED
      BY <3>1, <3>3, <3>5
  <2>7. PICK inner : inner = ReadTo(s, d - 1)
    OBVIOUS
  <2>8. \A i \in 1 .. n : inner[o[i - 1]] = {<<q[i], o[i]>>}
    BY <2>6, <2>7
  <2>9. Items(inner, o[0], n) = {<<q, o[n]>>}
    <3>1. EachRead(inner, q, n, o)
      BY <2>1, <2>8 DEF EachRead
    <3>2. QED
      BY <1>2, <3>1, ItemsRead
  <2>10. QED
    BY <1>1, <2>1, <2>2, <2>5, <2>7, <2>9 DEF ElementsFound
<1>5. QED
  BY <1>3, <1>4

\* No elements are read as none.
LEMMA NoItemsRead ==
    ASSUME NEW inner, NEW a \in Nat
    PROVE  Items(inner, a, 0) = {<<<<>>, a>>}
<1> DEFINE o == [i \in 0 .. 0 |-> a]
<1>1. o \in [0 .. 0 -> Nat] /\ o[0] = a
  OBVIOUS
<1>2. <<>> \in Seq(Parts) /\ Len(<<>>) = 0
  OBVIOUS
<1>3. EachRead(inner, <<>>, 0, o)
  BY DEF EachRead
<1> HIDE DEF o
<1>4. Items(inner, o[0], 0) = {<<<<>>, o[0]>>}
  BY <1>1, <1>2, <1>3, ItemsRead
<1>5. QED
  BY <1>1, <1>4

\* What is spelled can be read: a part is, if its elements are.
LEMMA ReadableClosed ==
    ASSUME NEW s \in Texts
    PROVE  Closed(s, Readable(s))
<1> SUFFICES ASSUME NEW r \in Parts, NEW p \in Nat, NEW e \in Nat, HeaderAt(s, r, p),
                    Strung(Readable(s), ElementsOf(r), p + Len(Header(r)), e)
             PROVE  <<r, p, e>> \in Readable(s)
  BY DEF Closed
<1> SUFFICES ASSUME NEW d \in Depth[r] .. MaxDepth PROVE ReadTo(s, d)[p] = {<<r, e>>}
  BY ReadableIs
<1>1. PICK inner : inner = IF d = 0 THEN Nothing(s) ELSE ReadTo(s, d - 1)
  OBVIOUS
<1>2. Stands(s, Header(r), p)
  BY DEF HeaderAt, Stands
<1>3. ReadTo(s, d)[p] = ReadWith(s, inner, p)
  <2>1. d \in 0 .. MaxDepth
    <3>1. Depth[r] \in Nat /\ MaxDepth \in Nat
      BY EncoderAssumption
    <3>2. QED
      BY <3>1
  <2>2. p \in 0 .. Len(s)
    <3>1. Len(s) \in Nat /\ Len(Header(r)) \in Nat
      BY HeaderLength DEF Texts
    <3>2. QED
      BY <1>2, <3>1 DEF Stands
  <2>3. QED
    BY <1>1, <2>1, <2>2, ReadToIs
<1>4. SUFFICES ReadWith(s, inner, p) = {<<r, e>>}
  BY <1>3
<1>5. r.kind # "array" => e = p + Len(Header(r))
  BY NoElements
<1>6. CASE r.kind = "simple"
  <2>1. Header(r) = Line("+", r.text) /\ r = Simple(r.text)
    BY <1>6, HeaderForm, PartIs
  <2>2. r.text \in Texts /\ \A i \in 1 .. Len(r.text) : r.text[i] # "CR"
    BY <1>6, OwnText
  <2>3. ReadWith(s, inner, p) = {<<Simple(r.text), p + Len(Line("+", r.text))>>}
    BY <1>2, <2>1, <2>2, ReadsLine, SMTT(30)
  <2>4. QED
    BY <1>5, <1>6, <2>1, <2>3
<1>7. CASE r.kind = "error"
  <2>1. Header(r) = Line("-", r.text) /\ r = Error(r.text)
    BY <1>7, HeaderForm, PartIs
  <2>2. r.text \in Texts /\ \A i \in 1 .. Len(r.text) : r.text[i] # "CR"
    BY <1>7, OwnText
  <2>3. ReadWith(s, inner, p) = {<<Error(r.text), p + Len(Line("-", r.text))>>}
    BY <1>2, <2>1, <2>2, ReadsLine
  <2>4. QED
    BY <1>5, <1>7, <2>1, <2>3
<1>8. CASE r.kind = "integer"
  <2>1. Header(r) = Line(":", Decimal(r.integer)) /\ r = Integer(r.integer)
    BY <1>8, HeaderForm, PartIs
  <2>2. r.integer \in Numbers
    BY <1>8, EncoderAssumption
  <2>3. ReadWith(s, inner, p) = {<<Integer(r.integer), p + Len(Line(":", Decimal(r.integer)))>>}
    BY <1>2, <2>1, <2>2, ReadsInteger
  <2>4. QED
    BY <1>5, <1>8, <2>1, <2>3
<1>9. CASE r.kind = "null"
  <2>1. PICK m \in Numbers : m = -1
    BY EncoderAssumption
  <2>2. Header(r) = Line("$", Decimal(m)) /\ r = NullBulk
    BY <1>9, <2>1, HeaderForm, PartIs
  <2>3. ReadWith(s, inner, p) = {<<NullBulk, p + Len(Line("$", Decimal(m)))>>}
    BY <1>2, <2>1, <2>2, ReadsNull
  <2>4. QED
    BY <1>5, <1>9, <2>2, <2>3
<1>10. CASE r.kind = "bulk"
  <2>1. Header(r) = (BulkLine(r.text) \o r.text) \o Eol /\ r = Bulk(r.text) /\ r.text \in Texts
    BY <1>10, HeaderForm, PartIs
  <2>2. Len(r.text) \in Numbers
    BY <1>10, EncoderAssumption
  <2>3. ReadWith(s, inner, p) = {<<Bulk(r.text), p + Len(Header(r))>>}
    <3>1. PICK b, text : b = Header(r) /\ text = r.text
      OBVIOUS
    <3>2. text \in Texts /\ IsBulkOf(b, text) /\ Stands(s, b, p) /\ Len(text) \in Numbers
      BY <1>2, <2>1, <2>2, <3>1 DEF IsBulkOf
    <3>3. ReadWith(s, inner, p) = {<<Bulk(text), p + Len(b)>>}
      BY <3>2, ReadsBulk
    <3>4. QED
      BY <3>1, <3>3
  <2>4. QED
    BY <1>5, <1>10, <2>1, <2>3
<1>11. CASE r.kind = "array"
  <2>1. PICK n \in Nat : n = Len(r.elements)
    BY <1>11, ElementIs
  <2>2. Header(r) = Line("*", Decimal(n)) /\ r = Array(r.elements)
    BY <1>11, <2>1, HeaderForm, PartIs
  <2>3. n \in Numbers
    BY <1>11, <2>1, EncoderAssumption
  <2>4. PICK a \in Nat : a = p + Len(Header(r))
    BY HeaderLength
  <2>5. Strung(Readable(s), r.elements, a, e)
    BY <1>11, <2>4 DEF ElementsOf
  <2>6. Items(inner, a, n) = {<<r.elements, e>>}
    <3>1. CASE d # 0 /\ Items(ReadTo(s, d - 1), a, Len(r.elements)) = {<<r.elements, e>>}
      BY <1>1, <2>1, <3>1
    <3>2. CASE r.elements = <<>> /\ e = a
      <4>1. n = 0
        BY <2>1, <3>2
      <4>2. QED
        BY <3>2, <4>1, NoItemsRead
    <3>3. QED
      <4>1. ElementsFound(s, r, a, e, d)
        BY <1>11, <2>5, ElementsRead
      <4>2. QED
        BY <3>1, <3>2, <4>1 DEF ElementsFound
  <2>7. Stands(s, Line("*", Decimal(n)), p) /\ a = p + Len(Line("*", Decimal(n)))
    BY <1>2, <2>2, <2>4
  <2>8. ReadWith(s, inner, p) = {<<Array(r.elements), e>>}
    <3>1. ArrayIs(inner, p, a, n, r.elements, e)
      BY <2>6, <2>7 DEF ArrayIs
    <3>2. QED
      BY <2>3, <2>7, <3>1, ReadsArray
  <2>9. QED
    BY <2>2, <2>8
<1>12. QED
  BY <1>6, <1>7, <1>8, <1>9, <1>10, <1>11, PartIs

\* What the invariant says of what is read.
LEMMA EncoderInvReads == EncoderInv => ReadsBack
<1> SUFFICES ASSUME EncoderInv, stage = "written" PROVE
        Read(output, 0) = {<<reply, Len(output)>>} /\ (reply = wanted \/ reply = Error(LimitText))
  BY DEF ReadsBack
<1>1. EncoderTyped /\ Completes /\ pending = <<>> /\ (reply = wanted \/ reply = Error(LimitText))
  BY DEF EncoderInv
<1>2. output \in Texts /\ Len(output) \in Nat /\ reply \in Parts
  BY <1>1 DEF EncoderTyped, Texts
<1>3. Starts(output)
  BY <1>2 DEF Starts
<1>4. Strung(Spelled(output), pending, Len(output), Len(output))
  BY <1>1, <1>2, StrungFew
<1>5. <<reply, 0, Len(output)>> \in Spelled(output)
  BY <1>1, <1>2, <1>3, <1>4 DEF Completes
<1>6. Readable(output) \in SUBSET Places
  BY DEF Readable
<1>7. <<reply, 0, Len(output)>> \in Readable(output)
  BY <1>2, <1>5, <1>6, ReadableClosed DEF Spelled
<1>8. MaxDepth \in Depth[reply] .. MaxDepth
  <2>1. Depth[reply] \in 0 .. MaxDepth /\ MaxDepth \in Nat
    BY <1>2, EncoderAssumption
  <2>2. QED
    BY <2>1
<1>9. ReadTo(output, MaxDepth)[0] = {<<reply, Len(output)>>}
  BY <1>2, <1>7, <1>8, ReadableIs
<1>10. QED
  BY <1>1, <1>9, ReadIs

\* A client reads back the reply that was meant, whatever bytes its values hold and
\* however deep its arrays are nested.
THEOREM EncoderReadsBack == EncoderSpec => []ReadsBack
<1>1. EncoderInit => EncoderInv
  BY EncoderInitInv
<1>2. EncoderInv /\ [EncoderNext]_encoder_vars => EncoderInv'
  BY EncoderNextInv
<1>3. EncoderInv => ReadsBack
  BY EncoderInvReads
<1>4. QED
  BY <1>1, <1>2, <1>3, PTL DEF EncoderSpec

=============================================================================
