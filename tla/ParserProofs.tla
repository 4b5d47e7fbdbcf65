---------------------------- MODULE ParserProofs ----------------------------
(***************************************************************************)
(* What the parser makes of its arguments, for every request: the option   *)
(* loops of SET and HELLO accept what the options mean, and the keys of a  *)
(* command are where COMMAND says.                                         *)
(***************************************************************************)
EXTENDS Parser, SequenceTheorems, TLAPS

\* An argument of a request is a token with a lower-case spelling.
LEMMA ArgumentIs ==
    ASSUME a \in Inputs
    PROVE  /\ a \in Seq(Tokens) /\ Len(a) \in Nat /\ Len(a) >= 1
           /\ \A i \in 1 .. Len(a) : a[i] \in Tokens
<1>1. a \in Seq(Tokens) /\ a # <<>>
  BY ParserAssumption
<1>2. QED
  BY <1>1, ParserAssumption

\* The arguments from the m-th to the n-th.
LEMMA PieceIs ==
    ASSUME a \in Inputs, NEW m \in Nat, m >= 1, NEW n \in Nat, n <= Len(a), m <= n + 1
    PROVE  /\ SubSeq(a, m, n) \in Seq(Tokens)
           /\ Len(SubSeq(a, m, n)) = n + 1 - m
           /\ DOMAIN SubSeq(a, m, n) = 1 .. (n + 1 - m)
           /\ \A i \in 1 .. (n + 1 - m) : SubSeq(a, m, n)[i] = a[m + i - 1]
  BY ArgumentIs

\* The commands of the table.
LEMMA NamesAre ==
    DOMAIN SPECS = {"ping", "echo", "quit", "auth", "hello", "select", "get", "set", "incr",
                    "incrby", "decr", "decrby", "del", "exists", "mget", "mset", "expire",
                    "pexpire", "ttl", "pttl", "persist", "command", "client", "info"}
  BY DEF SPECS

\* What COMMAND INFO tells of a command.
LEMMA AdvertisedIs ==
    ASSUME a \in Inputs, Name \in DOMAIN SPECS
    PROVE  metadata("info", <<a[1]>>)[1] = spec_reply(Name)
<1>1. metadata("info", <<a[1]>>)
        = [i \in DOMAIN <<a[1]>> |->
             IF Lower[<<a[1]>>[i]] \in DOMAIN SPECS THEN spec_reply(Lower[<<a[1]>>[i]]) ELSE None]
  <2>1. <<a[1]>> # <<>>
    OBVIOUS
  <2>2. QED
    BY <2>1, Zenon DEF metadata
<1>2. QED
  BY <1>1 DEF Name

-----------------------------------------------------------------------------
(***************************************************************************)
(* The options of SET, by their places.                                    *)
(***************************************************************************)
\* The i-th argument in lower case.
Word(i) == Lower[a[i]]

\* What the arguments and the words of the options look like in lower case.
Spellings ==
    {Lower[t] : t \in Tokens} \cup {"nx", "xx", "keepttl", "px", "ex"}

\* What an assignment may mean.
Choices ==
    [condition : C!Conditions, expiry : {"clear", "keep"}, milliseconds : {0}]
      \cup [condition : C!Conditions, expiry : {"after"}, milliseconds : Durations]

\* The arguments a condition takes, and that it stands at the i-th.
ConditionSize(c) == IF c = "always" THEN 0 ELSE 1

ConditionAt(c, i) ==
    /\ c = "if_absent" => Word(i) = "nx"
    /\ c = "if_present" => Word(i) = "xx"

\* The arguments an expiration choice takes, and that it stands at the i-th.
ExpirySize(e) == IF e = "clear" THEN 0 ELSE IF e = "keep" THEN 1 ELSE 2

ExpiryAt(e, milliseconds, i) ==
    /\ e = "keep" => Word(i) = "keepttl"
    /\ e = "after" =>
         /\ IntegerOf[a[i + 1]] # None
         /\ \/ Word(i) = "px" /\ IntegerOf[a[i + 1]] = milliseconds
            \/ Word(i) = "ex" /\ IntegerOf[a[i + 1]] * 1000 = milliseconds

\* The options up to the n-th argument say m.
SetReads(m, n) ==
    /\ n = 3 + ConditionSize(m.condition) + ExpirySize(m.expiry)
    /\ \/ /\ ConditionAt(m.condition, 4)
          /\ ExpiryAt(m.expiry, m.milliseconds, 4 + ConditionSize(m.condition))
       \/ /\ ExpiryAt(m.expiry, m.milliseconds, 4)
          /\ ConditionAt(m.condition, 4 + ExpirySize(m.expiry))

\* The words s and then the words t, and that w is made of them, by places.
Behind(s, t) == s \o t

Meets(w, s, t) ==
    /\ Len(w) = Len(s) + Len(t)
    /\ \A i \in 1 .. Len(s) : w[i] = s[i]
    /\ \A i \in 1 .. Len(t) : w[Len(s) + i] = t[i]

\* Which words one sequence behind the other has.
LEMMA Joined ==
    ASSUME NEW S, NEW w \in Seq(S), NEW s \in Seq(S), NEW t \in Seq(S)
    PROVE  w = Behind(s, t) <=> Meets(w, s, t)
<1>1. PICK v \in Seq(S) : v = s \o t
  BY ConcatProperties
<1>2. PICK m \in Nat, n \in Nat : m = Len(s) /\ n = Len(t)
  OBVIOUS
<1>3. /\ Len(v) = m + n
      /\ \A i \in 1 .. m + n : v[i] = IF i <= m THEN s[i] ELSE t[i - m]
  BY <1>1, <1>2, ConcatProperties
<1>4. (\A i \in 1 .. m : v[i] = s[i]) /\ (\A i \in 1 .. n : v[m + i] = t[i])
  <2>1. ASSUME NEW i \in 1 .. m PROVE v[i] = s[i]
    BY <1>3
  <2>2. ASSUME NEW i \in 1 .. n PROVE v[m + i] = t[i]
    <3>1. m + i \in 1 .. m + n /\ ~(m + i <= m) /\ (m + i) - m = i
      OBVIOUS
    <3>2. QED
      BY <1>3, <3>1
  <2>3. QED
    BY <2>1, <2>2
<1>5. ASSUME Len(w) = m + n, \A i \in 1 .. m : w[i] = s[i], \A i \in 1 .. n : w[m + i] = t[i]
      PROVE  w = v
  <2>1. ASSUME NEW i \in 1 .. Len(w) PROVE w[i] = v[i]
    <3>1. CASE i <= m
      BY <1>4, <1>5, <2>1, <3>1
    <3>2. CASE ~(i <= m)
      <4>1. PICK k \in 1 .. n : i = m + k
        <5>1. i - m \in 1 .. n /\ i = m + (i - m)
          BY <1>5, <2>1, <3>2
        <5>2. QED
          BY <5>1
      <4>2. QED
        BY <1>4, <1>5, <4>1
    <3>3. QED
      BY <3>1, <3>2
  <2>2. Len(w) = Len(v)
    BY <1>3, <1>5
  <2>3. QED
    BY <2>1, <2>2, SeqEqual
<1>6. QED
  BY <1>1, <1>2, <1>3, <1>4, <1>5 DEF Behind, Meets

\* The length and the words of a short sequence.
LEMMA ShortIs ==
    ASSUME NEW S, NEW x \in S, NEW y \in S, NEW z \in S
    PROVE  /\ <<>> \in Seq(S) /\ Len(<<>>) = 0
           /\ <<x>> \in Seq(S) /\ Len(<<x>>) = 1 /\ <<x>>[1] = x
           /\ <<x, y>> \in Seq(S) /\ Len(<<x, y>>) = 2
           /\ <<x, y>>[1] = x /\ <<x, y>>[2] = y
           /\ <<x, y, z>> \in Seq(S) /\ Len(<<x, y, z>>) = 3
           /\ <<x, y, z>>[1] = x /\ <<x, y, z>>[2] = y /\ <<x, y, z>>[3] = z
<1>1. <<>> \in Seq(S) /\ Len(<<>>) = 0
  BY EmptySeq
<1>2. <<x>> \in Seq(S) /\ Len(<<x>>) = 1 /\ <<x>>[1] = x
  OBVIOUS
<1>3. /\ <<x, y>> \in Seq(S) /\ Len(<<x, y>>) = 2
      /\ <<x, y>>[1] = x /\ <<x, y>>[2] = y
  OBVIOUS
<1>4. /\ <<x, y, z>> \in Seq(S) /\ Len(<<x, y, z>>) = 3
      /\ <<x, y, z>>[1] = x /\ <<x, y, z>>[2] = y /\ <<x, y, z>>[3] = z
  OBVIOUS
<1>5. QED
  BY <1>1, <1>2, <1>3, <1>4

\* The words of the options up to the n-th argument.
LEMMA WordsAre ==
    ASSUME a \in Inputs, NEW m \in Nat, m >= 1, NEW n \in Nat, n <= Len(a), m <= n + 1,
           NEW w, w = LowerCase(SubSeq(a, m, n))
    PROVE  /\ w \in Seq(Spellings) /\ Len(w) = n + 1 - m
           /\ \A i \in 1 .. (n + 1 - m) : w[i] = Word(m + i - 1)
<1>1. PICK s : s = SubSeq(a, m, n)
  OBVIOUS
<1>2. /\ DOMAIN s = 1 .. (n + 1 - m) /\ n + 1 - m \in Nat
      /\ \A i \in 1 .. (n + 1 - m) : s[i] = a[m + i - 1] /\ a[m + i - 1] \in Tokens
  BY <1>1, PieceIs, ArgumentIs
<1>3. w = [i \in 1 .. (n + 1 - m) |-> Lower[s[i]]]
  BY <1>1, <1>2, Zenon DEF LowerCase
<1>4. \A i \in 1 .. (n + 1 - m) : w[i] = Word(m + i - 1) /\ w[i] \in Spellings
  BY <1>2, <1>3 DEF Word, Spellings
<1>5. w \in Seq(Spellings) /\ Len(w) = n + 1 - m
  BY <1>2, <1>3, <1>4
<1>6. QED
  BY <1>4, <1>5

\* The words of a condition and of an expiration.
LEMMA OptionWordsAre ==
    /\ ConditionWords("always") = {<<>>} /\ ConditionWords("if_absent") = {<<"nx">>}
    /\ ConditionWords("if_present") = {<<"xx">>}
    /\ \A milliseconds : ExpiryWords("clear", milliseconds) = {<<>>}
    /\ \A milliseconds : ExpiryWords("keep", milliseconds) = {<<"keepttl">>}
    /\ \A milliseconds : ExpiryWords("after", milliseconds) =
           {<<"px", Lower[t]>> : t \in {n \in Numerals : IntegerOf[n] = milliseconds}}
             \cup {<<"ex", Lower[t]>> : t \in {n \in Numerals : IntegerOf[n] * 1000 = milliseconds}}
  BY DEF ConditionWords, ExpiryWords

\* The words t are the ones from the i-th argument on.
Stand(t, i) == \A j \in 1 .. Len(t) : Word(i + j - 1) = t[j]

\* The sequences of one and two words, and what their standing in a place means.
LEMMA OneWord ==
    ASSUME NEW x \in Spellings
    PROVE  /\ <<x>> \in Seq(Spellings) /\ Len(<<x>>) = 1
           /\ \A i \in Nat : Stand(<<x>>, i) <=> Word(i) = x
<1>1. PICK s : s = <<x>>
  OBVIOUS
<1>2. s \in Seq(Spellings) /\ Len(s) = 1 /\ s[1] = x
  BY <1>1, ShortIs, Zenon
<1>3. ASSUME NEW i \in Nat PROVE Stand(s, i) <=> Word(i) = x
  <2>1. 1 .. Len(s) = {1} /\ i + 1 - 1 = i
    BY <1>2
  <2>2. QED
    BY <1>2, <2>1 DEF Stand
<1>4. QED
  BY <1>1, <1>2, <1>3, Zenon

\* Two words in their places.
LEMMA TwoWords ==
    ASSUME NEW x \in Spellings, NEW y \in Spellings
    PROVE  /\ <<x, y>> \in Seq(Spellings) /\ Len(<<x, y>>) = 2
           /\ \A i \in Nat : Stand(<<x, y>>, i) <=> Word(i) = x /\ Word(i + 1) = y
<1>1. PICK s : s = <<x, y>>
  OBVIOUS
<1>2. s \in Seq(Spellings) /\ Len(s) = 2 /\ s[1] = x /\ s[2] = y
  BY <1>1, ShortIs, Zenon
<1>3. ASSUME NEW i \in Nat PROVE Stand(s, i) <=> Word(i) = x /\ Word(i + 1) = y
  <2>1. 1 .. Len(s) = {1, 2} /\ i + 1 - 1 = i /\ i + 2 - 1 = i + 1
    BY <1>2
  <2>2. QED
    BY <1>2, <2>1 DEF Stand
<1>4. QED
  BY <1>1, <1>2, <1>3, Zenon

\* The words of the options are among the spellings.
LEMMA WordsAreSpellings ==
    /\ "nx" \in Spellings /\ "xx" \in Spellings /\ "keepttl" \in Spellings /\ "px" \in Spellings
    /\ "ex" \in Spellings
  BY DEF Spellings

\* A condition in its place.
LEMMA ConditionStands ==
    ASSUME NEW c \in C!Conditions
    PROVE  \E s \in Seq(Spellings) :
             /\ ConditionWords(c) = {s} /\ Len(s) = ConditionSize(c)
             /\ \A i \in Nat : Stand(s, i) <=> ConditionAt(c, i)
<1>1. c \in {"always", "if_absent", "if_present"}
  BY DEF C!Conditions
<1>2. CASE c = "always"
  <2>1. /\ <<>> \in Seq(Spellings) /\ ConditionWords(c) = {<<>>} /\ Len(<<>>) = ConditionSize(c)
        /\ \A i \in Nat : Stand(<<>>, i) /\ ConditionAt(c, i)
    BY <1>2, OptionWordsAre, EmptySeq DEF Stand, ConditionAt, ConditionSize
  <2>2. QED
    BY <2>1
<1>3. ASSUME NEW x \in Spellings, ConditionWords(c) = {<<x>>}, c # "always",
             \A i \in Nat : ConditionAt(c, i) <=> Word(i) = x
      PROVE  \E s \in Seq(Spellings) :
               /\ ConditionWords(c) = {s} /\ Len(s) = ConditionSize(c)
               /\ \A i \in Nat : Stand(s, i) <=> ConditionAt(c, i)
  <2>1. <<x>> \in Seq(Spellings) /\ Len(<<x>>) = ConditionSize(c)
    BY <1>3, OneWord DEF ConditionSize
  <2>2. \A i \in Nat : Stand(<<x>>, i) <=> ConditionAt(c, i)
    BY <1>3, OneWord
  <2>3. QED
    BY <1>3, <2>1, <2>2
<1>4. CASE c = "if_absent"
  <2>1. ConditionWords(c) = {<<"nx">>} /\ c # "always"
    BY <1>4, OptionWordsAre
  <2>2. \A i \in Nat : ConditionAt(c, i) <=> Word(i) = "nx"
    BY <1>4 DEF ConditionAt
  <2>3. QED
    BY <1>3, <2>1, <2>2, WordsAreSpellings, Zenon
<1>5. CASE c = "if_present"
  <2>1. ConditionWords(c) = {<<"xx">>} /\ c # "always"
    BY <1>5, OptionWordsAre
  <2>2. \A i \in Nat : ConditionAt(c, i) <=> Word(i) = "xx"
    BY <1>5 DEF ConditionAt
  <2>3. QED
    BY <1>3, <2>1, <2>2, WordsAreSpellings, Zenon
<1>6. QED
  BY <1>1, <1>2, <1>4, <1>5

\* An expiration in its place.
LEMMA ExpiryStands ==
    ASSUME a \in Inputs, NEW e \in {"clear", "keep", "after"}, NEW milliseconds
    PROVE  /\ \A t \in ExpiryWords(e, milliseconds) :
                 t \in Seq(Spellings) /\ Len(t) = ExpirySize(e)
           /\ \A i \in 1 .. Len(a) : i + ExpirySize(e) <= Len(a) + 1 =>
                 ((\E t \in ExpiryWords(e, milliseconds) : Stand(t, i))
                    <=> ExpiryAt(e, milliseconds, i))
<1>1. CASE e = "clear"
  <2>1. ExpiryWords(e, milliseconds) = {<<>>} /\ ExpirySize(e) = 0
    BY <1>1, OptionWordsAre DEF ExpirySize
  <2>2. <<>> \in Seq(Spellings) /\ Len(<<>>) = 0
    BY EmptySeq
  <2>3. \A i : Stand(<<>>, i) /\ ExpiryAt(e, milliseconds, i)
    BY <1>1, <2>2 DEF Stand, ExpiryAt
  <2>4. QED
    BY <2>1, <2>2, <2>3
<1>2. CASE e = "keep"
  <2>1. ExpiryWords(e, milliseconds) = {<<"keepttl">>} /\ ExpirySize(e) = 1
    BY <1>2, OptionWordsAre DEF ExpirySize
  <2>2. /\ <<"keepttl">> \in Seq(Spellings) /\ Len(<<"keepttl">>) = 1
        /\ \A i \in Nat : Stand(<<"keepttl">>, i) <=> Word(i) = "keepttl"
    BY OneWord, WordsAreSpellings, Zenon
  <2>3. \A i \in Nat : Stand(<<"keepttl">>, i) <=> ExpiryAt(e, milliseconds, i)
    BY <1>2, <2>2 DEF ExpiryAt
  <2>4. \A i \in 1 .. Len(a) : i \in Nat
    BY ArgumentIs
  <2>5. QED
    BY <2>1, <2>2, <2>3, <2>4
<1>3. CASE e = "after"
  <2> DEFINE Px == {x \in Numerals : IntegerOf[x] = milliseconds}
             Ex == {x \in Numerals : IntegerOf[x] * 1000 = milliseconds}
  <2>1. ASSUME NEW t PROVE
          t \in ExpiryWords(e, milliseconds)
             <=> \/ \E x \in Px : t = <<"px", Lower[x]>>
                 \/ \E x \in Ex : t = <<"ex", Lower[x]>>
    BY <1>3, OptionWordsAre
  <2>2. ExpirySize(e) = 2
    BY <1>3 DEF ExpirySize
  <2>3. ASSUME NEW u \in Spellings, NEW x \in Numerals
        PROVE  /\ <<u, Lower[x]>> \in Seq(Spellings) /\ Len(<<u, Lower[x]>>) = 2
               /\ \A i \in 1 .. Len(a) : Stand(<<u, Lower[x]>>, i)
                                           <=> Word(i) = u /\ Word(i + 1) = Lower[x]
    <3>1. Lower[x] \in Spellings
      BY DEF Numerals, Spellings
    <3>2. \A i \in 1 .. Len(a) : i \in Nat
      BY ArgumentIs
    <3>3. QED
      BY <3>1, <3>2, TwoWords, Zenon
  <2>4. ASSUME NEW i \in 1 .. Len(a), i + 2 <= Len(a) + 1
        PROVE  (\E t \in ExpiryWords(e, milliseconds) : Stand(t, i))
                 <=> ExpiryAt(e, milliseconds, i)
    <3>1. a[i + 1] \in Tokens /\ Word(i + 1) = Lower[a[i + 1]]
      BY <2>4, ArgumentIs DEF Word
    <3>2. \A x \in Numerals : x \in Tokens /\ IntegerOf[x] # None
      BY DEF Numerals
    <3>3. ASSUME NEW x \in Numerals, Word(i + 1) = Lower[x]
          PROVE  IntegerOf[a[i + 1]] = IntegerOf[x]
      BY <3>1, <3>2, <3>3, ParserAssumption
    <3>4. ASSUME NEW t \in ExpiryWords(e, milliseconds), Stand(t, i)
          PROVE  ExpiryAt(e, milliseconds, i)
      <4>1. CASE \E x \in Px : t = <<"px", Lower[x]>>
        <5>1. PICK x \in Px : t = <<"px", Lower[x]>>
          BY <4>1
        <5>2. Word(i) = "px" /\ Word(i + 1) = Lower[x]
          BY <2>3, <3>4, <5>1, WordsAreSpellings, Zenon
        <5>3. IntegerOf[a[i + 1]] = milliseconds /\ IntegerOf[a[i + 1]] # None
          BY <3>2, <3>3, <5>1, <5>2
        <5>4. QED
          BY <1>3, <5>2, <5>3 DEF ExpiryAt
      <4>2. CASE \E x \in Ex : t = <<"ex", Lower[x]>>
        <5>1. PICK x \in Ex : t = <<"ex", Lower[x]>>
          BY <4>2
        <5>2. Word(i) = "ex" /\ Word(i + 1) = Lower[x]
          BY <2>3, <3>4, <5>1, WordsAreSpellings, Zenon
        <5>3. IntegerOf[a[i + 1]] * 1000 = milliseconds /\ IntegerOf[a[i + 1]] # None
          BY <3>2, <3>3, <5>1, <5>2
        <5>4. QED
          BY <1>3, <5>2, <5>3 DEF ExpiryAt
      <4>3. QED
        BY <2>1, <3>4, <4>1, <4>2
    <3>5. ASSUME ExpiryAt(e, milliseconds, i)
          PROVE  \E t \in ExpiryWords(e, milliseconds) : Stand(t, i)
      <4>1. PICK x \in Numerals : x = a[i + 1] /\ Word(i + 1) = Lower[x]
        BY <1>3, <3>1, <3>5 DEF ExpiryAt, Numerals
      <4>2. CASE Word(i) = "px" /\ IntegerOf[a[i + 1]] = milliseconds
        <5>1. <<"px", Lower[x]>> \in ExpiryWords(e, milliseconds)
          BY <2>1, <4>1, <4>2
        <5>2. Stand(<<"px", Lower[x]>>, i)
          <6>1. Stand(<<"px", Lower[x]>>, i) <=> Word(i) = "px" /\ Word(i + 1) = Lower[x]
            BY <2>3, WordsAreSpellings, Zenon
          <6>2. QED
            BY <4>1, <4>2, <6>1, Zenon
        <5>3. QED
          BY <5>1, <5>2
      <4>3. CASE Word(i) = "ex" /\ IntegerOf[a[i + 1]] * 1000 = milliseconds
        <5>1. <<"ex", Lower[x]>> \in ExpiryWords(e, milliseconds)
          BY <2>1, <4>1, <4>3
        <5>2. Stand(<<"ex", Lower[x]>>, i)
          <6>1. Stand(<<"ex", Lower[x]>>, i) <=> Word(i) = "ex" /\ Word(i + 1) = Lower[x]
            BY <2>3, WordsAreSpellings, Zenon
          <6>2. QED
            BY <4>1, <4>3, <6>1, Zenon
        <5>3. QED
          BY <5>1, <5>2
      <4>4. QED
        BY <1>3, <3>5, <4>2, <4>3 DEF ExpiryAt
    <3>6. QED
      BY <3>4, <3>5
  <2>5. \A t \in ExpiryWords(e, milliseconds) : t \in Seq(Spellings) /\ Len(t) = 2
    <3>1. ASSUME NEW u \in Spellings, NEW x \in Numerals
          PROVE  <<u, Lower[x]>> \in Seq(Spellings) /\ Len(<<u, Lower[x]>>) = 2
      BY <2>3
    <3>2. ASSUME NEW x \in Px \cup Ex PROVE x \in Numerals
      OBVIOUS
    <3> HIDE DEF Px, Ex
    <3>3. ASSUME NEW t \in ExpiryWords(e, milliseconds)
          PROVE  \E u \in Spellings, x \in Numerals : t = <<u, Lower[x]>>
      BY <2>1, <3>2, WordsAreSpellings, Zenon
    <3>4. QED
      BY <3>1, <3>3
  <2>6. QED
    BY <2>2, <2>4, <2>5
<1>4. QED
  BY <1>1, <1>2, <1>3

\* The arguments from the m-th to the n-th are the words s and then the words t.
Fill(s, t, m, n) == n + 1 = m + Len(s) + Len(t) /\ Stand(s, m) /\ Stand(t, m + Len(s))

\* Two groups of words that follow each other, by places.
LEMMA InOrder ==
    ASSUME a \in Inputs, NEW m \in Nat, m >= 1, NEW n \in Nat, n <= Len(a), m <= n + 1,
           NEW s \in Seq(Spellings), NEW t \in Seq(Spellings),
           NEW w, w = LowerCase(SubSeq(a, m, n))
    PROVE  w = Behind(s, t) <=> Fill(s, t, m, n)
<1>2. /\ w \in Seq(Spellings) /\ Len(w) = n + 1 - m
      /\ \A i \in 1 .. (n + 1 - m) : w[i] = Word(m + i - 1)
  BY WordsAre, ZenonT(30)
<1>3. PICK p \in Nat, q \in Nat : p = Len(s) /\ q = Len(t)
  OBVIOUS
<1>4. w = Behind(s, t) <=> /\ Len(w) = p + q
                           /\ \A i \in 1 .. p : w[i] = s[i]
                           /\ \A i \in 1 .. q : w[p + i] = t[i]
  <2>1. w = Behind(s, t) <=> Meets(w, s, t)
    BY <1>2, Joined, Zenon
  <2>2. QED
    BY <1>3, <2>1 DEF Meets
<1>5. Len(w) = p + q <=> n + 1 = m + p + q
  BY <1>2
<1>6. ASSUME n + 1 = m + p + q
      PROVE  /\ (\A i \in 1 .. p : w[i] = s[i]) <=> Stand(s, m)
             /\ (\A i \in 1 .. q : w[p + i] = t[i]) <=> Stand(t, m + p)
  <2>1. ASSUME NEW i \in 1 .. p PROVE w[i] = Word(m + i - 1)
    BY <1>2, <1>6
  <2>2. ASSUME NEW i \in 1 .. q PROVE w[p + i] = Word(m + p + i - 1)
    <3>1. p + i \in 1 .. (n + 1 - m) /\ m + (p + i) - 1 = m + p + i - 1
      BY <1>6
    <3>2. QED
      BY <1>2, <3>1
  <2>3. QED
    BY <1>3, <2>1, <2>2 DEF Stand
<1>7. QED
  BY <1>3, <1>4, <1>5, <1>6 DEF Fill

\* What is spelt by two groups of words, the first or the second of them first.
FirstFirst(S, T) == {s \o t : s \in S, t \in T}
SecondFirst(S, T) == {t \o s : s \in S, t \in T}

\* What is in either order is one sequence behind the other.
LEMMA EitherIs ==
    ASSUME NEW w, NEW S, NEW T
    PROVE  w \in EitherOrder(S, T) <=> \E s \in S, t \in T : w = Behind(s, t) \/ w = Behind(t, s)
<1>1. w \in FirstFirst(S, T) <=> \E s \in S, t \in T : w = Behind(s, t)
  BY DEF FirstFirst, Behind
<1>2. w \in SecondFirst(S, T) <=> \E s \in S, t \in T : w = Behind(t, s)
  BY DEF SecondFirst, Behind
<1>3. EitherOrder(S, T) = FirstFirst(S, T) \cup SecondFirst(S, T)
  BY DEF EitherOrder, FirstFirst, SecondFirst
<1>4. QED
  BY <1>1, <1>2, <1>3, Zenon

\* The arguments from the m-th to the n-th are two pieces in either order exactly
\* when the pieces fill those places.
LEMMA EitherFills ==
    ASSUME a \in Inputs, NEW m \in Nat, m >= 1, NEW n \in Nat, n <= Len(a), m <= n + 1,
           NEW S \in SUBSET Seq(Spellings), NEW T \in SUBSET Seq(Spellings)
    PROVE  LowerCase(SubSeq(a, m, n)) \in EitherOrder(S, T)
             <=> \E s \in S, t \in T : Fill(s, t, m, n) \/ Fill(t, s, m, n)
<1>1. PICK w : w = LowerCase(SubSeq(a, m, n))
  OBVIOUS
<1>2. ASSUME NEW s \in Seq(Spellings), NEW t \in Seq(Spellings)
      PROVE  w = Behind(s, t) <=> Fill(s, t, m, n)
  BY <1>1, InOrder
<1>3. w \in EitherOrder(S, T) <=> \E s \in S, t \in T : w = Behind(s, t) \/ w = Behind(t, s)
  BY EitherIs
<1>4. \A s \in S, t \in T : s \in Seq(Spellings) /\ t \in Seq(Spellings)
  OBVIOUS
<1>5. w \in EitherOrder(S, T)
        <=> \E s \in S, t \in T : Fill(s, t, m, n) \/ Fill(t, s, m, n)
  BY <1>2, <1>3, <1>4
<1>6. QED
  BY <1>1, <1>5

\* What the reference takes for the options of an assignment, by places.
LEMMA SetSpelling ==
    ASSUME a \in Inputs, NEW n \in Nat, 3 <= n, n <= Len(a), NEW m,
           m.condition \in C!Conditions, m.expiry \in {"clear", "keep", "after"}
    PROVE  LowerCase(SubSeq(a, 4, n))
              \in EitherOrder(ConditionWords(m.condition),
                              ExpiryWords(m.expiry, m.milliseconds))
             <=> SetReads(m, n)
<1>1. PICK w : w = LowerCase(SubSeq(a, 4, n))
  OBVIOUS
<1>2. PICK T : T = ExpiryWords(m.expiry, m.milliseconds)
  OBVIOUS
<1>3. PICK s \in Seq(Spellings) :
        /\ ConditionWords(m.condition) = {s} /\ Len(s) = ConditionSize(m.condition)
        /\ \A i \in Nat : Stand(s, i) <=> ConditionAt(m.condition, i)
  BY ConditionStands
<1>4. PICK p \in Nat, q \in Nat : p = ConditionSize(m.condition) /\ q = ExpirySize(m.expiry)
  BY DEF ConditionSize, ExpirySize
<1>5. /\ \A t \in T : t \in Seq(Spellings) /\ Len(t) = q
      /\ \A i \in 1 .. Len(a) : i + q <= Len(a) + 1 =>
            ((\E t \in T : Stand(t, i)) <=> ExpiryAt(m.expiry, m.milliseconds, i))
  BY <1>2, <1>4, ExpiryStands
<1>6. w \in EitherOrder({s}, T) <=> \E t \in T : Fill(s, t, 4, n) \/ Fill(t, s, 4, n)
  <2>1. PICK S \in SUBSET Seq(Spellings) : S = {s}
    OBVIOUS
  <2>2. T \in SUBSET Seq(Spellings)
    BY <1>5
  <2>3. PICK k \in Nat : k = 4 /\ k >= 1 /\ k <= n + 1
    OBVIOUS
  <2>4. LowerCase(SubSeq(a, k, n)) \in EitherOrder(S, T)
          <=> \E u \in S, t \in T : Fill(u, t, k, n) \/ Fill(t, u, k, n)
    BY <2>2, <2>3, EitherFills
  <2>5. QED
    BY <1>1, <2>1, <2>3, <2>4
<1>7. ASSUME NEW t \in T
      PROVE  /\ Fill(s, t, 4, n) <=> n = 3 + p + q /\ Stand(s, 4) /\ Stand(t, 4 + p)
             /\ Fill(t, s, 4, n) <=> n = 3 + p + q /\ Stand(t, 4) /\ Stand(s, 4 + q)
  <2>1. t \in Seq(Spellings) /\ Len(t) = q /\ Len(s) = p
    BY <1>3, <1>4, <1>5
  <2>2. QED
    BY <2>1 DEF Fill
<1>8. ASSUME n = 3 + p + q, NEW i \in {4, 4 + p}
      PROVE  (\E t \in T : Stand(t, i)) <=> ExpiryAt(m.expiry, m.milliseconds, i)
  <2>1. CASE q > 0
    <3>1. i \in 1 .. Len(a) /\ i + q <= Len(a) + 1
      BY <1>8, <2>1, ArgumentIs
    <3>2. QED
      BY <1>5, <3>1
  <2>2. CASE q = 0
    <3>1. m.expiry = "clear"
      BY <1>4, <2>2 DEF ExpirySize
    <3>2. ExpiryAt(m.expiry, m.milliseconds, i)
      BY <3>1 DEF ExpiryAt
    <3>3. T = {<<>>} /\ Len(<<>>) = 0
      BY <1>2, <3>1, OptionWordsAre, EmptySeq
    <3>4. Stand(<<>>, i)
      BY <3>3 DEF Stand
    <3>5. QED
      BY <3>2, <3>3, <3>4
  <2>3. QED
    BY <2>1, <2>2
<1>9. 4 + q \in Nat /\ 4 \in Nat
  OBVIOUS
<1>10. w \in EitherOrder({s}, T)
         <=> /\ n = 3 + p + q
             /\ \/ Stand(s, 4) /\ \E t \in T : Stand(t, 4 + p)
                \/ (\E t \in T : Stand(t, 4)) /\ Stand(s, 4 + q)
  BY <1>6, <1>7
<1>11. w \in EitherOrder({s}, T) <=> SetReads(m, n)
  <2>1. SetReads(m, n) <=>
          /\ n = 3 + p + q
          /\ \/ ConditionAt(m.condition, 4) /\ ExpiryAt(m.expiry, m.milliseconds, 4 + p)
             \/ ExpiryAt(m.expiry, m.milliseconds, 4) /\ ConditionAt(m.condition, 4 + q)
    BY <1>4 DEF SetReads
  <2>2. QED
    BY <1>3, <1>8, <1>9, <1>10, <2>1
<1>12. QED
  BY <1>1, <1>2, <1>3, <1>11

\* The fields of a choice.
LEMMA ChoiceIs ==
    ASSUME NEW m \in Choices
    PROVE  /\ m = [condition |-> m.condition, expiry |-> m.expiry,
                   milliseconds |-> m.milliseconds]
           /\ m.condition \in C!Conditions /\ m.expiry \in {"clear", "keep", "after"}
           /\ m.expiry # "after" => m.milliseconds = 0
           /\ m.expiry = "after" => m.milliseconds \in Durations
  BY DEF Choices

\* The meanings the reference gives the options of a whole request.
LEMMA AssignmentsAre ==
    ASSUME a \in Inputs, Len(a) >= 3, NEW m
    PROVE  m \in Assignments(SubSeq(a, 4, Len(a))) <=> m \in Choices /\ SetReads(m, Len(a))
<1>1. PICK n \in Nat : n = Len(a)
  BY ArgumentIs
<1>2. PICK s : s = SubSeq(a, 4, n)
  OBVIOUS
<1>3. m \in Assignments(s) <=>
        m \in Choices /\ LowerCase(s) \in EitherOrder(ConditionWords(m.condition),
                                                      ExpiryWords(m.expiry, m.milliseconds))
  BY Zenon DEF Assignments, Choices
<1>4. ASSUME m \in Choices
      PROVE  LowerCase(s) \in EitherOrder(ConditionWords(m.condition),
                                          ExpiryWords(m.expiry, m.milliseconds))
               <=> SetReads(m, n)
  BY <1>1, <1>2, <1>4, ChoiceIs, SetSpelling
<1>5. QED
  BY <1>1, <1>2, <1>3, <1>4, Zenon

\* The options say one thing at most.
LEMMA SetUnique ==
    ASSUME NEW m \in Choices, NEW q \in Choices, NEW n \in Nat, SetReads(m, n), SetReads(q, n)
    PROVE  m = q
<1>1. m.condition = q.condition /\ m.expiry = q.expiry
  BY ChoiceIs DEF SetReads, ConditionSize, ConditionAt, ExpirySize, ExpiryAt, C!Conditions
<1>2. m.milliseconds = q.milliseconds
  BY <1>1, ChoiceIs DEF SetReads, ConditionSize, ConditionAt, ExpirySize, ExpiryAt, C!Conditions
<1>3. QED
  BY <1>1, <1>2, ChoiceIs

\* The milliseconds the loop makes of the argument behind the word of an expiration.
Duration(i) == IF Word(i) = "ex" THEN IntegerOf[a[i + 1]] * 1000 ELSE IntegerOf[a[i + 1]]

\* Where the options go on, the next word is one the loop accepts.
LEMMA SetExtends ==
    ASSUME NEW m \in Choices, NEW q \in Choices, NEW n \in Nat, NEW i \in Nat, i <= n,
           SetReads(m, n), SetReads(q, i - 1)
    PROVE  \/ Word(i) \in {"nx", "xx"} /\ q.condition = "always"
           \/ Word(i) = "keepttl" /\ q.expiry = "clear"
           \/ /\ Word(i) \in {"ex", "px"} /\ q.expiry = "clear" /\ i < n
              /\ IntegerOf[a[i + 1]] # None
              /\ m.expiry = "after" /\ m.milliseconds = Duration(i)
  BY ChoiceIs DEF SetReads, ConditionSize, ConditionAt, ExpirySize, ExpiryAt, Duration, C!Conditions

-----------------------------------------------------------------------------
(***************************************************************************)
(* The options of HELLO, by their places.                                  *)
(***************************************************************************)
\* The arguments that credentials take, and that they stand at the i-th.
AuthSize(auth) == IF auth = None THEN 0 ELSE 3

AuthAt(auth, i) ==
    auth # None => Word(i) = "auth" /\ a[i + 1] = auth[1] /\ a[i + 2] = auth[2]

\* The arguments a name takes, and that it stands at the i-th.
NameSize(name) == IF name = None THEN 0 ELSE 2

NameAt(name, i) == name # None => Word(i) = "setname" /\ a[i + 1] = name

\* The options up to the n-th argument state these credentials and this name.
HelloReads(auth, name, n) ==
    /\ n = 2 + AuthSize(auth) + NameSize(name)
    /\ \/ AuthAt(auth, 3) /\ NameAt(name, 3 + AuthSize(auth))
       \/ NameAt(name, 3) /\ AuthAt(auth, 3 + NameSize(name))

\* The place of the last option, and the arguments that may be options.
HelloEnd == IF Len(a) = 1 THEN 2 ELSE Len(a)

HelloWords == {a[i] : i \in 3 .. Len(a)}

\* The version, None if there is none.
Version == IF Len(a) = 1 THEN None ELSE IntegerOf[a[2]]

-----------------------------------------------------------------------------
(***************************************************************************)
(* The invariant: what the loops have read so far.                         *)
(***************************************************************************)
\* The options SET's loop has read spell out partial.
SetLoop ==
    pc = "set" =>
        /\ Name = "set" /\ Len(a) >= 3 /\ index \in 4 .. Len(a) + 1
        /\ partial \in Choices /\ SetReads(partial, index - 1)

\* The version is legal, and the options HELLO's loop has read spell out partial.
HelloLoop ==
    pc = "hello" =>
        /\ Name = "hello" /\ (Len(a) >= 2 => IntegerOf[a[2]] # None)
        /\ index \in 3 .. HelloEnd + 1
        /\ partial \in [auth : (HelloWords \X HelloWords) \cup {None},
                        name : HelloWords \cup {None},
                        protocol : {Version}]
        /\ LegalName(partial.name)
        /\ HelloReads(partial.auth, partial.name, index - 1)

Typed == a \in Inputs /\ pc \in {"name", "set", "hello", "done"}

\* The inductive invariant.
IInv ==
    /\ Typed /\ SetLoop /\ HelloLoop
    /\ SetMeansItsOptions /\ HelloMeansItsOptions /\ KeysAsAdvertised

-----------------------------------------------------------------------------
(***************************************************************************)
(* SET.                                                                    *)
(***************************************************************************)
\* The arities of the two commands with an option loop.
LEMMA LoopArities == SPECS["set"].arity = -3 /\ SPECS["hello"].arity = -1
<1>1. SPECS["set"] = OneKey(-3, TRUE) /\ SPECS["hello"] = Keyless(-1)
  BY DEF SPECS
<1>2. QED
  BY <1>1 DEF OneKey, Keyless

\* The right outcome of an assignment.
SetMeans(r) ==
    LET meanings == Assignments(SubSeq(a, 4, Len(a)))
    IN  /\ r.ok <=> meanings # {} /\ Length[a[2]] <= MaxKeyBytes /\ Length[a[3]] <= MaxValueBytes
        /\ r.ok =>
             \A m \in meanings : r.command.operation =
                [type |-> "set", key |-> a[2], value |-> a[3], condition |-> m.condition,
                 expiry |-> m.expiry, milliseconds |-> m.milliseconds]

\* The last check passes an operation on as it is, or fails.
LEMMA LimitedIs ==
    ASSUME NEW op
    PROVE  \/ Limited(op) = Parsed([type |-> "data", operation |-> op])
           \/ \E code : Limited(op) = Failed(code)
  BY Zenon DEF Limited

\* An assignment that is refused meant nothing.
LEMMA SetFails ==
    ASSUME a \in Inputs, Len(a) >= 3, NEW code,
           \A m \in Choices : ~SetReads(m, Len(a))
    PROVE  SetMeans(Failed(code))
<1>1. PICK M : M = Assignments(SubSeq(a, 4, Len(a)))
  OBVIOUS
<1>2. M = {}
  BY <1>1, AssignmentsAre
<1>3. Failed(code).ok = FALSE
  BY DEF Failed
<1>4. QED
  BY <1>1, <1>2, <1>3 DEF SetMeans

\* An assignment whose options have been read to the end.
LEMMA SetSucceeds ==
    ASSUME a \in Inputs, Len(a) >= 3, NEW q \in Choices, SetReads(q, Len(a)), NEW op,
           op = [type |-> "set", key |-> a[2], value |-> a[3], condition |-> q.condition,
                 expiry |-> q.expiry, milliseconds |-> q.milliseconds]
    PROVE  SetMeans(Limited(op))
<1>1. PICK M : M = Assignments(SubSeq(a, 4, Len(a)))
  OBVIOUS
<1>2. Len(a) \in Nat /\ a[2] \in Tokens /\ a[3] \in Tokens
  BY ArgumentIs
<1>3. M = {q}
  <2>1. \A m : m \in M <=> m \in Choices /\ SetReads(m, Len(a))
    BY <1>1, AssignmentsAre
  <2>2. q \in M /\ \A m \in M : m = q
    BY <1>2, <2>1, SetUnique
  <2>3. QED
    BY <2>2
<1>4. C!operation_keys(op) = <<a[2]>>
  BY DEF C!operation_keys
<1>5. PICK k, v : k = Length[a[2]] /\ v = Length[a[3]]
  OBVIOUS
<1>6. Limited(op) = IF k > MaxKeyBytes THEN Failed("key_limit")
                    ELSE IF v > MaxValueBytes THEN Failed("value_limit")
                    ELSE Parsed([type |-> "data", operation |-> op])
  <2>1. (\E i \in DOMAIN <<a[2]>> : Length[<<a[2]>>[i]] > MaxKeyBytes) <=> k > MaxKeyBytes
    BY <1>5
  <2>2. op.type = "set" /\ op.value = a[3]
    OBVIOUS
  <2>3. QED
    BY <1>4, <1>5, <2>1, <2>2 DEF Limited
<1>7. k \in Nat /\ v \in Nat /\ MaxKeyBytes \in Nat /\ MaxValueBytes \in Nat
  BY <1>2, <1>5, ParserAssumption
<1>8. Limited(op).ok <=> k <= MaxKeyBytes /\ v <= MaxValueBytes
  BY <1>6, <1>7 DEF Failed, Parsed
<1>9. Limited(op).ok => Limited(op).command.operation = op
  BY <1>6, <1>7 DEF Failed, Parsed
<1>10. QED
  BY <1>1, <1>3, <1>5, <1>8, <1>9 DEF SetMeans

-----------------------------------------------------------------------------
(***************************************************************************)
(* The steps of the loop of SET.                                           *)
(***************************************************************************)
\* The right outcome of a greeting.
HelloMeans(r) ==
    LET meanings == {m \in Greetings(SubSeq(a, 3, Len(a))) : LegalName(m.name)}
        version == IF Len(a) = 1 THEN None ELSE IntegerOf[a[2]]
    IN  /\ r.ok <=> meanings # {} /\ (version = None => Len(a) = 1)
        /\ r.ok =>
             \A m \in meanings : r.command =
                [type |-> "hello", protocol |-> version, auth |-> m.auth, name |-> m.name]

\* The keys of an accepted command are the advertised ones.
Advertises(r) ==
    r.ok =>
        LET info == metadata("info", <<a[1]>>)[1]
            last == IF info.last_key < 0 THEN Len(a) + info.last_key ELSE info.last_key
            operation == r.command.operation
            keys == C!operation_keys(operation)
        IN  /\ r.command.type = "data" <=> info.first_key > 0
            /\ r.command.type = "data" =>
                 /\ info.flags = {IF operation.type \in Changing THEN "write" ELSE "readonly"}
                 /\ keys # <<>>
                 /\ Len(keys) = (last - info.first_key) \div info.key_step + 1
                 /\ \A i \in DOMAIN keys :
                       keys[i] = a[1 + info.first_key + (i - 1) * info.key_step]

\* A step that ends the parse with the right outcome.
LEMMA Finishes ==
    ASSUME IInv, NEW r, Finish(r), Name = "set" /\ Len(a) >= 3 => SetMeans(r),
           Name = "hello" => HelloMeans(r), Advertises(r)
    PROVE  IInv'
<1>1. a' = a /\ pc' = "done" /\ result' = r
  BY DEF Finish
<1>2. Typed' /\ SetLoop' /\ HelloLoop'
  BY <1>1 DEF IInv, Typed, SetLoop, HelloLoop
<1>3. SetMeansItsOptions'
  BY <1>1, LoopArities DEF SetMeansItsOptions, SetMeans, Finished, Name
<1>4. HelloMeansItsOptions'
  BY <1>1, LoopArities DEF HelloMeansItsOptions, HelloMeans, Finished, Name
<1>5. KeysAsAdvertised'
  BY <1>1 DEF KeysAsAdvertised, Advertises
<1>6. QED
  BY <1>2, <1>3, <1>4, <1>5 DEF IInv

\* A failure advertises nothing.
LEMMA FailureAdvertises == ASSUME NEW code PROVE Advertises(Failed(code))
<1>1. Failed(code).ok = FALSE
  BY DEF Failed
<1>2. QED
  BY <1>1 DEF Advertises

\* A step that goes on in a loop leaves the properties of outcomes alone.
LEMMA Continues ==
    ASSUME IInv, a' = a, pc' \in {"set", "hello"}, SetLoop', HelloLoop'
    PROVE  IInv'
<1>1. Typed'
  BY DEF IInv, Typed
<1>2. SetMeansItsOptions' /\ HelloMeansItsOptions' /\ KeysAsAdvertised'
  BY DEF SetMeansItsOptions, HelloMeansItsOptions, KeysAsAdvertised, Finished
<1>3. QED
  BY <1>1, <1>2 DEF IInv

\* A refusal in the loop of SET is right where the options read so far cannot go on.
LEMMA SetRefuses ==
    ASSUME IInv, pc = "set", NEW code, Finish(Failed(code)),
           \A m \in Choices : ~SetReads(m, Len(a))
    PROVE  IInv'
<1>1. a \in Inputs /\ Name = "set" /\ Len(a) >= 3
  BY DEF IInv, Typed, SetLoop
<1>2. SetMeans(Failed(code)) /\ Advertises(Failed(code))
  BY <1>1, SetFails, FailureAdvertises
<1>3. Name # "hello"
  BY <1>1
<1>4. QED
  BY <1>2, <1>3, Finishes

\* What the loop of SET knows, in names of its own.
LEMMA SetAt ==
    ASSUME IInv, pc = "set"
    PROVE  /\ a \in Inputs /\ Name = "set" /\ Len(a) \in Nat /\ Len(a) >= 3
           /\ index \in Nat /\ 4 <= index /\ index <= Len(a) + 1
           /\ partial \in Choices /\ SetReads(partial, index - 1)
           /\ \A i \in 1 .. Len(a) : Lower[a[i]] = Word(i)
  BY ArgumentIs DEF IInv, Typed, SetLoop, Word

\* A step that reads an option of SET.
LEMMA SetGoesOn ==
    ASSUME IInv, Name = "set", Len(a) >= 3, a' = a, pc' = "set", NEW j \in Nat, index' = j,
           4 <= j, j <= Len(a) + 1, NEW q \in Choices, partial' = q, SetReads(q, j - 1)
    PROVE  IInv'
<1>1. Len(a) \in Nat
  BY ArgumentIs DEF IInv, Typed
<1>2. SetReads(partial, index - 1)'
  BY DEF SetReads, ConditionAt, ExpiryAt, Word
<1>3. Choices' = Choices
  BY DEF Choices, Durations, Numerals
<1>4. SetLoop'
  BY <1>1, <1>2, <1>3 DEF SetLoop, Name
<1>5. HelloLoop'
  BY DEF HelloLoop
<1>6. QED
  BY <1>4, <1>5, Continues

\* NX and XX: the first one is read, a second one contradicts every meaning.
LEMMA StepSetCondition == IInv /\ SetCondition => IInv'
<1> SUFFICES ASSUME IInv, SetCondition PROVE IInv'
  OBVIOUS
<1>1. pc = "set" /\ index <= Len(a) /\ Lower[a[index]] \in {"nx", "xx"}
  BY DEF SetCondition, Option
<1>2. /\ a \in Inputs /\ Name = "set" /\ Len(a) \in Nat /\ Len(a) >= 3
      /\ index \in Nat /\ 4 <= index /\ partial \in Choices /\ SetReads(partial, index - 1)
      /\ Word(index) = Lower[a[index]]
  BY <1>1, SetAt
<1>3. CASE partial.condition # "always"
  <2>1. Finish(Failed("syntax"))
    BY <1>3 DEF SetCondition
  <2>2. ASSUME NEW m \in Choices, SetReads(m, Len(a)) PROVE FALSE
    BY <1>1, <1>2, <1>3, <2>2, SetExtends
  <2>3. QED
    BY <1>1, <2>1, <2>2, SetRefuses
<1>4. CASE partial.condition = "always"
  <2>1. PICK c : c = IF Word(index) = "nx" THEN "if_absent" ELSE "if_present"
    OBVIOUS
  <2>2. PICK q : q = [partial EXCEPT !.condition = c]
    OBVIOUS
  <2>3. Advance(1, q)
    BY <1>2, <1>4, <2>1, <2>2 DEF SetCondition
  <2>4. /\ q \in Choices /\ q.condition = c /\ q.expiry = partial.expiry
        /\ q.milliseconds = partial.milliseconds
    BY <1>2, <2>1, <2>2 DEF Choices, C!Conditions
  <2>5. SetReads(q, index)
    BY <1>1, <1>2, <1>4, <2>1, <2>4, ChoiceIs
       DEF SetReads, ConditionSize, ConditionAt, ExpirySize
  <2>6. /\ a' = a /\ pc' = "set" /\ index' = index + 1 /\ partial' = q
        /\ index + 1 \in Nat /\ (index + 1) - 1 = index
    BY <1>1, <1>2, <2>3 DEF Advance
  <2>7. QED
    BY <1>1, <1>2, <2>4, <2>5, <2>6, SetGoesOn
<1>5. QED
  BY <1>3, <1>4

\* KEEPTTL: read if no expiration choice was, otherwise rightly refused.
LEMMA StepSetKeep == IInv /\ SetKeep => IInv'
<1> SUFFICES ASSUME IInv, SetKeep PROVE IInv'
  OBVIOUS
<1>1. pc = "set" /\ index <= Len(a) /\ Lower[a[index]] = "keepttl"
  BY DEF SetKeep, Option
<1>2. /\ a \in Inputs /\ Name = "set" /\ Len(a) \in Nat /\ Len(a) >= 3
      /\ index \in Nat /\ 4 <= index /\ partial \in Choices /\ SetReads(partial, index - 1)
      /\ Word(index) = Lower[a[index]]
  BY <1>1, SetAt
<1>3. CASE partial.expiry # "clear"
  <2>1. Finish(Failed("syntax"))
    BY <1>3 DEF SetKeep
  <2>2. ASSUME NEW m \in Choices, SetReads(m, Len(a)) PROVE FALSE
    BY <1>1, <1>2, <1>3, <2>2, SetExtends
  <2>3. QED
    BY <1>1, <2>1, <2>2, SetRefuses
<1>4. CASE partial.expiry = "clear"
  <2>1. PICK q : q = [partial EXCEPT !.expiry = "keep"]
    OBVIOUS
  <2>2. Advance(1, q)
    BY <1>4, <2>1 DEF SetKeep
  <2>3. /\ q \in Choices /\ q.condition = partial.condition /\ q.expiry = "keep"
        /\ q.milliseconds = partial.milliseconds
    BY <1>2, <1>4, <2>1 DEF Choices, C!Conditions
  <2>4. SetReads(q, index)
    BY <1>1, <1>2, <1>4, <2>3, ChoiceIs
       DEF SetReads, ConditionSize, ExpirySize, ExpiryAt, ConditionAt, C!Conditions
  <2>5. /\ a' = a /\ pc' = "set" /\ index' = index + 1 /\ partial' = q
        /\ index + 1 \in Nat /\ (index + 1) - 1 = index
    BY <1>1, <1>2, <2>2 DEF Advance
  <2>6. QED
    BY <1>1, <1>2, <2>3, <2>4, <2>5, SetGoesOn
<1>5. QED
  BY <1>3, <1>4

\* Any other word is part of no legal list.
LEMMA StepSetOther == IInv /\ SetOther => IInv'
<1> SUFFICES ASSUME IInv, SetOther PROVE IInv'
  OBVIOUS
<1>1. /\ pc = "set" /\ index <= Len(a) /\ Finish(Failed("syntax"))
      /\ Lower[a[index]] \notin {"nx", "xx", "keepttl", "ex", "px"}
  BY DEF SetOther, Option
<1>2. /\ a \in Inputs /\ Name = "set" /\ Len(a) \in Nat /\ Len(a) >= 3
      /\ index \in Nat /\ 4 <= index /\ partial \in Choices /\ SetReads(partial, index - 1)
      /\ Word(index) = Lower[a[index]]
  BY <1>1, SetAt
<1>3. ASSUME NEW m \in Choices, SetReads(m, Len(a)) PROVE FALSE
  BY <1>1, <1>2, <1>3, SetExtends
<1>4. QED
  BY <1>1, <1>3, SetRefuses

\* EX and PX: the duration is read, and is refused where no list of options
\* with this duration means anything.
LEMMA StepSetExpiry == IInv /\ SetExpiry => IInv'
<1> SUFFICES ASSUME IInv, SetExpiry PROVE IInv'
  OBVIOUS
<1>1. pc = "set" /\ index <= Len(a) /\ Lower[a[index]] \in {"ex", "px"}
  BY DEF SetExpiry, Option
<1>2. /\ a \in Inputs /\ Name = "set" /\ Len(a) \in Nat /\ Len(a) >= 3
      /\ index \in Nat /\ 4 <= index /\ partial \in Choices /\ SetReads(partial, index - 1)
      /\ Word(index) = Lower[a[index]]
  BY <1>1, SetAt
<1>3. CASE partial.expiry # "clear" \/ index = Len(a)
  <2>1. Finish(Failed("syntax"))
    BY <1>3 DEF SetExpiry
  <2>2. ASSUME NEW m \in Choices, SetReads(m, Len(a)) PROVE FALSE
    BY <1>1, <1>2, <1>3, <2>2, SetExtends
  <2>3. QED
    BY <1>1, <2>1, <2>2, SetRefuses
<1>4. CASE partial.expiry = "clear" /\ index # Len(a)
  <2>1. a[index + 1] \in Tokens
    BY <1>1, <1>2, <1>4, ArgumentIs
  <2>2. PICK v : v = IntegerOf[a[index + 1]]
    OBVIOUS
  <2>3. v \in (-I64Max - 1 .. I64Max) \cup {None} /\ I64Max \in Nat /\ None \notin Int
    BY <2>1, <2>2, ParserAssumption
  <2>4. PICK d : d = IF Word(index) = "ex" THEN checked_mul(v) ELSE v
    OBVIOUS
  <2>5. IF v = None THEN Finish(Failed("integer"))
        ELSE IF d = None THEN Finish(Failed("expire"))
        ELSE IF d <= 0 THEN Finish(Failed("expire"))
        ELSE Advance(2, [partial EXCEPT !.expiry = "after", !.milliseconds = d])
    BY <1>2, <1>4, <2>2, <2>4 DEF SetExpiry
  <2>6. ASSUME NEW m \in Choices, SetReads(m, Len(a))
        PROVE  v # None /\ m.milliseconds = Duration(index) /\ m.milliseconds \in 1 .. I64Max
    <3>1. /\ v # None /\ m.expiry = "after" /\ m.milliseconds = Duration(index)
      BY <1>1, <1>2, <2>2, <2>6, SetExtends
    <3>2. m.milliseconds \in Durations
      BY <3>1, ChoiceIs
    <3>3. QED
      BY <3>1, <3>2 DEF Durations
  <2>7. v # None => v \in Int /\ Duration(index) = IF Word(index) = "ex" THEN v * 1000 ELSE v
    BY <2>2, <2>3 DEF Duration
  <2>8. CASE v = None
    BY <1>1, <2>5, <2>6, <2>8, SetRefuses
  <2>9. CASE v # None /\ d = None
    <3>1. Word(index) = "ex" /\ ~(v * 1000 \in -I64Max - 1 .. I64Max)
      BY <2>3, <2>4, <2>7, <2>9 DEF checked_mul
    <3>2. ASSUME NEW m \in Choices, SetReads(m, Len(a)) PROVE FALSE
      BY <2>3, <2>6, <2>7, <2>9, <3>1, <3>2
    <3>3. Finish(Failed("expire"))
      BY <2>5, <2>9
    <3>4. QED
      BY <1>1, <3>2, <3>3, SetRefuses
  <2>10. ASSUME v # None, d # None
         PROVE  d = Duration(index) /\ d \in Int /\ d <= I64Max
    BY <2>3, <2>4, <2>7, <2>10 DEF checked_mul
  <2>11. CASE v # None /\ d # None /\ d <= 0
    <3>1. ASSUME NEW m \in Choices, SetReads(m, Len(a)) PROVE FALSE
      BY <2>3, <2>6, <2>10, <2>11, <3>1
    <3>2. Finish(Failed("expire"))
      BY <2>5, <2>11
    <3>3. QED
      BY <1>1, <3>1, <3>2, SetRefuses
  <2>12. CASE v # None /\ d # None /\ ~(d <= 0)
    <3>1. PICK q : q = [partial EXCEPT !.expiry = "after", !.milliseconds = d]
      OBVIOUS
    <3>2. Advance(2, q)
      BY <2>5, <2>12, <3>1
    <3>3. d \in Durations
      <4>1. a[index + 1] \in Numerals
        BY <2>1, <2>2, <2>12 DEF Numerals
      <4>2. d \in {IntegerOf[t] : t \in Numerals} \cup {IntegerOf[t] * 1000 : t \in Numerals}
        BY <2>2, <2>7, <2>10, <2>12, <4>1
      <4>3. d \in 1 .. I64Max
        BY <2>3, <2>10, <2>12
      <4>4. QED
        BY <4>2, <4>3 DEF Durations
    <3>4. /\ q \in Choices /\ q.condition = partial.condition /\ q.expiry = "after"
          /\ q.milliseconds = d
      BY <1>2, <1>4, <3>1, <3>3 DEF Choices
    <3>5. ExpiryAt("after", d, index)
      BY <1>1, <1>2, <2>2, <2>7, <2>10, <2>12 DEF ExpiryAt
    <3>6. SetReads(q, index + 1)
      BY <1>1, <1>2, <1>4, <3>4, <3>5, ChoiceIs
         DEF SetReads, ConditionSize, ExpirySize, ConditionAt, C!Conditions
    <3>7. /\ a' = a /\ pc' = "set" /\ index' = index + 2 /\ partial' = q
          /\ index + 2 \in Nat /\ (index + 2) - 1 = index + 1 /\ index + 2 <= Len(a) + 1
      BY <1>1, <1>2, <1>4, <3>2 DEF Advance
    <3>8. QED
      BY <1>2, <3>4, <3>6, <3>7, SetGoesOn
  <2>13. QED
    BY <2>8, <2>9, <2>11, <2>12
<1>5. QED
  BY <1>3, <1>4

-----------------------------------------------------------------------------
(***************************************************************************)
(* What COMMAND advertises.                                                *)
(***************************************************************************)
\* The place of the last key.
LastKey(spec) == IF spec.last_key < 0 THEN Len(a) + spec.last_key ELSE spec.last_key

\* A data command whose keys are where its table entry has them.
LEMMA DataAdvertises ==
    ASSUME a \in Inputs, Name \in DOMAIN SPECS, NEW spec, SPECS[Name] = spec,
           spec.first_key = 1, NEW op, NEW keys, keys = C!operation_keys(op), keys # <<>>,
           Len(keys) = (LastKey(spec) - 1) \div spec.key_step + 1,
           \A i \in DOMAIN keys : keys[i] = a[1 + 1 + (i - 1) * spec.key_step],
           spec.write = (op.type \in Changing)
    PROVE  Advertises(Limited(op))
<1>1. PICK info : info = spec_reply(Name)
  OBVIOUS
<1>2. metadata("info", <<a[1]>>)[1] = info
  BY <1>1, AdvertisedIs
<1>3. /\ info.first_key = 1 /\ info.last_key = spec.last_key /\ info.key_step = spec.key_step
      /\ info.flags = {IF op.type \in Changing THEN "write" ELSE "readonly"}
  <2>1. /\ info.first_key = 1 /\ info.last_key = spec.last_key /\ info.key_step = spec.key_step
        /\ info.flags = IF spec.first_key = 0 THEN {}
                        ELSE {IF spec.write THEN "write" ELSE "readonly"}
    BY <1>1 DEF spec_reply
  <2>2. info.flags = {IF spec.write THEN "write" ELSE "readonly"}
    BY <2>1
  <2>3. QED
    BY <2>1, <2>2, Zenon
<1>4. PICK r : r = Limited(op)
  OBVIOUS
<1>5. CASE r = Parsed([type |-> "data", operation |-> op])
  <2>1. r.command.type = "data" /\ r.command.operation = op
    BY <1>5 DEF Parsed
  <2>2. Advertises(r)
    BY <1>2, <1>3, <2>1 DEF Advertises, LastKey
  <2>3. QED
    BY <1>4, <2>2
<1>6. CASE \E code : r = Failed(code)
  BY <1>4, <1>6, FailureAdvertises
<1>7. QED
  BY <1>4, <1>5, <1>6, LimitedIs

\* A command that is no data command has no keys in the table.
LEMMA KeylessAdvertises ==
    ASSUME a \in Inputs, Name \in DOMAIN SPECS, NEW arity, SPECS[Name] = Keyless(arity), NEW command,
           command.type # "data"
    PROVE  Advertises(Parsed(command))
<1>1. PICK info : info = spec_reply(Name)
  OBVIOUS
<1>2. metadata("info", <<a[1]>>)[1] = info
  BY <1>1, AdvertisedIs
<1>3. info.first_key = 0
  BY <1>1 DEF spec_reply, Keyless
<1>4. Parsed(command).command = command
  BY DEF Parsed
<1>5. QED
  BY <1>2, <1>3, <1>4 DEF Advertises

\* Commands of one key.
LEMMA OneKeyAdvertises ==
    ASSUME a \in Inputs, Name \in DOMAIN SPECS, NEW arity, NEW write \in BOOLEAN,
           SPECS[Name] = OneKey(arity, write),
           NEW op, C!operation_keys(op) = <<a[2]>>, write = (op.type \in Changing)
    PROVE  Advertises(Limited(op))
<1>1. PICK spec : spec = OneKey(arity, write)
  OBVIOUS
<1>2. spec.first_key = 1 /\ spec.last_key = 1 /\ spec.key_step = 1 /\ spec.write = write
  BY <1>1 DEF OneKey
<1>3. PICK keys : keys = <<a[2]>>
  OBVIOUS
<1>4. keys # <<>> /\ Len(keys) = 1 /\ DOMAIN keys = {1} /\ keys[1] = a[2]
  BY <1>3
<1>5. LastKey(spec) = 1 /\ Len(keys) = (LastKey(spec) - 1) \div spec.key_step + 1
  BY <1>2, <1>4 DEF LastKey
<1>6. \A i \in DOMAIN keys : keys[i] = a[1 + 1 + (i - 1) * spec.key_step]
  BY <1>2, <1>4
<1>7. QED
  BY <1>1, <1>2, <1>3, <1>4, <1>5, <1>6, DataAdvertises

\* Commands all of whose arguments are keys.
LEMMA ManyKeysAdvertise ==
    ASSUME a \in Inputs, Name \in DOMAIN SPECS, NEW write \in BOOLEAN,
           SPECS[Name] = ManyKeys(-2, write), Len(a) >= 2,
           NEW op, C!operation_keys(op) = Rest, write = (op.type \in Changing)
    PROVE  Advertises(Limited(op))
<1>1. PICK spec : spec = ManyKeys(-2, write)
  OBVIOUS
<1>2. spec.first_key = 1 /\ spec.last_key = -1 /\ spec.key_step = 1 /\ spec.write = write
  BY <1>1 DEF ManyKeys, OneKey
<1>3. PICK keys : keys = Rest
  OBVIOUS
<1>4. PICK n \in Nat : n = Len(a) /\ n >= 2
  BY ArgumentIs
<1>5. /\ Len(keys) = n - 1 /\ DOMAIN keys = 1 .. n - 1
      /\ \A i \in 1 .. n - 1 : keys[i] = a[2 + i - 1]
  BY <1>3, <1>4, PieceIs DEF Rest
<1>6. keys # <<>>
  <2>1. Len(keys) # 0
    BY <1>4, <1>5
  <2>2. Len(<<>>) = 0
    BY EmptySeq
  <2>3. QED
    BY <2>1, <2>2
<1>7. LastKey(spec) = n - 1 /\ Len(keys) = (LastKey(spec) - 1) \div spec.key_step + 1
  BY <1>2, <1>4, <1>5 DEF LastKey
<1>8. \A i \in DOMAIN keys : keys[i] = a[1 + 1 + (i - 1) * spec.key_step]
  <2>1. ASSUME NEW i \in 1 .. n - 1 PROVE 2 + i - 1 = 1 + 1 + (i - 1) * spec.key_step
    BY <1>2
  <2>2. QED
    BY <1>5, <2>1
<1>9. QED
  BY <1>1, <1>2, <1>3, <1>6, <1>7, <1>8, DataAdvertises

\* MSET: every other argument is a key.
LEMMA PairsAdvertise ==
    ASSUME a \in Inputs, Name \in DOMAIN SPECS, SPECS[Name] = PairedKeys(-3), Len(a) >= 3,
           Len(a) % 2 = 1, NEW op, op = [type |-> "multi_set", pairs |-> Pairs]
    PROVE  Advertises(Limited(op))
<1>1. PICK spec : spec = PairedKeys(-3)
  OBVIOUS
<1>2. spec.first_key = 1 /\ spec.last_key = -1 /\ spec.key_step = 2 /\ spec.write = TRUE
  BY <1>1 DEF PairedKeys, ManyKeys, OneKey
<1>3. PICK n \in Nat : n = (Len(a) - 1) \div 2 /\ n >= 1 /\ Len(a) = 2 * n + 1
  BY ArgumentIs
<1>4. PICK keys : keys = C!operation_keys(op)
  OBVIOUS
<1>5. keys = [i \in 1 .. n |-> a[2 * i]]
  <2>1. Pairs = [i \in 1 .. n |-> <<a[2 * i], a[2 * i + 1]>>]
    BY <1>3 DEF Pairs
  <2>2. keys = [i \in DOMAIN Pairs |-> Pairs[i][1]]
    BY <1>4 DEF C!operation_keys
  <2>3. QED
    BY <2>1, <2>2
<1>6. Len(keys) = n /\ DOMAIN keys = 1 .. n /\ keys # <<>>
  BY <1>3, <1>5
<1>7. LastKey(spec) = 2 * n /\ Len(keys) = (LastKey(spec) - 1) \div spec.key_step + 1
  BY <1>2, <1>3, <1>6 DEF LastKey
<1>8. \A i \in DOMAIN keys : keys[i] = a[1 + 1 + (i - 1) * spec.key_step]
  <2>1. ASSUME NEW i \in 1 .. n PROVE 1 + 1 + (i - 1) * spec.key_step = 2 * i
    BY <1>2
  <2>2. QED
    BY <1>5, <1>6, <2>1
<1>9. spec.write = (op.type \in Changing)
  BY <1>2 DEF Changing
<1>10. QED
  BY <1>1, <1>2, <1>4, <1>6, <1>7, <1>8, <1>9, DataAdvertises, SMTT(30)

-----------------------------------------------------------------------------
(***************************************************************************)
(* The commands without an option loop.                                    *)
(***************************************************************************)
\* What has passed the lookup: a command of the table with a legal number of
\* arguments.
LEMMA LookedUp ==
    ASSUME a \in Inputs, LookupError = None
    PROVE  /\ Name \in DOMAIN SPECS
           /\ ~(SPECS[Name].arity > 0 /\ Len(a) # SPECS[Name].arity)
           /\ ~(SPECS[Name].arity < 0 /\ Len(a) < -SPECS[Name].arity)
<1>1. "unknown" # None /\ "arity" # None
  BY ParserAssumption
<1>2. Name \in DOMAIN SPECS
  BY <1>1 DEF LookupError
<1>3. PICK arity : arity = SPECS[Name].arity
  OBVIOUS
<1>4. ~(arity > 0 /\ Len(a) # arity) /\ ~(arity < 0 /\ Len(a) < -arity)
  BY <1>1, <1>2, <1>3 DEF LookupError
<1>5. QED
  BY <1>2, <1>3, <1>4

\* INCR, DECR and their relatives.
LEMMA IncrementAdvertises ==
    ASSUME a \in Inputs, Name \in DOMAIN SPECS, NEW arity, SPECS[Name] = OneKey(arity, TRUE)
    PROVE  Advertises(Increment)
<1>1. PICK amount : amount = IF Len(a) = 3 THEN IntegerOf[a[3]] ELSE 1
  OBVIOUS
<1>2. PICK op : op = [type |-> "increment", key |-> a[2], amount |-> amount,
                      subtract |-> Name \in {"decr", "decrby"}]
  OBVIOUS
<1>3. Increment = IF amount = None THEN Failed("integer") ELSE Limited(op)
  BY <1>1, <1>2 DEF Increment
<1>4. C!operation_keys(op) = <<a[2]>> /\ TRUE = (op.type \in Changing)
  BY <1>2 DEF C!operation_keys, Changing
<1>5. Advertises(Limited(op)) /\ Advertises(Failed("integer"))
  BY <1>4, OneKeyAdvertises, FailureAdvertises
<1>6. QED
  BY <1>3, <1>5

\* EXPIRE and PEXPIRE.
LEMMA ExpireAdvertises ==
    ASSUME a \in Inputs, Name \in DOMAIN SPECS, NEW arity, SPECS[Name] = OneKey(arity, TRUE)
    PROVE  Advertises(Expire)
<1>1. PICK value, milliseconds : /\ value = IntegerOf[a[3]]
                                 /\ milliseconds = IF Name = "expire" THEN checked_mul(value)
                                                   ELSE value
  OBVIOUS
<1>2. PICK op : op = [type |-> "expire", key |-> a[2], milliseconds |-> milliseconds]
  OBVIOUS
<1>3. Expire = IF value = None THEN Failed("integer")
               ELSE IF milliseconds = None THEN Failed("expire") ELSE Limited(op)
  BY <1>1, <1>2 DEF Expire
<1>4. C!operation_keys(op) = <<a[2]>> /\ TRUE = (op.type \in Changing)
  BY <1>2 DEF C!operation_keys, Changing
<1>5. Advertises(Limited(op)) /\ Advertises(Failed("integer")) /\ Advertises(Failed("expire"))
  BY <1>4, OneKeyAdvertises, FailureAdvertises
<1>6. QED
  BY <1>3, <1>5

\* Whatever parse makes of such a command, its keys are where COMMAND says.
LEMMA DispatchAdvertises ==
    ASSUME a \in Inputs, LookupError = None, Name \notin {"set", "hello"}
    PROVE  Advertises(Dispatch)
<1>1. /\ Name \in DOMAIN SPECS /\ Len(a) \in Nat
      /\ ~(SPECS[Name].arity > 0 /\ Len(a) # SPECS[Name].arity)
      /\ ~(SPECS[Name].arity < 0 /\ Len(a) < -SPECS[Name].arity)
  BY LookedUp, ArgumentIs
<1>2. ASSUME NEW code PROVE Advertises(Failed(code))
  BY FailureAdvertises
<1>3. CASE Name = "get"
  <2>1. SPECS[Name] = OneKey(2, FALSE)
    BY <1>3 DEF SPECS
  <2>2. PICK op : op = [type |-> "get", key |-> a[2]]
    OBVIOUS
  <2>3. Dispatch = Limited(op)
    BY <1>3, <2>2 DEF Dispatch, Keyed
  <2>4. C!operation_keys(op) = <<a[2]>> /\ FALSE = (op.type \in Changing)
    BY <2>2 DEF C!operation_keys, Changing
  <2>5. QED
    BY <1>1, <2>1, <2>3, <2>4, OneKeyAdvertises
<1>4. CASE Name = "persist"
  <2>1. SPECS[Name] = OneKey(2, TRUE)
    BY <1>4 DEF SPECS
  <2>2. PICK op : op = [type |-> "persist", key |-> a[2]]
    OBVIOUS
  <2>3. Dispatch = Limited(op)
    BY <1>4, <2>2 DEF Dispatch, Keyed
  <2>4. C!operation_keys(op) = <<a[2]>> /\ TRUE = (op.type \in Changing)
    BY <2>2 DEF C!operation_keys, Changing
  <2>5. QED
    BY <1>1, <2>1, <2>3, <2>4, OneKeyAdvertises
<1>5. CASE Name = "incr"
  <2>1. SPECS[Name] = OneKey(2, TRUE)
    BY <1>5 DEF SPECS
  <2>2. Dispatch = Increment
    BY <1>5 DEF Dispatch
  <2>3. QED
    BY <1>1, <1>2, <2>1, <2>2, IncrementAdvertises
<1>6. CASE Name = "decr"
  <2>1. SPECS[Name] = OneKey(2, TRUE)
    BY <1>6 DEF SPECS
  <2>2. Dispatch = Increment
    BY <1>6 DEF Dispatch
  <2>3. QED
    BY <1>1, <1>2, <2>1, <2>2, IncrementAdvertises
<1>7. CASE Name = "incrby"
  <2>1. SPECS[Name] = OneKey(3, TRUE)
    BY <1>7 DEF SPECS
  <2>2. Dispatch = Increment
    BY <1>7 DEF Dispatch
  <2>3. QED
    BY <1>1, <1>2, <2>1, <2>2, IncrementAdvertises
<1>8. CASE Name = "decrby"
  <2>1. SPECS[Name] = OneKey(3, TRUE)
    BY <1>8 DEF SPECS
  <2>2. Dispatch = Increment
    BY <1>8 DEF Dispatch
  <2>3. QED
    BY <1>1, <1>2, <2>1, <2>2, IncrementAdvertises
<1>9. CASE Name = "del"
  <2>1. SPECS[Name] = ManyKeys(-2, TRUE)
    BY <1>9 DEF SPECS
  <2>2. Len(a) >= 2
    BY <1>1, <2>1 DEF ManyKeys, OneKey
  <2>3. PICK op : op = [type |-> "delete", keys |-> Rest]
    OBVIOUS
  <2>4. Dispatch = Limited(op)
    BY <1>9, <2>3 DEF Dispatch, Listed
  <2>5. C!operation_keys(op) = Rest /\ TRUE = (op.type \in Changing)
    BY <2>3 DEF C!operation_keys, Changing
  <2>6. QED
    BY <1>1, <2>1, <2>2, <2>4, <2>5, ManyKeysAdvertise
<1>10. CASE Name = "exists"
  <2>1. SPECS[Name] = ManyKeys(-2, FALSE)
    BY <1>10 DEF SPECS
  <2>2. Len(a) >= 2
    BY <1>1, <2>1 DEF ManyKeys, OneKey
  <2>3. PICK op : op = [type |-> "exists", keys |-> Rest]
    OBVIOUS
  <2>4. Dispatch = Limited(op)
    BY <1>10, <2>3 DEF Dispatch, Listed
  <2>5. C!operation_keys(op) = Rest /\ FALSE = (op.type \in Changing)
    BY <2>3 DEF C!operation_keys, Changing
  <2>6. QED
    BY <1>1, <2>1, <2>2, <2>4, <2>5, ManyKeysAdvertise
<1>11. CASE Name = "mget"
  <2>1. SPECS[Name] = ManyKeys(-2, FALSE)
    BY <1>11 DEF SPECS
  <2>2. Len(a) >= 2
    BY <1>1, <2>1 DEF ManyKeys, OneKey
  <2>3. PICK op : op = [type |-> "multi_get", keys |-> Rest]
    OBVIOUS
  <2>4. Dispatch = Limited(op)
    BY <1>11, <2>3 DEF Dispatch, Listed
  <2>5. C!operation_keys(op) = Rest /\ FALSE = (op.type \in Changing)
    BY <2>3 DEF C!operation_keys, Changing
  <2>6. QED
    BY <1>1, <2>1, <2>2, <2>4, <2>5, ManyKeysAdvertise
<1>12. CASE Name = "mset"
  <2>1. SPECS[Name] = PairedKeys(-3)
    BY <1>12 DEF SPECS
  <2>2. Len(a) >= 3
    BY <1>1, <2>1 DEF PairedKeys, ManyKeys, OneKey
  <2>3. Dispatch = IF Len(a) % 2 = 1 THEN Limited([type |-> "multi_set", pairs |-> Pairs])
                   ELSE Failed("syntax")
    BY <1>12 DEF Dispatch
  <2>4. QED
    BY <1>1, <1>2, <2>1, <2>2, <2>3, PairsAdvertise
<1>13. CASE Name = "expire"
  <2>1. SPECS[Name] = OneKey(3, TRUE)
    BY <1>13 DEF SPECS
  <2>2. Dispatch = Expire
    BY <1>13 DEF Dispatch
  <2>3. QED
    BY <1>1, <1>2, <2>1, <2>2, ExpireAdvertises
<1>14. CASE Name = "pexpire"
  <2>1. SPECS[Name] = OneKey(3, TRUE)
    BY <1>14 DEF SPECS
  <2>2. Dispatch = Expire
    BY <1>14 DEF Dispatch
  <2>3. QED
    BY <1>1, <1>2, <2>1, <2>2, ExpireAdvertises
<1>15. CASE Name = "ttl"
  <2>1. SPECS[Name] = OneKey(2, FALSE)
    BY <1>15 DEF SPECS
  <2>2. PICK op : op = [type |-> "ttl", key |-> a[2], milliseconds |-> Name = "pttl"]
    OBVIOUS
  <2>3. Dispatch = Limited(op)
    BY <1>15, <2>2 DEF Dispatch
  <2>4. C!operation_keys(op) = <<a[2]>> /\ FALSE = (op.type \in Changing)
    BY <2>2 DEF C!operation_keys, Changing
  <2>5. QED
    BY <1>1, <2>1, <2>3, <2>4, OneKeyAdvertises
<1>16. CASE Name = "pttl"
  <2>1. SPECS[Name] = OneKey(2, FALSE)
    BY <1>16 DEF SPECS
  <2>2. PICK op : op = [type |-> "ttl", key |-> a[2], milliseconds |-> Name = "pttl"]
    OBVIOUS
  <2>3. Dispatch = Limited(op)
    BY <1>16, <2>2 DEF Dispatch
  <2>4. C!operation_keys(op) = <<a[2]>> /\ FALSE = (op.type \in Changing)
    BY <2>2 DEF C!operation_keys, Changing
  <2>5. QED
    BY <1>1, <2>1, <2>3, <2>4, OneKeyAdvertises
<1>17. CASE Name = "ping"
  <2>1. SPECS[Name] = Keyless(-1)
    BY <1>17 DEF SPECS
  <2>2. (\E code : Dispatch = Failed(code))
          \/ \E command : Dispatch = Parsed(command) /\ command.type # "data"
    BY <1>17 DEF Dispatch
  <2>3. QED
    BY <1>1, <1>2, <2>1, <2>2, KeylessAdvertises
<1>18. CASE Name = "echo"
  <2>1. SPECS[Name] = Keyless(2)
    BY <1>18 DEF SPECS
  <2>2. (\E code : Dispatch = Failed(code))
          \/ \E command : Dispatch = Parsed(command) /\ command.type # "data"
    BY <1>18 DEF Dispatch
  <2>3. QED
    BY <1>1, <1>2, <2>1, <2>2, KeylessAdvertises
<1>19. CASE Name = "quit"
  <2>1. SPECS[Name] = Keyless(1)
    BY <1>19 DEF SPECS
  <2>2. (\E code : Dispatch = Failed(code))
          \/ \E command : Dispatch = Parsed(command) /\ command.type # "data"
    BY <1>19 DEF Dispatch
  <2>3. QED
    BY <1>1, <1>2, <2>1, <2>2, KeylessAdvertises
<1>20. CASE Name = "auth"
  <2>1. SPECS[Name] = Keyless(-2)
    BY <1>20 DEF SPECS
  <2>2. (\E code : Dispatch = Failed(code))
          \/ \E command : Dispatch = Parsed(command) /\ command.type # "data"
    BY <1>20 DEF Dispatch, Auth
  <2>3. QED
    BY <1>1, <1>2, <2>1, <2>2, KeylessAdvertises
<1>21. CASE Name = "select"
  <2>1. SPECS[Name] = Keyless(2)
    BY <1>21 DEF SPECS
  <2>2. (\E code : Dispatch = Failed(code))
          \/ \E command : Dispatch = Parsed(command) /\ command.type # "data"
    BY <1>21 DEF Dispatch
  <2>3. QED
    BY <1>1, <1>2, <2>1, <2>2, KeylessAdvertises
<1>22. CASE Name = "command"
  <2>1. SPECS[Name] = Keyless(-1)
    BY <1>22 DEF SPECS
  <2>2. (\E code : Dispatch = Failed(code))
          \/ \E command : Dispatch = Parsed(command) /\ command.type # "data"
    BY <1>22 DEF Dispatch, Metadata
  <2>3. QED
    BY <1>1, <1>2, <2>1, <2>2, KeylessAdvertises
<1>23. CASE Name = "client"
  <2>1. SPECS[Name] = Keyless(-2)
    BY <1>23 DEF SPECS
  <2>2. (\E code : Dispatch = Failed(code))
          \/ \E command : Dispatch = Parsed(command) /\ command.type # "data"
    BY <1>23 DEF Dispatch, parse_client
  <2>3. QED
    BY <1>1, <1>2, <2>1, <2>2, KeylessAdvertises
<1>24. CASE Name = "info"
  <2>1. SPECS[Name] = Keyless(-1)
    BY <1>24 DEF SPECS
  <2>2. (\E code : Dispatch = Failed(code))
          \/ \E command : Dispatch = Parsed(command) /\ command.type # "data"
    BY <1>24 DEF Dispatch
  <2>3. QED
    BY <1>1, <1>2, <2>1, <2>2, KeylessAdvertises
<1>25. QED
  BY <1>1, <1>3, <1>4, <1>5, <1>6, <1>7, <1>8, <1>9, <1>10, <1>11, <1>12, <1>13, <1>14, <1>15, <1>16, <1>17, <1>18, <1>19, <1>20, <1>21, <1>22, <1>23, <1>24, NamesAre

-----------------------------------------------------------------------------
(***************************************************************************)
(* HELLO.                                                                  *)
(***************************************************************************)
\* The options of a greeting, by places.
LEMMA OptionsAre ==
    ASSUME a \in Inputs, NEW w, w = SubSeq(a, 3, Len(a))
    PROVE  /\ w \in Seq(Tokens) /\ HelloEnd \in Nat /\ HelloEnd >= 2
           /\ Len(w) = HelloEnd - 2 /\ DOMAIN w = 1 .. (HelloEnd - 2)
           /\ \A i \in 1 .. (HelloEnd - 2) : w[i] = a[i + 2] /\ w[i] \in Tokens
<1>1. PICK n \in Nat : n = Len(a) /\ n >= 1
  BY ArgumentIs
<1>2. CASE n >= 2
  <2>1. HelloEnd = n
    BY <1>1, <1>2 DEF HelloEnd
  <2>2. /\ w \in Seq(Tokens) /\ Len(w) = n - 2 /\ DOMAIN w = 1 .. (n - 2)
        /\ \A i \in 1 .. (n - 2) : w[i] = a[i + 2]
    <3>1. PICK k \in Nat : k = 3 /\ k >= 1 /\ k <= n + 1
      BY <1>2
    <3>2. /\ w \in Seq(Tokens) /\ Len(w) = n + 1 - k /\ DOMAIN w = 1 .. (n + 1 - k)
          /\ \A i \in 1 .. (n + 1 - k) : w[i] = a[k + i - 1]
      <4>1. w = SubSeq(a, k, n) /\ k >= 1 /\ n <= Len(a) /\ k <= n + 1
        BY <1>1, <3>1
      <4>2. /\ SubSeq(a, k, n) \in Seq(Tokens) /\ Len(SubSeq(a, k, n)) = n + 1 - k
            /\ DOMAIN SubSeq(a, k, n) = 1 .. (n + 1 - k)
            /\ \A i \in 1 .. (n + 1 - k) : SubSeq(a, k, n)[i] = a[k + i - 1]
        BY <4>1, PieceIs
      <4>3. QED
        BY <4>1, <4>2, Zenon
    <3>3. n + 1 - k = n - 2 /\ \A i \in 1 .. (n - 2) : k + i - 1 = i + 2
      BY <3>1
    <3>4. QED
      BY <3>2, <3>3
  <2>3. \A i \in 1 .. (n - 2) : w[i] \in Tokens
    BY <2>2
  <2>4. QED
    BY <1>2, <2>1, <2>2, <2>3
<1>3. CASE n = 1
  <2>1. HelloEnd = 2
    BY <1>1, <1>3 DEF HelloEnd
  <2>2. w = <<>>
    BY <1>1, <1>3, SubSeqEmpty
  <2>3. w \in Seq(Tokens) /\ Len(w) = 0
    BY <2>2, EmptySeq
  <2>4. DOMAIN w = 1 .. 0
    BY <2>3
  <2>5. QED
    BY <2>1, <2>3, <2>4
<1>4. QED
  BY <1>1, <1>2, <1>3

\* The words of credentials, behind the k-th option.
LEMMA AuthStands ==
    ASSUME NEW auth \in (Tokens \X Tokens) \cup {None}
    PROVE  /\ \A s \in AuthWords(auth) : s \in Seq(Tokens) /\ Len(s) = AuthSize(auth)
           /\ \A w \in Seq(Tokens), k \in Nat : k + AuthSize(auth) <= Len(w) =>
                ((\E s \in AuthWords(auth) : \A i \in 1 .. AuthSize(auth) : w[k + i] = s[i])
                   <=> (auth # None => /\ Lower[w[k + 1]] = "auth"
                                       /\ w[k + 2] = auth[1] /\ w[k + 3] = auth[2]))
<1>1. CASE auth = None
  <2>1. AuthWords(auth) = {<<>>} /\ AuthSize(auth) = 0
    BY <1>1 DEF AuthWords, AuthSize
  <2>2. <<>> \in Seq(Tokens) /\ Len(<<>>) = 0
    BY EmptySeq
  <2>3. QED
    BY <1>1, <2>1, <2>2
<1>2. CASE auth # None
  <2>1. AuthSize(auth) = 3 /\ auth[1] \in Tokens /\ auth[2] \in Tokens
    BY <1>2 DEF AuthSize
  <2>2. PICK y \in Tokens, z \in Tokens : y = auth[1] /\ z = auth[2]
    BY <2>1
  <2>3. AuthWords(auth) = {<<t, y, z>> : t \in Spelt("auth")}
    BY <1>2, <2>2 DEF AuthWords
  <2>4. \A t \in Tokens : /\ <<t, y, z>> \in Seq(Tokens) /\ Len(<<t, y, z>>) = 3
                          /\ <<t, y, z>>[1] = t /\ <<t, y, z>>[2] = y /\ <<t, y, z>>[3] = z
    BY ShortIs
  <2>5. \A t : t \in Spelt("auth") <=> t \in Tokens /\ Lower[t] = "auth"
    BY DEF Spelt
  <2>6. \A s \in AuthWords(auth) : s \in Seq(Tokens) /\ Len(s) = AuthSize(auth)
    BY <2>1, <2>3, <2>4, <2>5
  <2>7. ASSUME NEW w \in Seq(Tokens), NEW k \in Nat, k + 3 <= Len(w)
        PROVE  (\E s \in AuthWords(auth) : \A i \in 1 .. 3 : w[k + i] = s[i])
                 <=> Lower[w[k + 1]] = "auth" /\ w[k + 2] = y /\ w[k + 3] = z
    <3>1. ASSUME NEW s \in AuthWords(auth), \A i \in 1 .. 3 : w[k + i] = s[i]
          PROVE  Lower[w[k + 1]] = "auth" /\ w[k + 2] = y /\ w[k + 3] = z
      <4>1. PICK t \in Spelt("auth") : s = <<t, y, z>>
        BY <2>3
      <4>2. s[1] = t /\ s[2] = y /\ s[3] = z /\ Lower[t] = "auth"
        BY <2>4, <2>5, <4>1
      <4>3. w[k + 1] = s[1] /\ w[k + 2] = s[2] /\ w[k + 3] = s[3]
        BY <3>1
      <4>4. QED
        BY <4>2, <4>3
    <3>2. ASSUME Lower[w[k + 1]] = "auth", w[k + 2] = y, w[k + 3] = z
          PROVE  \E s \in AuthWords(auth) : \A i \in 1 .. 3 : w[k + i] = s[i]
      <4>1. PICK t \in Tokens : t = w[k + 1]
        BY <2>7
      <4>2. PICK s : s = <<t, y, z>>
        OBVIOUS
      <4>3. s \in AuthWords(auth) /\ s[1] = t /\ s[2] = y /\ s[3] = z
        BY <2>3, <2>4, <2>5, <3>2, <4>1, <4>2
      <4>4. \A i \in 1 .. 3 : w[k + i] = s[i]
        BY <3>2, <4>1, <4>3
      <4>5. QED
        BY <4>3, <4>4
    <3>3. QED
      BY <3>1, <3>2
  <2>8. QED
    BY <1>2, <2>1, <2>2, <2>6, <2>7
<1>3. QED
  BY <1>1, <1>2

\* The words of a name, behind the k-th option.
LEMMA NameStands ==
    ASSUME NEW name \in Tokens \cup {None}
    PROVE  /\ \A s \in NameWords(name) : s \in Seq(Tokens) /\ Len(s) = NameSize(name)
           /\ \A w \in Seq(Tokens), k \in Nat : k + NameSize(name) <= Len(w) =>
                ((\E s \in NameWords(name) : \A i \in 1 .. NameSize(name) : w[k + i] = s[i])
                   <=> (name # None => Lower[w[k + 1]] = "setname" /\ w[k + 2] = name))
<1>1. CASE name = None
  <2>1. NameWords(name) = {<<>>} /\ NameSize(name) = 0
    BY <1>1 DEF NameWords, NameSize
  <2>2. <<>> \in Seq(Tokens) /\ Len(<<>>) = 0
    BY EmptySeq
  <2>3. QED
    BY <1>1, <2>1, <2>2
<1>2. CASE name # None
  <2>1. NameSize(name) = 2 /\ name \in Tokens
    BY <1>2 DEF NameSize
  <2>2. NameWords(name) = {<<t, name>> : t \in Spelt("setname")}
    BY <1>2 DEF NameWords
  <2>3. \A t \in Tokens : /\ <<t, name>> \in Seq(Tokens) /\ Len(<<t, name>>) = 2
                          /\ <<t, name>>[1] = t /\ <<t, name>>[2] = name
    BY <2>1, ShortIs
  <2>4. \A t : t \in Spelt("setname") <=> t \in Tokens /\ Lower[t] = "setname"
    BY DEF Spelt
  <2>5. \A s \in NameWords(name) : s \in Seq(Tokens) /\ Len(s) = NameSize(name)
    BY <2>1, <2>2, <2>3, <2>4
  <2>6. ASSUME NEW w \in Seq(Tokens), NEW k \in Nat, k + 2 <= Len(w)
        PROVE  (\E s \in NameWords(name) : \A i \in 1 .. 2 : w[k + i] = s[i])
                 <=> Lower[w[k + 1]] = "setname" /\ w[k + 2] = name
    <3>1. ASSUME NEW s \in NameWords(name), \A i \in 1 .. 2 : w[k + i] = s[i]
          PROVE  Lower[w[k + 1]] = "setname" /\ w[k + 2] = name
      <4>1. PICK t \in Spelt("setname") : s = <<t, name>>
        BY <2>2
      <4>2. s[1] = t /\ s[2] = name /\ Lower[t] = "setname"
        BY <2>3, <2>4, <4>1
      <4>3. w[k + 1] = s[1] /\ w[k + 2] = s[2]
        BY <3>1
      <4>4. QED
        BY <4>2, <4>3
    <3>2. ASSUME Lower[w[k + 1]] = "setname", w[k + 2] = name
          PROVE  \E s \in NameWords(name) : \A i \in 1 .. 2 : w[k + i] = s[i]
      <4>1. PICK t \in Tokens : t = w[k + 1]
        BY <2>6
      <4>2. PICK s : s = <<t, name>>
        OBVIOUS
      <4>3. s \in NameWords(name) /\ s[1] = t /\ s[2] = name
        BY <2>2, <2>3, <2>4, <3>2, <4>1, <4>2
      <4>4. \A i \in 1 .. 2 : w[k + i] = s[i]
        BY <3>2, <4>1, <4>3
      <4>5. QED
        BY <4>3, <4>4
    <3>3. QED
      BY <3>1, <3>2
  <2>7. QED
    BY <1>2, <2>1, <2>5, <2>6
<1>3. QED
  BY <1>1, <1>2

\* What the reference takes for the options of a greeting, by places.
LEMMA HelloSpelling ==
    ASSUME a \in Inputs, NEW auth \in (Tokens \X Tokens) \cup {None},
           NEW name \in Tokens \cup {None}
    PROVE  SubSeq(a, 3, Len(a)) \in EitherOrder(AuthWords(auth), NameWords(name))
             <=> HelloReads(auth, name, HelloEnd)
<1>1. PICK w : w = SubSeq(a, 3, Len(a))
  OBVIOUS
<1>2. PICK e \in Nat : e = HelloEnd /\ e >= 2
  BY <1>1, OptionsAre
<1>3. w \in Seq(Tokens) /\ Len(w) = e - 2 /\ \A i \in 1 .. (e - 2) : w[i] = a[i + 2]
  BY <1>1, <1>2, OptionsAre
<1>4. PICK p \in Nat, q \in Nat : p = AuthSize(auth) /\ q = NameSize(name)
  BY DEF AuthSize, NameSize
<1>5. PICK S, T : S = AuthWords(auth) /\ T = NameWords(name)
  OBVIOUS
<1>6. /\ \A s \in S : s \in Seq(Tokens) /\ Len(s) = p
      /\ \A t \in T : t \in Seq(Tokens) /\ Len(t) = q
  BY <1>4, <1>5, AuthStands, NameStands
<1>7. ASSUME NEW s \in S, NEW t \in T
      PROVE  /\ w = Behind(s, t) <=> /\ e = 2 + p + q
                                     /\ \A i \in 1 .. p : w[i] = s[i]
                                     /\ \A i \in 1 .. q : w[p + i] = t[i]
             /\ w = Behind(t, s) <=> /\ e = 2 + p + q
                                     /\ \A i \in 1 .. q : w[i] = t[i]
                                     /\ \A i \in 1 .. p : w[q + i] = s[i]
  <2>0. s \in Seq(Tokens) /\ t \in Seq(Tokens) /\ w \in Seq(Tokens)
    BY <1>3, <1>6
  <2>1. /\ w = Behind(s, t) <=> Meets(w, s, t)
        /\ w = Behind(t, s) <=> Meets(w, t, s)
    BY <2>0, Joined, Zenon
  <2>2. Len(w) = p + q <=> e = 2 + p + q
    BY <1>3
  <2>3. Len(s) = p /\ Len(t) = q /\ p + q = q + p
    BY <1>6
  <2>4. QED
    BY <2>1, <2>2, <2>3 DEF Meets
<1>8. w \in EitherOrder(S, T) <=> \E s \in S, t \in T : w = Behind(s, t) \/ w = Behind(t, s)
  BY EitherIs
<1>9. ASSUME e = 2 + p + q, NEW k \in Nat, k + p <= e - 2
      PROVE  (\E s \in S : \A i \in 1 .. p : w[k + i] = s[i]) <=> AuthAt(auth, 3 + k)
  <2>1. (\E s \in S : \A i \in 1 .. p : w[k + i] = s[i])
           <=> (auth # None => /\ Lower[w[k + 1]] = "auth"
                               /\ w[k + 2] = auth[1] /\ w[k + 3] = auth[2])
    <3>1. k + AuthSize(auth) <= Len(w)
      BY <1>3, <1>4, <1>9
    <3>2. (\E s \in AuthWords(auth) : \A i \in 1 .. AuthSize(auth) : w[k + i] = s[i])
            <=> (auth # None => /\ Lower[w[k + 1]] = "auth"
                                /\ w[k + 2] = auth[1] /\ w[k + 3] = auth[2])
      BY <1>3, <3>1, AuthStands, ZenonT(30)
    <3>3. QED
      BY <1>4, <1>5, <3>2
  <2>2. auth # None => p = 3
    BY <1>4 DEF AuthSize
  <2>3. p = 3 => w[k + 1] = a[3 + k] /\ w[k + 2] = a[3 + k + 1] /\ w[k + 3] = a[3 + k + 2]
    BY <1>2, <1>3, <1>9
  <2>4. QED
    BY <2>1, <2>2, <2>3 DEF AuthAt, Word
<1>10. ASSUME e = 2 + p + q, NEW k \in Nat, k + q <= e - 2
       PROVE  (\E t \in T : \A i \in 1 .. q : w[k + i] = t[i]) <=> NameAt(name, 3 + k)
  <2>1. (\E t \in T : \A i \in 1 .. q : w[k + i] = t[i])
           <=> (name # None => Lower[w[k + 1]] = "setname" /\ w[k + 2] = name)
    <3>1. k + NameSize(name) <= Len(w)
      BY <1>3, <1>4, <1>10
    <3>2. (\E t \in NameWords(name) : \A i \in 1 .. NameSize(name) : w[k + i] = t[i])
            <=> (name # None => Lower[w[k + 1]] = "setname" /\ w[k + 2] = name)
      BY <1>3, <3>1, NameStands, ZenonT(30)
    <3>3. QED
      BY <1>4, <1>5, <3>2
  <2>2. name # None => q = 2
    BY <1>4 DEF NameSize
  <2>3. q = 2 => w[k + 1] = a[3 + k] /\ w[k + 2] = a[3 + k + 1]
    BY <1>2, <1>3, <1>10
  <2>4. QED
    BY <2>1, <2>2, <2>3 DEF NameAt, Word
<1>11. CASE e # 2 + p + q
  BY <1>1, <1>2, <1>4, <1>5, <1>7, <1>8, <1>11 DEF HelloReads
<1>12. CASE e = 2 + p + q
  <2>1. /\ (\E s \in S : \A i \in 1 .. p : w[i] = s[i]) <=> AuthAt(auth, 3)
        /\ (\E t \in T : \A i \in 1 .. q : w[p + i] = t[i]) <=> NameAt(name, 3 + p)
        /\ (\E t \in T : \A i \in 1 .. q : w[i] = t[i]) <=> NameAt(name, 3)
        /\ (\E s \in S : \A i \in 1 .. p : w[q + i] = s[i]) <=> AuthAt(auth, 3 + q)
    <3>1. /\ 0 + p <= e - 2 /\ q + p <= e - 2 /\ 0 + q <= e - 2 /\ p + q <= e - 2
          /\ 0 \in Nat /\ 3 + 0 = 3 /\ \A i \in 1 .. p : 0 + i = i
          /\ \A i \in 1 .. q : 0 + i = i
      BY <1>12
    <3>2. /\ (\E s \in S : \A i \in 1 .. p : w[0 + i] = s[i]) <=> AuthAt(auth, 3 + 0)
          /\ (\E s \in S : \A i \in 1 .. p : w[q + i] = s[i]) <=> AuthAt(auth, 3 + q)
      BY <1>9, <1>12, <3>1
    <3>3. /\ (\E t \in T : \A i \in 1 .. q : w[0 + i] = t[i]) <=> NameAt(name, 3 + 0)
          /\ (\E t \in T : \A i \in 1 .. q : w[p + i] = t[i]) <=> NameAt(name, 3 + p)
      BY <1>10, <1>12, <3>1
    <3>4. QED
      BY <3>1, <3>2, <3>3
  <2>2. w \in EitherOrder(S, T) <=>
          \/ /\ \E s \in S : \A i \in 1 .. p : w[i] = s[i]
             /\ \E t \in T : \A i \in 1 .. q : w[p + i] = t[i]
          \/ /\ \E t \in T : \A i \in 1 .. q : w[i] = t[i]
             /\ \E s \in S : \A i \in 1 .. p : w[q + i] = s[i]
    BY <1>7, <1>8, <1>12
  <2>3. QED
    BY <1>1, <1>2, <1>4, <1>5, <1>12, <2>1, <2>2 DEF HelloReads
<1>13. QED
  BY <1>11, <1>12

\* The words of a greeting are tokens.
LEMMA HelloWordsAre == ASSUME a \in Inputs PROVE HelloWords \subseteq Tokens
  BY ArgumentIs DEF HelloWords

\* What the options of a greeting may mean, by places.
LEMMA GreetingsAre ==
    ASSUME a \in Inputs, NEW m
    PROVE  m \in Greetings(SubSeq(a, 3, Len(a))) <=>
             /\ m \in [auth : (HelloWords \X HelloWords) \cup {None}, name : HelloWords \cup {None}]
             /\ HelloReads(m.auth, m.name, HelloEnd)
<1>1. PICK w : w = SubSeq(a, 3, Len(a))
  OBVIOUS
<1>2. {w[i] : i \in DOMAIN w} = HelloWords
  <2>1. PICK n \in Nat : n = Len(a) /\ n >= 1
    BY ArgumentIs
  <2>2. /\ DOMAIN w = 1 .. (HelloEnd - 2) /\ HelloEnd = IF n = 1 THEN 2 ELSE n
        /\ \A i \in 1 .. (HelloEnd - 2) : w[i] = a[i + 2]
    BY <1>1, <2>1, OptionsAre DEF HelloEnd
  <2>3. ASSUME NEW i \in DOMAIN w PROVE w[i] \in HelloWords
    <3>1. i + 2 \in 3 .. Len(a) /\ w[i] = a[i + 2]
      BY <2>1, <2>2
    <3>2. QED
      BY <3>1 DEF HelloWords
  <2>4. ASSUME NEW i \in 3 .. Len(a) PROVE a[i] \in {w[j] : j \in DOMAIN w}
    <3>1. i - 2 \in DOMAIN w /\ w[i - 2] = a[i]
      BY <2>1, <2>2
    <3>2. QED
      BY <3>1
  <2>5. QED
    BY <2>3, <2>4 DEF HelloWords
<1>3. m \in Greetings(w) <=>
        /\ m \in [auth : (HelloWords \X HelloWords) \cup {None}, name : HelloWords \cup {None}]
        /\ w \in EitherOrder(AuthWords(m.auth), NameWords(m.name))
  BY <1>2 DEF Greetings
<1>4. ASSUME m \in [auth : (HelloWords \X HelloWords) \cup {None}, name : HelloWords \cup {None}]
      PROVE  m.auth \in (Tokens \X Tokens) \cup {None} /\ m.name \in Tokens \cup {None}
  BY <1>4, HelloWordsAre
<1>5. QED
  BY <1>1, <1>3, <1>4, HelloSpelling

\* The options of a greeting say one thing at most.
LEMMA HelloUnique ==
    ASSUME NEW W,
           NEW m \in [auth : (W \X W) \cup {None}, name : W \cup {None}],
           NEW q \in [auth : (W \X W) \cup {None}, name : W \cup {None}],
           NEW n \in Nat, HelloReads(m.auth, m.name, n), HelloReads(q.auth, q.name, n)
    PROVE  m.auth = q.auth /\ m.name = q.name
<1>1. (m.auth = None <=> q.auth = None) /\ (m.name = None <=> q.name = None)
  BY DEF HelloReads, AuthSize, NameSize
<1>2. m.name = q.name
  BY <1>1 DEF HelloReads, AuthSize, NameSize, AuthAt, NameAt
<1>3. CASE m.auth # None
  <2>1. m.auth[1] = q.auth[1] /\ m.auth[2] = q.auth[2]
    BY <1>1, <1>3 DEF HelloReads, AuthSize, NameSize, AuthAt, NameAt
  <2>2. m.auth \in W \X W /\ q.auth \in W \X W
    BY <1>1, <1>3
  <2>3. QED
    BY <1>2, <2>1, <2>2
<1>4. QED
  BY <1>1, <1>2, <1>3

\* Where the options go on, the next word is one the loop accepts.
LEMMA HelloExtends ==
    ASSUME NEW auth, NEW name, NEW user, NEW client, NEW n \in Nat, NEW i \in Nat, i <= n,
           HelloReads(auth, name, n), HelloReads(user, client, i - 1)
    PROVE  \/ Word(i) = "auth" /\ user = None /\ i + 2 <= n
           \/ /\ Word(i) = "setname" /\ client = None /\ i + 1 <= n
              /\ name # None /\ a[i + 1] = name
  BY DEF HelloReads, AuthSize, NameSize, AuthAt, NameAt

\* What the loop of HELLO knows, in names of its own.
LEMMA HelloAt ==
    ASSUME IInv, pc = "hello"
    PROVE  /\ a \in Inputs /\ Name = "hello" /\ Len(a) \in Nat
           /\ Len(a) >= 2 => IntegerOf[a[2]] # None
           /\ index \in Nat /\ 3 <= index /\ index <= HelloEnd + 1
           /\ HelloEnd \in Nat /\ (index <= Len(a) => HelloEnd = Len(a))
           /\ partial \in [auth : (HelloWords \X HelloWords) \cup {None},
                           name : HelloWords \cup {None}, protocol : {Version}]
           /\ LegalName(partial.name) /\ HelloReads(partial.auth, partial.name, index - 1)
           /\ \A i \in 1 .. Len(a) : Lower[a[i]] = Word(i)
<1>1. a \in Inputs /\ Len(a) \in Nat
  BY ArgumentIs DEF IInv, Typed
<1>2. HelloEnd \in Nat
  BY <1>1 DEF HelloEnd
<1>3. index \in Nat /\ 3 <= index /\ index <= HelloEnd + 1
  BY <1>2 DEF IInv, HelloLoop
<1>4. index <= Len(a) => HelloEnd = Len(a)
  BY <1>1, <1>3 DEF HelloEnd
<1>5. QED
  BY <1>1, <1>2, <1>3, <1>4 DEF IInv, HelloLoop, Word

\* A refusal in the loop of HELLO is right where the options read so far cannot go on.
LEMMA HelloRefuses ==
    ASSUME IInv, Name = "hello", NEW code, Finish(Failed(code)),
           \/ Len(a) >= 2 /\ IntegerOf[a[2]] = None
           \/ \A auth \in (HelloWords \X HelloWords) \cup {None}, name \in HelloWords \cup {None} :
                 HelloReads(auth, name, HelloEnd) => ~LegalName(name)
    PROVE  IInv'
<1>1. a \in Inputs /\ Len(a) \in Nat /\ Len(a) >= 1
  BY ArgumentIs DEF IInv, Typed
<1>2. PICK M : M = {m \in Greetings(SubSeq(a, 3, Len(a))) : LegalName(m.name)}
  OBVIOUS
<1>3. \A m \in M : /\ m.auth \in (HelloWords \X HelloWords) \cup {None}
                   /\ m.name \in HelloWords \cup {None}
                   /\ HelloReads(m.auth, m.name, HelloEnd) /\ LegalName(m.name)
  BY <1>1, <1>2, GreetingsAre
<1>4. ~(M # {} /\ (Version = None => Len(a) = 1))
  BY <1>1, <1>3 DEF Version
<1>5. Failed(code).ok = FALSE
  BY DEF Failed
<1>6. HelloMeans(Failed(code))
  BY <1>2, <1>4, <1>5 DEF HelloMeans, Version
<1>7. QED
  BY <1>6, FailureAdvertises, Finishes

\* A step that reads an option of HELLO.
LEMMA HelloGoesOn ==
    ASSUME IInv, Name = "hello", Len(a) >= 2 => IntegerOf[a[2]] # None, a' = a, pc' = "hello",
           NEW j \in Nat, index' = j, 3 <= j, j <= HelloEnd + 1, NEW q, partial' = q,
           q \in [auth : (HelloWords \X HelloWords) \cup {None},
                  name : HelloWords \cup {None}, protocol : {Version}],
           LegalName(q.name), HelloReads(q.auth, q.name, j - 1)
    PROVE  IInv'
<1>1. /\ HelloEnd' = HelloEnd /\ HelloWords' = HelloWords /\ HelloEnd \in Nat
      /\ Version' = Version
  BY ArgumentIs DEF HelloEnd, HelloWords, Version, IInv, Typed
<1>2. HelloReads(partial.auth, partial.name, index - 1)'
  BY DEF HelloReads, AuthAt, NameAt, Word
<1>3. HelloLoop'
  BY <1>1, <1>2 DEF HelloLoop, Name
<1>4. SetLoop'
  BY DEF SetLoop
<1>5. QED
  BY <1>3, <1>4, Continues

\* AUTH takes the two arguments behind it.
LEMMA StepHelloAuth == IInv /\ HelloAuth => IInv'
<1> SUFFICES ASSUME IInv, HelloAuth PROVE IInv'
  OBVIOUS
<1>1. /\ pc = "hello" /\ index <= Len(a) /\ Lower[a[index]] = "auth" /\ partial.auth = None
      /\ index + 2 <= Len(a)
  BY DEF HelloAuth, AuthOption, Option
<1>2. /\ a \in Inputs /\ Name = "hello" /\ Len(a) \in Nat
      /\ Len(a) >= 2 => IntegerOf[a[2]] # None
      /\ index \in Nat /\ 3 <= index /\ HelloEnd = Len(a)
      /\ partial \in [auth : (HelloWords \X HelloWords) \cup {None},
                      name : HelloWords \cup {None}, protocol : {Version}]
      /\ LegalName(partial.name) /\ HelloReads(partial.auth, partial.name, index - 1)
      /\ \A i \in 1 .. Len(a) : Lower[a[i]] = Word(i)
  BY <1>1, HelloAt
<1>3. PICK u, p : u = a[index + 1] /\ p = a[index + 2]
  OBVIOUS
<1>4. /\ u \in HelloWords /\ p \in HelloWords
      /\ Word(index) = "auth" /\ a[index + 1] = u /\ a[index + 2] = p
  BY <1>1, <1>2, <1>3 DEF HelloWords
<1>5. PICK q : q = [partial EXCEPT !.auth = <<u, p>>]
  OBVIOUS
<1>6. /\ a' = a /\ pc' = "hello" /\ index' = index + 3 /\ partial' = q
      /\ index + 3 \in Nat /\ (index + 3) - 1 = index + 2 /\ index + 3 <= HelloEnd + 1
  BY <1>1, <1>2, <1>3, <1>5 DEF HelloAuth, Advance
<1>7. /\ q \in [auth : (HelloWords \X HelloWords) \cup {None},
                name : HelloWords \cup {None}, protocol : {Version}]
      /\ q.auth = <<u, p>> /\ q.name = partial.name
  BY <1>2, <1>4, <1>5
<1>8. q.auth # None
  BY <1>2, <1>4, <1>7, HelloWordsAre, ParserAssumption
<1>9. AuthAt(q.auth, index)
  BY <1>4, <1>7 DEF AuthAt
<1>10. HelloReads(q.auth, q.name, index + 2)
  BY <1>1, <1>2, <1>7, <1>8, <1>9 DEF HelloReads, AuthSize, NameSize
<1>11. PICK j \in Nat : j = index + 3
  BY <1>6
<1>12. 3 <= j /\ j <= HelloEnd + 1 /\ j - 1 = index + 2
  BY <1>2, <1>6, <1>11
<1>13. LegalName(q.name) /\ HelloReads(q.auth, q.name, j - 1)
  BY <1>2, <1>7, <1>10, <1>12
<1>14. index' = j
  BY <1>6, <1>11
<1>15. QED
  BY <1>2, <1>6, <1>7, <1>12, <1>13, <1>14, HelloGoesOn

\* SETNAME takes the argument behind it, which has to be a legal name.
LEMMA StepHelloName == IInv /\ HelloName => IInv'
<1> SUFFICES ASSUME IInv, HelloName PROVE IInv'
  OBVIOUS
<1>1. /\ pc = "hello" /\ index <= Len(a) /\ Lower[a[index]] = "setname"
      /\ partial.name = None /\ index + 1 <= Len(a)
  BY DEF HelloName, NameOption, Option
<1>2. /\ a \in Inputs /\ Name = "hello" /\ Len(a) \in Nat
      /\ Len(a) >= 2 => IntegerOf[a[2]] # None
      /\ index \in Nat /\ 3 <= index /\ HelloEnd = Len(a)
      /\ partial \in [auth : (HelloWords \X HelloWords) \cup {None},
                      name : HelloWords \cup {None}, protocol : {Version}]
      /\ LegalName(partial.name) /\ HelloReads(partial.auth, partial.name, index - 1)
      /\ \A i \in 1 .. Len(a) : Lower[a[i]] = Word(i)
  BY <1>1, HelloAt
<1>3. PICK c : c = a[index + 1]
  OBVIOUS
<1>4. /\ c \in HelloWords /\ c \in Tokens
      /\ Word(index) = "setname" /\ a[index + 1] = c
  BY <1>1, <1>2, <1>3, ArgumentIs DEF HelloWords
<1>5. c # None
  BY <1>4, ParserAssumption
<1>6. CASE client_name(c)
  <2>1. PICK q : q = [partial EXCEPT !.name = c]
    OBVIOUS
  <2>2. /\ a' = a /\ pc' = "hello" /\ index' = index + 2 /\ partial' = q
        /\ index + 2 \in Nat /\ (index + 2) - 1 = index + 1 /\ index + 2 <= HelloEnd + 1
    BY <1>1, <1>2, <1>3, <1>6, <2>1 DEF HelloName, Advance
  <2>3. /\ q \in [auth : (HelloWords \X HelloWords) \cup {None},
                  name : HelloWords \cup {None}, protocol : {Version}]
        /\ q.name = c /\ q.auth = partial.auth
    BY <1>2, <1>4, <2>1
  <2>4. LegalName(q.name)
    BY <1>6, <2>3 DEF LegalName, client_name
  <2>5. NameAt(q.name, index)
    BY <1>4, <2>3 DEF NameAt
  <2>6. HelloReads(q.auth, q.name, index + 1)
    BY <1>1, <1>2, <1>5, <2>3, <2>5 DEF HelloReads, AuthSize, NameSize
  <2>7. QED
    BY <1>2, <2>2, <2>3, <2>4, <2>6, HelloGoesOn
<1>7. CASE ~client_name(c)
  <2>1. Finish(Failed("client_name"))
    BY <1>3, <1>7 DEF HelloName
  <2>2. ASSUME NEW auth, NEW name \in HelloWords \cup {None}, HelloReads(auth, name, HelloEnd)
        PROVE  ~LegalName(name)
    <3>1. name # None /\ name = c
      BY <1>1, <1>2, <1>4, <2>2, HelloExtends
    <3>2. QED
      BY <1>7, <3>1 DEF LegalName, client_name
  <2>3. QED
    BY <1>2, <2>1, <2>2, HelloRefuses
<1>8. QED
  BY <1>6, <1>7

\* Any other word, a repeated option and one cut short belong to no greeting.
LEMMA StepHelloOther == IInv /\ HelloOther => IInv'
<1> SUFFICES ASSUME IInv, HelloOther PROVE IInv'
  OBVIOUS
<1>1. /\ pc = "hello" /\ index <= Len(a) /\ ~AuthOption /\ ~NameOption
      /\ Finish(Failed("syntax"))
  BY DEF HelloOther, Option
<1>2. /\ Name = "hello" /\ Len(a) \in Nat /\ index \in Nat /\ 3 <= index /\ HelloEnd = Len(a)
      /\ HelloReads(partial.auth, partial.name, index - 1)
      /\ Word(index) = Lower[a[index]]
  BY <1>1, HelloAt
<1>3. ASSUME NEW auth, NEW name, HelloReads(auth, name, HelloEnd) PROVE FALSE
  <2>1. \/ Word(index) = "auth" /\ partial.auth = None /\ index + 2 <= Len(a)
        \/ Word(index) = "setname" /\ partial.name = None /\ index + 1 <= Len(a)
    BY <1>1, <1>2, <1>3, HelloExtends
  <2>2. QED
    BY <1>1, <1>2, <2>1 DEF AuthOption, NameOption, Option
<1>4. QED
  BY <1>1, <1>2, <1>3, HelloRefuses

\* HELLO's loop starts with no option read, behind a version that is an integer.
LEMMA StepEnterHello == IInv /\ EnterHello => IInv'
<1> SUFFICES ASSUME IInv, EnterHello PROVE IInv'
  OBVIOUS
<1>1. a \in Inputs /\ Name = "hello" /\ Len(a) \in Nat /\ Len(a) >= 1
  BY ArgumentIs DEF EnterHello, IInv, Typed
<1>2. CASE Len(a) >= 2 /\ IntegerOf[a[2]] = None
  <2>1. Finish(Failed("integer"))
    BY <1>1, <1>2 DEF EnterHello, Arg
  <2>2. QED
    BY <1>1, <1>2, <2>1, HelloRefuses
<1>3. CASE ~(Len(a) >= 2 /\ IntegerOf[a[2]] = None)
  <2>1. PICK v : v = Version /\ v = IF Len(a) >= 2 THEN IntegerOf[a[2]] ELSE None
    <3>1. Len(a) = 1 <=> ~(Len(a) >= 2)
      <4>1. PICK n \in Nat : n = Len(a) /\ n >= 1
        BY <1>1
      <4>2. n = 1 <=> ~(n >= 2)
        BY <4>1
      <4>3. QED
        BY <4>1, <4>2
    <3>2. Version = IF Len(a) >= 2 THEN IntegerOf[a[2]] ELSE None
      BY <3>1, Zenon DEF Version
    <3>3. QED
      BY <3>2
  <2>2. PICK q : q = [auth |-> None, name |-> None, protocol |-> v]
    OBVIOUS
  <2>3. a' = a /\ pc' = "hello" /\ index' = 3 /\ partial' = q
    BY <1>1, <1>3, <2>1, <2>2 DEF EnterHello, Arg
  <2>4. /\ q \in [auth : (HelloWords \X HelloWords) \cup {None},
                  name : HelloWords \cup {None}, protocol : {Version}]
        /\ q.auth = None /\ q.name = None /\ LegalName(q.name)
    BY <2>1, <2>2 DEF LegalName
  <2>5. HelloReads(q.auth, q.name, 2)
    BY <2>4 DEF HelloReads, AuthSize, NameSize, AuthAt, NameAt
  <2>6. HelloEnd \in Nat /\ HelloEnd >= 2
    <3>1. PICK n \in Nat : n = Len(a) /\ n >= 1
      BY <1>1
    <3>2. HelloEnd = IF n = 1 THEN 2 ELSE n
      BY <3>1 DEF HelloEnd
    <3>3. QED
      BY <3>1, <3>2
  <2>7. PICK j \in Nat : j = 3
    OBVIOUS
  <2>8. 3 <= j /\ j <= HelloEnd + 1 /\ j - 1 = 2
    BY <2>6, <2>7
  <2>9. HelloReads(q.auth, q.name, j - 1) /\ index' = j
    BY <2>3, <2>5, <2>7, <2>8
  <2>10. QED
    BY <1>1, <1>3, <2>3, <2>4, <2>8, <2>9, HelloGoesOn
<1>4. QED
  BY <1>2, <1>3

\* HELLO's loop ends where every option has been read.
LEMMA StepLeaveHello == IInv /\ LeaveHello => IInv'
<1> SUFFICES ASSUME IInv, LeaveHello PROVE IInv'
  OBVIOUS
<1>1. pc = "hello" /\ index > Len(a)
  BY DEF LeaveHello
<1>2. /\ a \in Inputs /\ Name = "hello" /\ Len(a) \in Nat
      /\ Len(a) >= 2 => IntegerOf[a[2]] # None
      /\ index \in Nat /\ 3 <= index /\ index <= HelloEnd + 1
      /\ partial \in [auth : (HelloWords \X HelloWords) \cup {None},
                      name : HelloWords \cup {None}, protocol : {Version}]
      /\ LegalName(partial.name) /\ HelloReads(partial.auth, partial.name, index - 1)
  BY <1>1, HelloAt
<1>3. index - 1 = HelloEnd
  BY <1>1, <1>2 DEF HelloEnd
<1>4. PICK c : c = [type |-> "hello", protocol |-> partial.protocol,
                    auth |-> partial.auth, name |-> partial.name]
  OBVIOUS
<1>5. Finish(Parsed(c))
  BY <1>4 DEF LeaveHello
<1>6. Parsed(c).ok = TRUE /\ Parsed(c).command = c /\ c.type # "data"
  BY <1>4 DEF Parsed
<1>7. PICK M : M = {m \in Greetings(SubSeq(a, 3, Len(a))) : LegalName(m.name)}
  OBVIOUS
<1>8. PICK q : q = [auth |-> partial.auth, name |-> partial.name]
  OBVIOUS
<1>9. HelloMeans(Parsed(c))
  <2> DEFINE W == [auth : (HelloWords \X HelloWords) \cup {None}, name : HelloWords \cup {None}]
  <2>1. q \in W /\ q.auth = partial.auth /\ q.name = partial.name
    BY <1>2, <1>8
  <2>2. HelloReads(q.auth, q.name, HelloEnd) /\ LegalName(q.name)
    BY <1>2, <1>3, <2>1
  <2>3. q \in M
    BY <1>2, <1>7, <2>1, <2>2, GreetingsAre
  <2>4. ASSUME NEW m \in M PROVE m.auth = q.auth /\ m.name = q.name
    <3>1. m \in W /\ HelloReads(m.auth, m.name, HelloEnd)
      BY <1>2, <1>7, <2>4, GreetingsAre
    <3>2. HelloEnd \in Nat
      BY <1>2, OptionsAre
    <3>3. QED
      BY <2>1, <2>2, <3>1, <3>2, HelloUnique
  <2>5. partial.protocol = Version /\ (Version = None => Len(a) = 1)
    <3>1. partial.protocol = Version
      BY <1>2
    <3>2. Len(a) = 1 \/ Len(a) >= 2
      <4>1. PICK n \in Nat : n = Len(a) /\ n >= 1
        BY <1>2, ArgumentIs
      <4>2. n = 1 \/ n >= 2
        BY <4>1
      <4>3. QED
        BY <4>1, <4>2
    <3>3. CASE Len(a) = 1
      BY <3>1, <3>3
    <3>4. CASE Len(a) # 1
      BY <1>2, <3>1, <3>2, <3>4 DEF Version
    <3>5. QED
      BY <3>3, <3>4
  <2>6. \A m \in M : c = [type |-> "hello", protocol |-> Version, auth |-> m.auth, name |-> m.name]
    BY <1>4, <2>1, <2>4, <2>5
  <2>7. QED
    BY <1>6, <1>7, <2>3, <2>5, <2>6 DEF HelloMeans, Version
<1>10. Advertises(Parsed(c))
  <2>1. Name \in DOMAIN SPECS /\ SPECS[Name] = Keyless(-1)
    BY <1>2 DEF SPECS
  <2>2. QED
    BY <1>2, <1>6, <2>1, KeylessAdvertises
<1>11. Name # "set"
  BY <1>2
<1>12. QED
  BY <1>5, <1>9, <1>10, <1>11, Finishes

-----------------------------------------------------------------------------
(***************************************************************************)
(* The remaining steps, and the theorems.                                  *)
(***************************************************************************)
\* SET's loop starts with no option read.
LEMMA StepEnterSet == IInv /\ EnterSet => IInv'
<1> SUFFICES ASSUME IInv, EnterSet PROVE IInv'
  OBVIOUS
<1>1. a \in Inputs /\ Name = "set" /\ LookupError = None /\ Len(a) \in Nat
  BY ArgumentIs DEF EnterSet, IInv, Typed
<1>2. Len(a) >= 3
  <2>1. ~(SPECS[Name].arity < 0 /\ Len(a) < -SPECS[Name].arity)
    BY <1>1, LookedUp
  <2>2. QED
    BY <1>1, <2>1, LoopArities
<1>3. PICK q : q = [condition |-> "always", expiry |-> "clear", milliseconds |-> 0]
  OBVIOUS
<1>4. a' = a /\ pc' = "set" /\ index' = 4 /\ partial' = q
  BY <1>3 DEF EnterSet
<1>5. q \in Choices /\ q.condition = "always" /\ q.expiry = "clear"
  BY <1>3 DEF Choices, C!Conditions
<1>6. SetReads(q, 3)
  BY <1>5 DEF SetReads, ConditionSize, ExpirySize, ConditionAt, ExpiryAt
<1>7. PICK j \in Nat : j = 4
  OBVIOUS
<1>8. index' = j /\ 4 <= j /\ j <= Len(a) + 1 /\ j - 1 = 3
  BY <1>1, <1>2, <1>4, <1>7
<1>9. SetReads(q, j - 1)
  BY <1>6, <1>8
<1>10. QED
  BY <1>1, <1>2, <1>4, <1>5, <1>8, <1>9, SetGoesOn

\* SET's loop ends where every option has been read.
LEMMA StepLeaveSet == IInv /\ LeaveSet => IInv'
<1> SUFFICES ASSUME IInv, LeaveSet PROVE IInv'
  OBVIOUS
<1>1. pc = "set" /\ index > Len(a)
  BY DEF LeaveSet
<1>2. /\ a \in Inputs /\ Name = "set" /\ Len(a) \in Nat /\ Len(a) >= 3
      /\ index \in Nat /\ index <= Len(a) + 1
      /\ partial \in Choices /\ SetReads(partial, index - 1)
  BY <1>1, SetAt
<1>3. index - 1 = Len(a)
  BY <1>1, <1>2
<1>4. SetReads(partial, Len(a))
  BY <1>2, <1>3
<1>5. PICK op : op = [type |-> "set", key |-> a[2], value |-> a[3],
                      condition |-> partial.condition, expiry |-> partial.expiry,
                      milliseconds |-> partial.milliseconds]
  OBVIOUS
<1>6. Finish(Limited(op))
  BY <1>5 DEF LeaveSet
<1>7. SetMeans(Limited(op))
  BY <1>2, <1>4, <1>5, SetSucceeds
<1>8. Advertises(Limited(op))
  <2>1. Name \in DOMAIN SPECS /\ SPECS[Name] = OneKey(-3, TRUE)
    BY <1>2 DEF SPECS
  <2>2. C!operation_keys(op) = <<a[2]>> /\ TRUE = (op.type \in Changing)
    BY <1>5 DEF C!operation_keys, Changing
  <2>3. QED
    BY <1>2, <2>1, <2>2, OneKeyAdvertises
<1>9. Name # "hello"
  BY <1>2
<1>10. QED
  BY <1>6, <1>7, <1>8, <1>9, Finishes

\* A name that is not in the table, or the wrong number of arguments.
LEMMA StepLookup == IInv /\ Lookup => IInv'
<1> SUFFICES ASSUME IInv, Lookup PROVE IInv'
  OBVIOUS
<1>1. a \in Inputs /\ Len(a) \in Nat /\ Len(a) >= 1 /\ LookupError # None
  BY ArgumentIs DEF Lookup, IInv, Typed
<1>2. PICK code : code = LookupError
  OBVIOUS
<1>3. Finish(Failed(code))
  BY <1>2 DEF Lookup
<1>4. PICK arity : arity = SPECS[Name].arity
  OBVIOUS
<1>5. Name \in DOMAIN SPECS => \/ arity > 0 /\ Len(a) # arity
                               \/ arity < 0 /\ Len(a) < -arity
  BY <1>1, <1>4 DEF LookupError
<1>6. "set" \in DOMAIN SPECS /\ "hello" \in DOMAIN SPECS
  BY NamesAre
<1>7. ~(Name = "set" /\ Len(a) >= 3)
  BY <1>1, <1>4, <1>5, <1>6, LoopArities
<1>8. Name # "hello"
  BY <1>1, <1>4, <1>5, <1>6, LoopArities
<1>9. QED
  BY <1>3, <1>7, <1>8, FailureAdvertises, Finishes

\* A command without options.
LEMMA StepParseSimple == IInv /\ ParseSimple => IInv'
<1> SUFFICES ASSUME IInv, ParseSimple PROVE IInv'
  OBVIOUS
<1>1. a \in Inputs /\ LookupError = None /\ Name \notin {"set", "hello"} /\ Finish(Dispatch)
  BY DEF ParseSimple, IInv, Typed
<1>2. Advertises(Dispatch)
  BY <1>1, DispatchAdvertises
<1>3. PICK r : r = Dispatch
  OBVIOUS
<1>4. Finish(r) /\ Advertises(r) /\ Name # "set" /\ Name # "hello"
  BY <1>1, <1>2, <1>3
<1>5. QED
  BY <1>4, Finishes

\* Where nothing changes, the invariant stays.
LEMMA StepNothing == IInv /\ UNCHANGED vars => IInv'
<1> SUFFICES ASSUME IInv, UNCHANGED vars PROVE IInv'
  OBVIOUS
<1>1. a' = a /\ pc' = pc /\ index' = index /\ partial' = partial /\ result' = result
  BY DEF vars
<1>2. Typed' /\ HelloLoop'
  BY <1>1 DEF IInv, Typed, HelloLoop, HelloEnd, HelloWords, HelloReads, AuthAt, NameAt, Word,
              Version, Name
<1>3. SetLoop'
  BY <1>1 DEF IInv, SetLoop, Choices, Durations, Numerals, SetReads, ConditionAt, ExpiryAt, Word,
              Name
<1>4. SetMeansItsOptions'
  BY <1>1 DEF IInv, SetMeansItsOptions, Finished, Name
<1>5. HelloMeansItsOptions'
  BY <1>1 DEF IInv, HelloMeansItsOptions, Finished, Name
<1>6. KeysAsAdvertised'
  BY <1>1 DEF IInv, KeysAsAdvertised
<1>7. QED
  BY <1>2, <1>3, <1>4, <1>5, <1>6 DEF IInv

\* The invariant of the parser holds in every state it reaches.
THEOREM ParserInvariant == Spec => []IInv
<1>1. Init => IInv
  BY DEF Init, IInv, Typed, SetLoop, HelloLoop, SetMeansItsOptions, HelloMeansItsOptions,
         KeysAsAdvertised, Finished
<1>2. IInv /\ [Next]_vars => IInv'
  <2> SUFFICES ASSUME IInv, [Next]_vars PROVE IInv'
    OBVIOUS
  <2>1. CASE Lookup
    BY <2>1, StepLookup
  <2>2. CASE ParseSimple
    BY <2>2, StepParseSimple
  <2>3. CASE EnterSet
    BY <2>3, StepEnterSet
  <2>4. CASE SetCondition
    BY <2>4, StepSetCondition
  <2>5. CASE SetKeep
    BY <2>5, StepSetKeep
  <2>6. CASE SetExpiry
    BY <2>6, StepSetExpiry
  <2>7. CASE SetOther
    BY <2>7, StepSetOther
  <2>8. CASE LeaveSet
    BY <2>8, StepLeaveSet
  <2>9. CASE EnterHello
    BY <2>9, StepEnterHello
  <2>10. CASE HelloAuth
    BY <2>10, StepHelloAuth
  <2>11. CASE HelloName
    BY <2>11, StepHelloName
  <2>12. CASE HelloOther
    BY <2>12, StepHelloOther
  <2>13. CASE LeaveHello
    BY <2>13, StepLeaveHello
  <2>14. CASE Done
    BY <2>14, StepNothing DEF Done
  <2>15. CASE UNCHANGED vars
    BY <2>15, StepNothing
  <2>16. QED
    BY <2>1, <2>2, <2>3, <2>4, <2>5, <2>6, <2>7, <2>8, <2>9, <2>10, <2>11, <2>12, <2>13,
       <2>14, <2>15 DEF Next
<1>3. QED
  BY <1>1, <1>2, PTL DEF Spec

\* SET accepts exactly the options that have a meaning, and does what they say,
\* for every request and every limit.
THEOREM ParserSetMeansItsOptions == Spec => []SetMeansItsOptions
<1>1. IInv => SetMeansItsOptions
  BY DEF IInv
<1>2. QED
  BY <1>1, ParserInvariant, PTL

\* HELLO accepts exactly a version with credentials and a legal name at most once
\* each, in either order, and passes on what they say.
THEOREM ParserHelloMeansItsOptions == Spec => []HelloMeansItsOptions
<1>1. IInv => HelloMeansItsOptions
  BY DEF IInv
<1>2. QED
  BY <1>1, ParserInvariant, PTL

\* The keys of every command that parse accepts are the arguments COMMAND INFO
\* advertises, and so is whether it may change them.
THEOREM ParserKeysAsAdvertised == Spec => []KeysAsAdvertised
<1>1. IInv => KeysAsAdvertised
  BY DEF IInv
<1>2. QED
  BY <1>1, ParserInvariant, PTL
=============================================================================
