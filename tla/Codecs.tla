---------------------------------- MODULE Codecs -------------------------------
(***************************************************************************)
(* The strings, codecs and formats of jni/cpp/tcutil.c, and the forms the  *)
(* program gives values and images, on every text of an alphabet.  They    *)
(* keep no state: a behaviour makes a text piece by piece, and the         *)
(* properties say what the functions do with it.  Each is a conjunction of *)
(* named parts.                                                            *)
(***************************************************************************)
EXTENDS Formats, Dates, BlockSort, ValueCodecs

CONSTANTS
  Pieces,  \* of each kind of text, what it is made of
  MaxLen   \* bound: so many pieces make a text

ASSUME CodecsAssumption ==
  /\ DOMAIN MaxLen = DOMAIN Pieces /\ Range(MaxLen) \subseteq Nat
  /\ \A kind \in DOMAIN Pieces : Pieces[kind] \subseteq Seq(Int)

VARIABLES kind, text, num

vars == <<kind, text, num>>

Init == kind \in DOMAIN Pieces /\ text = <<>> /\ num = 0

Write == \E p \in Pieces[kind] : /\ num < MaxLen[kind] /\ num' = num + 1
                                 /\ text' = text \o p /\ UNCHANGED kind

Finished == num = MaxLen[kind] /\ UNCHANGED vars

Next == Write \/ Finished

Spec == Init /\ [][Next]_vars

---------------------------------------------------------------------------
(* Bytes *)

\* Whatever bytes a text has, decoding what was encoded gives it back, in the
\* size the code makes room for: tcurlencode, tcbaseencode, tcquoteencode and
\* tchexencode, blanks between the digits of the latter left out.
BytesUndone ==
  kind = "bytes" =>
    /\ UrlDecode(UrlEncode(text)) = text
    /\ BaseDecode(BaseEncode(text)) = text
    /\ Len(BaseEncode(text)) <= 4 * ((Len(text) + 2) \div 3)
    /\ QuoteDecode(QuoteEncode(text)) = text
    /\ HexDecode(HexEncode(text)) = text
    /\ HexDecode(Join([i \in DOMAIN text |-> HexEncode(<<text[i]>>)], Ch.space)) = text

\* A word that tcmimeencode makes is one that tcmimedecode gives back, wherever
\* it stands; with quoted-printable only if it has no question mark.
MimeUndone ==
  kind = "bytes" /\ 0 \notin Range(text) =>
    \A base \in BOOLEAN :
      (base \/ Ch.question \notin Range(text)) =>
        MimeDecode(<<97>> \o MimeEncode(text, base) \o <<98>>) = <<97>> \o text \o <<98>>

\* tcpackdecode gives back what tcpackencode packed, runs and others, in no
\* more than the two bytes for each that the code makes room for.
PackUndone ==
  kind = "runs" => /\ PackDecode(PackEncode(text)) = text
                   /\ Len(PackEncode(text)) <= 2 * Len(text)

\* Numbers of every length come back from tcberencode, and what was cut off in
\* the middle of a number does not disturb those before (tcberdecode).
BerUndone ==
  kind = "nums" =>
    LET code == BerEncode(text)
    IN /\ BerDecode(code) = text
       /\ \A n \in 0 .. Len(code) :
            LET nums == BerDecode(First(code, n))
            IN \E m \in {Len(nums) - 1, Len(nums)} : First(nums, m) = First(text, m)

\* What comes out of tcbsencode is compressed without loss, unit by unit.
BsUndone == kind = "block" => BsDecode(BsEncode(text)) = text

\* The index tcbwtencode gives with a text leads tcbwtdecode back to it.
BwtUndone ==
  kind = "block" => LET b == BwtEncode(text) IN BwtDecode(b.text, b.idx) = text

\* Counting, inserting and heaping leave all the rotations in order, from
\* wherever the counting starts (tcbwtsortstrcount and the others).
RotationsSorted ==
  kind = "block" =>
    \A level \in {-1, 0} :
      LET array == Rotations(text, level)
      IN /\ Range(array) = 0 .. Len(text) - 1 /\ Len(array) = Len(text)
         /\ \A i \in 1 .. Len(array) - 1 :
              Order(Rotation(text, array[i]), Rotation(text, array[i + 1])) <= 0

\* No encoder loses a byte, at any boundary of its own.
BytesRestored == BytesUndone /\ MimeUndone /\ PackUndone /\ BerUndone

\* Block sorting loses nothing and sorts what it says (tcbsencode and below).
BlocksRestored == BsUndone /\ BwtUndone /\ RotationsSorted

---------------------------------------------------------------------------
(* Escapes *)

\* What a compiler of C makes of an escaped string: all the digits behind a \x
\* belong to it.
RECURSIVE CompilerReads(_)
CompilerReads(s) ==
  LET n == Span(From(s, 3), HexDigits)
      e == Unescaped(From(s, 2))
  IN IF s = <<>> THEN <<>>
     ELSE IF s[1] # Ch.backslash THEN <<s[1]>> \o CompilerReads(From(s, 2))
     ELSE IF At(s, 2) = 120
     THEN <<Number(SubSeq(s, 3, n + 2), 16)>> \o CompilerReads(From(s, n + 3))
     ELSE e.out \o CompilerReads(From(s, e.used + 2))

\* An escaped string means what it was made from, to tccstrunescape as to a
\* compiler of C: a digit behind an escape is not taken for a part of it
\* (tccstrescape).
CEscapesUndone ==
  kind = "string" => /\ CUnescape(CEscape(text)) = text
                     /\ CompilerReads(CEscape(text)) = text

\* The same holds of JSON and of XML (tcjsonescape, tcxmlescape): an ampersand
\* or a backslash that was there before is not read as the beginning of one.
EscapesUndone ==
  kind = "string" => /\ CUnescape(JsonEscape(text)) = text
                     /\ XmlUnescape(XmlEscape(text)) = text

\* Every attribute of a tag is found with its value, whatever characters it has
\* and how it is quoted (tcxmlattrs).
AttrsUndone ==
  kind = "string" =>
    LET val == <<97, 61>> \o <<Ch.quote>> \o XmlEscape(text) \o <<Ch.quote>>
        single == <<98, 61>> \o <<Ch.apostrophe, 99, Ch.apostrophe>>
    IN \A end \in {<<>>, <<Ch.slash>>} :
         XmlAttrs(<<Ch.less, 116, 32>> \o val \o <<32>> \o single \o end \o <<Ch.greater>>)
           = << <<(<<>>), <<116>> >>, << <<97>>, text>>, << <<98>>, <<99>> >> >>

Within(s, open, close) ==
  \A i \in DOMAIN s : StrFwm(From(s, i), open) => Find(From(s, i), close) > 0

\* tcxmlbreak leaves nothing out and repeats nothing, if what is opened is
\* closed: tags end where they end, and no `<' is outside a tag.
XmlWhole ==
  kind = "xml" /\ Within(text, CommentOpen, CommentClose) /\ Within(text, Cdata, CdataClose) =>
    LET sections == XmlBreak(text)
    IN /\ Find(text, Cdata) = 0 => FlattenSeq(sections) = text
       /\ \A i \in DOMAIN sections :
            IF sections[i][1] = Ch.less
            THEN Last(sections[i]) = Ch.greater \/ i = Len(sections)
            ELSE Ch.less \notin Range(sections[i])

\* Nothing in a text is taken for markup, and no markup for text.
MarkupRestored == CEscapesUndone /\ EscapesUndone /\ AttrsUndone /\ XmlWhole

---------------------------------------------------------------------------
(* Strings *)

\* Every code of two bytes comes back from UTF-8, characters are counted and a
\* text is cut between two of them (tcstrutftoucs, tcstrucstoutf, tcstrcututf).
UtfUndone ==
  kind = "ucs" =>
    LET utf == UcsToUtf(text)
    IN /\ UtfToUcs(utf) = text /\ CountUtf(utf) = Len(text)
       /\ \A n \in 0 .. Len(text) : CutUtf(utf, n) = UcsToUtf(First(text, n))

Comma == 44

QuoteWord(w) ==
  <<Ch.quote>>
    \o FlattenSeq([i \in DOMAIN w |-> IF w[i] \in {Ch.quote, Ch.backslash}
                                      THEN <<Ch.backslash, w[i]>> ELSE <<w[i]>>])
    \o <<Ch.quote>>

\* What tcstrsplit takes apart tcstrjoin puts together; the records of
\* tcstrsplit3 do not get lost if their keys differ; and tcstrtokenize finds
\* quoted words whatever characters they have.
SplitUndone ==
  kind = "line" =>
    LET parts == Split(text, {Comma})
        keys == {i \in DOMAIN parts : i % 2 = 1}
    IN /\ Join(parts, Comma) = text
       /\ (Len(parts) % 2 = 0 /\ \A i, j \in keys : parts[i] = parts[j] => i = j) =>
            JoinRecords(SplitRecords(text, {Comma}), Comma) = text
       /\ Tokenize(Join([i \in DOMAIN parts |-> QuoteWord(parts[i])], Ch.space)) = parts

WordsOf(s) == SelectSeq(Split(s, Spaces), LAMBDA w : w # <<>>)

\* tcstrsqzspc keeps the words of a text, with one space between each two and
\* none around them.
SqueezeWords ==
  kind = "line" =>
    LET s == Squeeze(text)
    IN /\ WordsOf(s) = WordsOf(text)
       /\ s # <<>> => ~IsSpace(s[1]) /\ ~IsSpace(Last(s))
       /\ \A i \in 1 .. Len(s) - 1 : ~(IsSpace(s[i]) /\ IsSpace(s[i + 1]))

\* The fewest bytes to insert, delete or replace.
RECURSIVE Distance(_, _)
Distance(a, b) ==
  IF a = <<>> THEN Len(b) ELSE IF b = <<>> THEN Len(a)
  ELSE IF a[1] = b[1] THEN Distance(Tail(a), Tail(b))
  ELSE 1 + Min({Distance(Tail(a), b), Distance(a, Tail(b)), Distance(Tail(a), Tail(b))})

\* The table of tcstrdist gives the edit distance of the parts it looks at.
DistRight ==
  kind = "pair" =>
    \A n \in 0 .. Len(text) :
      LET a == First(text, n)  b == From(text, n + 1)
      IN StrDist(a, b) = Distance(First(a, Min({Len(a), DistMax})), First(b, Min({Len(b), DistMax})))

\* The number a key stands for, in units of 10^-4.
Value(key) == Decimal(key).num * 10^4 + Fraction(Decimal(key))

\* tccmpdecimal orders keys by the numbers they stand for, and keys of one
\* number in one order, so that a tree of them has each key in one place.
DecimalRight ==
  kind = "decimal" =>
    \A n \in 0 .. Len(text) :
      LET a == First(text, n)  b == From(text, n + 1)
      IN /\ Value(a) # Value(b) => CmpDecimal(a, b) = Compare(Value(a), Value(b))
         /\ CmpDecimal(a, b) = 0 <=> a = b
         /\ Compare(CmpDecimal(a, b), 0) = -Compare(CmpDecimal(b, a), 0)

\* What is computed of strings is what its definition says.
StringsRight == UtfUndone /\ SplitUndone /\ SqueezeWords /\ DistRight /\ DecimalRight

---------------------------------------------------------------------------
(* Forms and dates *)

\* A form that tcwwwformencode writes is the one that tcwwwformdecode reads,
\* whatever characters its keys and values have; values of one key, given one
\* by one, come together in their order.
FormUndone ==
  kind = "form" =>
    LET recs == SplitRecords(text, {0})
        once == FormEncode(recs)
    IN /\ FormDecode(once) = recs
       /\ FormDecode(once \o <<Ch.amp>> \o once)
            = [i \in DOMAIN recs |-> <<recs[i][1], recs[i][2] \o <<0>> \o recs[i][2]>>]

Line(s) == s \o <<Ch.cr, Ch.lf>>

\* A part of a form, as a browser sends it.
Part(name, val, how) ==
  Line(Words["disposition"] \o <<Colon, 32, 102, Ch.semicolon, 32>> \o Words["name"]
         \o <<Ch.quote, name, Ch.quote>>)
  \o (IF how = "plain" THEN <<>> ELSE Line(Words["encoding"] \o <<Colon, 32>> \o Words[how]))
  \o Line(<<>>)
  \o (CASE how = "plain" -> val [] how = "base64" -> BaseEncode(val)
        [] how = "quoted" -> QuoteEncode(val))

Mark(boundary) == <<Ch.minus, Ch.minus, boundary>>

\* The fields of a form in parts are found with their values, line breaks at
\* their ends included, if none is empty (tcwwwformdecode2, tcmimeparts,
\* tcmimebreak).
PartsUndone ==
  kind = "parts" =>
    \A n \in 1 .. Len(text) - 1, how \in {"plain", "base64", "quoted"} :
      LET a == First(text, n)  b == From(text, n + 1)
      IN FormParts(Line(Mark(66)) \o Line(Part(120, a, "plain")) \o Line(Mark(66))
                     \o Line(Part(121, b, how)) \o Mark(66) \o Line(<<Ch.minus, Ch.minus>>), <<66>>)
           = << << <<120>>, a>>, << <<121>>, b>> >>

Jls == {0, 32400, 19800, -12600, -18000, 86340, -60}

Lags == {0, 32400, -18000}
Secs == {0, 59, 11647, 11648, 43201, 74751, 74752, 86399}

\* A time that a time_t of 4 bytes holds, in UTC, in the zone of the date and in
\* the zone of the process, comes back from the dates of both formats in every
\* zone of whole minutes, in the years they can write; one that UTC does not hold
\* comes back a multiple of 2^32 seconds away.  The weekday printed is that of the
\* day (tcdatestrwww, tcdatestrhttp, tcstrmktime, tcdayofweek).
DatesUndone ==
  kind = "date" /\ text # <<>> =>
    \A sec \in Secs, jl \in Jls, lag \in Lags :
      LET t == <<text[1], sec>>  kept == TimeT(t)
          www == DateStrWww(t, jl)  http == DateStrHttp(t, jl)
          local == Normal(kept[1], kept[2] + jl)
      IN Held(local) /\ Held(Normal(kept[1], kept[2] - lag)) =>
           /\ MkTimeWww(www, lag) = kept
           /\ http.year >= 1969 => MkTimeHttp(http, lag) = kept
           /\ http.wday = (4 + local[1]) % 7

\* Forms and dates are read as they were written.
FormsRestored == FormUndone /\ PartsUndone /\ DatesUndone

---------------------------------------------------------------------------
(* Values and images *)

Keys == {<<97, 98, 99>>, <<254, 128, 1, 7>>}
Behinds == {<<0>>, <<5, 200, 0>>}

\* What is stored under a key of CRY_KEYLEN bytes or more is read again, with
\* or without compression, whatever its length and whatever stands behind the
\* key in memory when it is written and when it is read (mStore.cpp, encrypt
\* and decrypt; com_yoson_cache_CacheStorage.cpp, which hands over the key).
ValueUndone ==
  kind = "value" /\ text # <<>> =>
    \A key \in Keys, b1, b2 \in Behinds, isCmp \in BOOLEAN :
      DeSerializeValue(SerializeValue(text, 0, isCmp, UsedKey(key, b1)), UsedKey(key, b2)) = text

Again(r) == ParseValueUserData(JoinValueUserData(r.value, r.userData))

\* An image that is read and written again, and again, keeps its picture, and
\* its user data begin with what they were (ImageCache.java).
ImageUndone ==
  kind = "value" =>
    \A n \in 0 .. Len(text) :
      LET r == [userData |-> First(text, n), value |-> From(text, n + 1)]
          twice == Again(Again(r))
      IN twice.value = r.value /\ IsPrefix(r.userData, twice.userData)

\* What the program stores it reads again.
RecordsRestored == ValueUndone /\ ImageUndone
=============================================================================
