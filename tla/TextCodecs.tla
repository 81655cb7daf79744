------------------------------- MODULE TextCodecs ------------------------------
(***************************************************************************)
(* The encodings of jni/cpp/tcutil.c: URL, Base64, quoted-printable, MIME, *)
(* hexadecimal, Packbits, BER, and the escapes of XML, C and JSON.         *)
(***************************************************************************)
EXTENDS CStrings, TLC

CONSTANTS
  MaxStep,     \* 0x7f, the longest step of Packbits
  GroupBits,   \* 7, the bits of a number in a byte of BER
  SignedChar,  \* the type char of the build is signed
  EncName      \* the name of an encoding in a MIME word

ASSUME TextCodecsAssumption ==
  /\ MaxStep \in 2 .. 127 /\ GroupBits \in 1 .. 7 /\ SignedChar \in BOOLEAN
  /\ EncName \in Seq(1 .. 255)

Bytes == 0 .. 255

Upper(n) == IF n < 10 THEN 48 + n ELSE 55 + n
Lower(n) == IF n < 10 THEN 48 + n ELSE 87 + n

Hex2(c) == <<Upper(c \div 16), Upper(c % 16)>>

\* Each byte by itself.
Each(t, code) == FlattenSeq([i \in DOMAIN t |-> code[t[i]]])

---------------------------------------------------------------------------
(* URL encoding *)

\* Letters, digits, and _ - . ! ~ * ' ( )
Unreserved(c) ==
  IsUpper(c) \/ IsLower(c) \/ IsDigit(c) \/ c \in {95, 45, 46, 33, 126, 42, 39, 40, 41}

UrlEncode(t) ==
  Each(t, [c \in Range(t) |-> IF Unreserved(c) THEN <<c>> ELSE <<Ch.percent>> \o Hex2(c)])

\* A percent sign without two digits ends the text.
RECURSIVE UrlDecode(_)
UrlDecode(s) ==
  IF s = <<>> THEN <<>>
  ELSE IF s[1] # Ch.percent
  THEN <<IF s[1] = Ch.plus THEN Ch.space ELSE s[1]>> \o UrlDecode(From(s, 2))
  ELSE IF IsHexDigit(At(s, 2)) /\ IsHexDigit(At(s, 3))
  THEN <<16 * HexVal(s[2]) + HexVal(s[3])>> \o UrlDecode(From(s, 4)) ELSE <<>>

---------------------------------------------------------------------------
(* Base64 *)

BaseChars == [n \in 0 .. 63 |-> IF n < 26 THEN 65 + n ELSE IF n < 52 THEN 71 + n
                                ELSE IF n < 62 THEN n - 4
                                ELSE IF n = 62 THEN Ch.plus ELSE Ch.slash]

BaseGroup(a, b, c, size) ==
  <<BaseChars[a \div 4], BaseChars[(a % 4) * 16 + (b \div 16)],
    IF size > 1 THEN BaseChars[(b % 16) * 4 + (c \div 64)] ELSE Ch.equals,
    IF size > 2 THEN BaseChars[c % 64] ELSE Ch.equals>>

RECURSIVE BaseEncode(_)
BaseEncode(t) ==
  IF t = <<>> THEN <<>>
  ELSE BaseGroup(t[1], At(t, 2), At(t, 3), Len(t)) \o BaseEncode(From(t, 4))

IsBase(c) == c = Ch.equals \/ c \in Range(BaseChars)

BaseVal(c) == IF c = Ch.equals THEN 0 ELSE CHOOSE n \in 0 .. 63 : BaseChars[n] = c

Padding(group) == Len(SelectSeq(group, LAMBDA c : c = Ch.equals))

\* The number that characters of six bits stand for, as three bytes.
ThreeBytes(group) ==
  LET bits == FoldLeft(LAMBDA n, c : 64 * n + BaseVal(c), 0, group)
  IN <<(bits \div 65536) % 256, (bits \div 256) % 256, bits % 256>>

\* A group of fewer than four characters is not made up for.
BaseBytes(group) ==
  IF Padding(group) > 2 THEN <<>> ELSE First(ThreeBytes(group), 3 - Padding(group))

\* The first group with a `=' is the last.
RECURSIVE BaseGroups(_)
BaseGroups(s) ==
  LET group == First(s, Min({4, Len(s)}))
  IN IF s = <<>> THEN <<>>
     ELSE BaseBytes(group) \o IF Padding(group) > 0 THEN <<>> ELSE BaseGroups(From(s, 5))

\* Other characters are skipped.
BaseDecode(s) == BaseGroups(SelectSeq(s, IsBase))

---------------------------------------------------------------------------
(* Quoted-printable and MIME words *)

Quotable(c) == c = Ch.equals \/ c > 126 \/ (c < 32 /\ c \notin {Ch.cr, Ch.lf, Ch.tab})

QuoteEncode(t) ==
  Each(t, [c \in Range(t) |-> IF Quotable(c) THEN <<Ch.equals>> \o Hex2(c) ELSE <<c>>])

\* What the code makes of a character that it takes for a digit.
LooseVal(c) == IF IsUpper(c) \/ IsLower(c) THEN HexVal(c) ELSE c - 48

QuotedByte(high, low) == (16 * LooseVal(high) + LooseVal(low)) % 256

\* A `=' before the end of a line joins the lines.
RECURSIVE QuoteDecode(_)
QuoteDecode(s) ==
  IF s = <<>> THEN <<>>
  ELSE IF s[1] # Ch.equals THEN <<s[1]>> \o QuoteDecode(From(s, 2))
  ELSE IF Len(s) = 1 THEN <<>>
  ELSE IF s[2] = Ch.cr /\ At(s, 3) = Ch.lf THEN QuoteDecode(From(s, 4))
  ELSE IF s[2] \in {Ch.cr, Ch.lf} THEN QuoteDecode(From(s, 3))
  ELSE IF Len(s) = 2 THEN <<>>
  ELSE <<QuotedByte(s[2], s[3])>> \o QuoteDecode(From(s, 4))

MimeEncode(t, base) ==
  <<Ch.equals, Ch.question>> \o EncName
    \o <<Ch.question, IF base THEN 66 ELSE 81, Ch.question>>
    \o (IF base THEN BaseEncode(t) ELSE QuoteEncode(t)) \o <<Ch.question, Ch.equals>>

\* The index of the first question mark from i on, or 0.
NextMark(s, i) == LET marks == {j \in i .. Len(s) : s[j] = Ch.question}
                  IN IF marks = {} THEN 0 ELSE Min(marks)

\* What a string is for C: it ends at the first zero byte.
AsCString(t) == First(t, Span(t, 1 .. 255))

\* A word without its end loses its beginning.
RECURSIVE MimeDecode(_)
MimeDecode(s) ==
  LET name == NextMark(s, 3)
      start == Min({name + 3, Len(s) + 1})
      end == NextMark(s, start)
      word == SubSeq(s, start, end - 1)
      quoted == At(s, name + 1) \in {81, 113}
  IN IF s = <<>> THEN <<>>
     ELSE IF ~(s[1] = Ch.equals /\ At(s, 2) = Ch.question) THEN <<s[1]>> \o MimeDecode(From(s, 2))
     ELSE IF name = 0 \/ end = 0 THEN MimeDecode(From(s, 3))
     ELSE AsCString(IF quoted THEN QuoteDecode(word) ELSE BaseDecode(word))
            \o MimeDecode(From(s, end + 2))

---------------------------------------------------------------------------
(* Hexadecimal *)

HexEncode(t) == Each(t, [c \in Range(t) |-> <<Lower(c \div 16), Lower(c % 16)>>])

\* A byte that is no digit counts for 0, or leaves the first digit as it is.
HexByte(s) ==
  LET high == IF IsHexDigit(s[1]) THEN HexVal(s[1]) ELSE 0
  IN IF IsHexDigit(s[2]) THEN high * 16 + HexVal(s[2]) ELSE high

\* Spaces before a pair are skipped; the string does not end in one.  A digit
\* without its second is dropped.
RECURSIVE HexDecode(_)
HexDecode(str) ==
  LET s == SkipSpaces(str)
  IN IF Len(s) < 2 THEN <<>> ELSE <<HexByte(s)>> \o HexDecode(From(s, 3))

---------------------------------------------------------------------------
(* Packbits.  A number and a byte stand for so many of that byte, and a    *)
(* negative number for so many bytes that follow.                          *)

\* How many equal bytes the text begins with, a step at most.
RunLength(t) == Min({Span(t, {t[1]}), MaxStep})

\* How many bytes, each different from the one before: the last of them is left
\* to a run if the next one equals it.
PlainLength(t) ==
  LET equal == {i \in 1 .. Len(t) - 1 : t[i] = t[i + 1]}
      n == Min(equal \cup {Len(t), MaxStep})
  IN IF n < Len(t) /\ t[n] = t[n + 1] THEN n - 1 ELSE n

\* Mutant: the byte that is left to a run is written as well.
PackStepLong(t) ==
  LET n == PlainLength(t)
  IN IF RunLength(t) > 1 \/ Len(t) = 1
     THEN [step |-> RunLength(t), code |-> <<RunLength(t), t[1]>>]
     ELSE [step |-> n, code |-> <<IF n = 1 THEN 1 ELSE 256 - n>> \o First(t, Min({n + 1, Len(t)}))]

PackStep(t) ==
  LET n == PlainLength(t)
  IN IF RunLength(t) > 1 \/ Len(t) = 1
     THEN [step |-> RunLength(t), code |-> <<RunLength(t), t[1]>>]
     ELSE [step |-> n, code |-> <<IF n = 1 THEN 1 ELSE 256 - n>> \o First(t, n)]

RECURSIVE PackEncode(_)
PackEncode(t) ==
  IF t = <<>> THEN <<>> ELSE PackStep(t).code \o PackEncode(From(t, PackStep(t).step + 1))

\* A byte as the C code reads it from a pointer to char.
AsChar(c) == IF SignedChar /\ c > 127 THEN c - 256 ELSE c

RECURSIVE PackDecode(_)
PackDecode(s) ==
  LET step == AsChar(s[1])
      n == Min({-step, Len(s) - 1})
  IN IF s = <<>> THEN <<>>
     ELSE IF step >= 0 THEN [i \in 1 .. step |-> At(s, 2)] \o PackDecode(From(s, 3))
     ELSE SubSeq(s, 2, n + 1) \o PackDecode(From(s, n + 2))

---------------------------------------------------------------------------
(* BER: the groups of a number, all but the last marked by the highest bit *)

Group == 2^GroupBits

BerGroups(num) == LET top == CHOOSE n \in 0 .. 4 : num < Group^(n + 1) /\ (n > 0 => num >= Group^n)
                  IN [i \in 1 .. top + 1 |-> (num \div Group^(top + 1 - i)) % Group]

BerMarked(groups) ==
  [i \in DOMAIN groups |-> IF i < Len(groups) THEN groups[i] + Group ELSE groups[i]]

BerEncode(nums) == FlattenSeq([i \in DOMAIN nums |-> BerMarked(BerGroups(nums[i]))])

BerStep(s, c) ==
  LET num == s.num * Group + (c % Group)
  IN IF c >= Group THEN [s EXCEPT !.num = num]
     ELSE [nums |-> Append(s.nums, num), num |-> 0]

\* A number cut off is kept as far as it goes.
BerDecode(s) ==
  LET read == FoldLeft(BerStep, [nums |-> <<>>, num |-> 0], s)
  IN IF s # <<>> /\ Last(s) >= Group THEN Append(read.nums, read.num) ELSE read.nums

---------------------------------------------------------------------------
(* XML *)

\* &amp; &lt; &gt; &quot;
Entity(c) ==
  CASE c = Ch.amp -> <<38, 97, 109, 112, 59>>
    [] c = Ch.less -> <<38, 108, 116, 59>>
    [] c = Ch.greater -> <<38, 103, 116, 59>>
    [] c = Ch.quote -> <<38, 113, 117, 111, 116, 59>>
    [] OTHER -> <<c>>

XmlEscape(s) == FlattenSeq([i \in DOMAIN s |-> Entity(s[i])])

RECURSIVE XmlUnescape(_)
XmlUnescape(s) ==
  LET named == {c \in {Ch.amp, Ch.less, Ch.greater, Ch.quote} : StrFwm(s, Entity(c))}
      c == IF named = {} THEN s[1] ELSE CHOOSE n \in named : TRUE
  IN IF s = <<>> THEN <<>>
     ELSE <<c>> \o XmlUnescape(From(s, IF named = {} THEN 2 ELSE Len(Entity(c)) + 1))

---------------------------------------------------------------------------
(* Backslashes *)

Escaped(c) == c < 32 \/ c \in {Ch.del, Ch.quote, Ch.apostrophe, Ch.backslash}

\* \t \n \r and the backslash itself
Short == 9 :> 116 @@ 10 :> 110 @@ 13 :> 114 @@ 92 :> 92

\* Mutant: a digit behind a \x escape stands for itself.
CEscapeStepPlain(s, c) ==
  IF c \in DOMAIN Short THEN [s EXCEPT !.out = @ \o <<92, Short[c]>>]
  ELSE IF Escaped(c)
  THEN [out |-> s.out \o <<92, 120>> \o Hex2(c), hex |-> TRUE]
  ELSE [out |-> Append(s.out, c), hex |-> FALSE]

\* A digit behind a \x escape is written as one: it would be taken to belong to
\* that by a C compiler.
CEscapeStep(s, c) ==
  IF c \in DOMAIN Short THEN [s EXCEPT !.out = @ \o <<92, Short[c]>>]
  ELSE IF Escaped(c) \/ (s.hex /\ IsHexDigit(c))
  THEN [out |-> s.out \o <<92, 120>> \o Hex2(c), hex |-> TRUE]
  ELSE [out |-> Append(s.out, c), hex |-> FALSE]

CEscape(s) == FoldLeft(CEscapeStep, [out |-> <<>>, hex |-> FALSE], s).out

JsonEscape(s) ==
  Each(s, [c \in Range(s) |-> IF c \in DOMAIN Short THEN <<92, Short[c]>>
                              ELSE IF Escaped(c) THEN <<92, 117, 48, 48>> \o Hex2(c) ELSE <<c>>])

\* \a \b \t \n \v \f \r
Control == 97 :> 7 @@ 98 :> 8 @@ 116 :> 9 @@ 110 :> 10 @@ 118 :> 11 @@ 102 :> 12 @@ 114 :> 13

\* The digits of an escape, so many at most.
Reach(s, digits, max) == Min({Span(s, digits), max})

\* What the escape behind a backslash stands for, and how long it is.
Unescaped(s) ==
  LET c == s[1]
      max == CASE c = 120 -> 2 [] c = 117 -> 4 [] OTHER -> 8
      n == Reach(From(s, 2), HexDigits, max)
      o == Reach(s, 48 .. 55, 3)
      hex == Number(SubSeq(s, 2, n + 1), 16)
  IN CASE c \in DOMAIN Control -> [out |-> <<Control[c]>>, used |-> 1]
       [] c = 120 -> [out |-> <<hex>>, used |-> n + 1]
       [] c \in {117, 85} -> [out |-> UtfChar(hex % 65536), used |-> n + 1]
       [] c \in 48 .. 56 -> [out |-> <<Number(First(s, o), 8) % 256>>, used |-> o]
       [] OTHER -> [out |-> <<c>>, used |-> 1]

\* The C code reads the same escapes for C and for JSON.
RECURSIVE CUnescape(_)
CUnescape(s) ==
  LET e == Unescaped(From(s, 2))
  IN IF s = <<>> THEN <<>>
     ELSE IF s[1] # Ch.backslash \/ Len(s) = 1 THEN <<s[1]>> \o CUnescape(From(s, 2))
     ELSE e.out \o CUnescape(From(s, e.used + 2))
=============================================================================
