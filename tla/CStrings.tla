-------------------------------- MODULE CStrings -------------------------------
(***************************************************************************)
(* The string functions of jni/cpp/tcutil.c.  A string is a sequence of    *)
(* bytes, numbers in ASCII where they are letters; the zero byte that ends *)
(* a C string is not part of it.  A number is an integer of TLC, so that   *)
(* strings of digits are kept short.                                       *)
(***************************************************************************)
EXTENDS Integers, Sequences, FiniteSets, SequencesExt, FiniteSetsExt

CONSTANT DistMax  \* TCDISTMAXLEN, the part of a string whose distance is measured

ASSUME CStringsAssumption == DistMax \in Nat \ {0}

Ch == [tab |-> 9, lf |-> 10, cr |-> 13, space |-> 32, quote |-> 34, percent |-> 37,
       amp |-> 38, apostrophe |-> 39, plus |-> 43, minus |-> 45, dot |-> 46, slash |-> 47,
       semicolon |-> 59, less |-> 60, equals |-> 61, greater |-> 62, question |-> 63,
       backslash |-> 92, del |-> 127]

IsUpper(c) == c \in 65 .. 90
IsLower(c) == c \in 97 .. 122
IsDigit(c) == c \in 48 .. 57
IsHexDigit(c) == IsDigit(c) \/ c \in 65 .. 70 \cup 97 .. 102
IsSpace(c) == c \in 1 .. 32

\* The byte at i, or the zero that ends the string.
At(s, i) == IF i \in DOMAIN s THEN s[i] ELSE 0

From(s, i) == SubSeq(s, i, Len(s))

First(s, n) == SubSeq(s, 1, n)

\* How many bytes from the front on are in the set.
Span(s, set) == LET others == {i \in DOMAIN s : s[i] \notin set}
                IN IF others = {} THEN Len(s) ELSE Min(others) - 1

Spaces == 1 .. 32
Digits == 48 .. 57

SkipSpaces(s) == From(s, Span(s, Spaces) + 1)

---------------------------------------------------------------------------
(* Letters *)

ToUpper(s) == [i \in DOMAIN s |-> IF IsLower(s[i]) THEN s[i] - 32 ELSE s[i]]
ToLower(s) == [i \in DOMAIN s |-> IF IsUpper(s[i]) THEN s[i] + 32 ELSE s[i]]

\* What both begin with ends where they differ.
Common(a, b) == LET differ == {i \in DOMAIN a \cap DOMAIN b : a[i] # b[i]}
                IN IF differ = {} THEN Len(a) ELSE Min(differ) - 1

\* The bytes as the C library orders them, a prefix before what it begins.
CmpLexical(a, b) ==
  LET i == Common(a, b) + 1
  IN IF i \in DOMAIN a /\ i \in DOMAIN b THEN a[i] - b[i] ELSE Len(a) - Len(b)

\* 1 and -1 stand for the end of one of them.
StrICmp(a, b) ==
  LET i == Common(ToLower(a), ToLower(b)) + 1
  IN IF i \notin DOMAIN a THEN IF i \notin DOMAIN b THEN 0 ELSE -1
     ELSE IF i \notin DOMAIN b THEN 1 ELSE ToLower(a)[i] - ToLower(b)[i]

StrFwm(s, key) == IsPrefix(key, s)
StrIFwm(s, key) == IsPrefix(ToLower(key), ToLower(s))
StrBwm(s, key) == IsSuffix(key, s)
StrIBwm(s, key) == IsSuffix(ToLower(key), ToLower(s))

---------------------------------------------------------------------------
(* Spaces and characters *)

RECURSIVE CutTail(_)
CutTail(s) == IF s # <<>> /\ IsSpace(Last(s)) THEN CutTail(Front(s)) ELSE s

Trim(s) == CutTail(SkipSpaces(s))

\* Of the spaces behind a word the first is kept.
Squeeze(s) ==
  CutTail(FoldLeftDomain(LAMBDA out, i : IF IsSpace(s[i]) /\ (i = 1 \/ IsSpace(s[i - 1]))
                                         THEN out ELSE Append(out, s[i]), <<>>, s))

\* The characters of rstr are replaced by those of sstr, or left out.
SubChr(s, rstr, sstr) ==
  FoldLeft(LAMBDA out, c : IF c \notin Range(rstr) THEN Append(out, c)
                           ELSE LET i == SelectInSeq(rstr, LAMBDA r : r = c)
                                IN IF i > Len(sstr) THEN out ELSE Append(out, sstr[i]),
           <<>>, s)

Split(s, delims) ==
  FoldLeft(LAMBDA parts, c : IF c \in delims THEN Append(parts, <<>>)
                             ELSE [parts EXCEPT ![Len(parts)] = Append(@, c)], << <<>> >>, s)

Join(parts, delim) ==
  FoldLeftDomain(LAMBDA s, i : (IF i > 1 THEN Append(s, delim) ELSE s) \o parts[i], <<>>, parts)

\* Keys and values in turn, a key in the place it was first stored at; a key
\* without a value is left out.
Records(parts) ==
  FoldLeft(LAMBDA recs, r :
             IF \E j \in DOMAIN recs : recs[j][1] = r[1]
             THEN [j \in DOMAIN recs |-> IF recs[j][1] = r[1] THEN r ELSE recs[j]]
             ELSE Append(recs, r),
           <<>>, [i \in 1 .. Len(parts) \div 2 |-> <<parts[2 * i - 1], parts[2 * i]>>])

SplitRecords(s, delims) == Records(Split(s, delims))

JoinRecords(recs, delim) == Join(FlattenSeq(recs), delim)

\* The text up to the next quote, a byte behind a backslash taken as it is.
RECURSIVE Quoted(_)
Quoted(s) ==
  IF s = <<>> THEN [text |-> <<>>, rest |-> <<>>]
  ELSE IF s[1] = Ch.quote THEN [text |-> <<>>, rest |-> From(s, 2)]
  ELSE LET n == IF s[1] = Ch.backslash THEN 2 ELSE 1
           more == Quoted(From(s, n + 1))
       IN [text |-> SubSeq(s, n, n) \o more.text, rest |-> more.rest]

\* Words and quoted texts; the string does not end in a space.
RECURSIVE Tokenize(_)
Tokenize(str) ==
  LET s == SkipSpaces(str)
      q == Quoted(From(s, 2))
      n == Span(s, 33 .. 255)
  IN IF s = <<>> THEN <<>>
     ELSE IF s[1] = Ch.quote THEN <<q.text>> \o Tokenize(q.rest)
     ELSE <<First(s, n)>> \o Tokenize(From(s, n + 2))

---------------------------------------------------------------------------
(* UTF-8, of at most three bytes for a character *)

\* The bytes that begin a character.
Begins(c) == c < 128 \/ c \in 192 .. 247

CountUtf(s) == Len(SelectSeq(s, Begins))

\* Up to the character behind the first num ones.
CutUtf(s, num) ==
  LET over == {i \in DOMAIN s : Begins(s[i]) /\ CountUtf(First(s, i)) > num}
  IN IF over = {} THEN s ELSE First(s, Min(over) - 1)

UtfChar(c) ==
  IF c < 128 THEN <<c>>
  ELSE IF c < 2048 THEN <<192 + c \div 64, 128 + (c % 64)>>
  ELSE <<224 + c \div 4096, 128 + (c % 4096) \div 64, 128 + (c % 64)>>

UcsToUtf(ucs) == FlattenSeq([i \in DOMAIN ucs |-> UtfChar(ucs[i])])

\* A byte that cannot begin a character is left out.
RECURSIVE UtfToUcs(_)
UtfToUcs(s) ==
  LET c == s[1]  d == At(s, 2) % 64  e == At(s, 3) % 64
  IN IF s = <<>> THEN <<>>
     ELSE IF c < 128 THEN <<c>> \o UtfToUcs(From(s, 2))
     ELSE IF c < 224 /\ At(s, 2) >= 128
     THEN <<(c % 32) * 64 + d>> \o UtfToUcs(From(s, 3))
     ELSE IF c \in 224 .. 239 /\ At(s, 2) >= 128 /\ At(s, 3) >= 128
     THEN <<(c % 16) * 4096 + d * 64 + e>> \o UtfToUcs(From(s, 4))
     ELSE UtfToUcs(From(s, 2))

---------------------------------------------------------------------------
(* The edit distance, by a table *)

\* Mutant: a byte that is replaced costs as much as one that is not.
DistRowFree(row, c, b) ==
  FoldLeftDomain(
    LAMBDA new, j : Append(new, Min({row[j + 1] + 1, new[j] + 1, row[j]})), <<row[1] + 1>>, b)

\* The next row of the table, for the byte c of the first string.
DistRow(row, c, b) ==
  FoldLeftDomain(
    LAMBDA new, j : Append(new, Min({row[j + 1] + 1, new[j] + 1,
                                     row[j] + (IF b[j] = c THEN 0 ELSE 1)})),
    <<row[1] + 1>>, b)

StrDist(a, b) ==
  LET x == First(a, Min({Len(a), DistMax}))  y == First(b, Min({Len(b), DistMax}))
  IN Last(FoldLeft(LAMBDA row, c : DistRow(row, c, y), [j \in 1 .. Len(y) + 1 |-> j - 1], x))

StrDistUtf(a, b) == StrDist(UtfToUcs(a), UtfToUcs(b))

---------------------------------------------------------------------------
(* Numbers *)

\* The number a digit stands for, in upper or in lower case.
HexVal(c) == IF IsDigit(c) THEN c - 48 ELSE IF c >= 97 THEN c - 87 ELSE c - 55

Number(digits, base) == FoldLeft(LAMBDA n, c : n * base + HexVal(c), 0, digits)

\* The sign of a number, and what follows it.
Sign(s) == IF At(s, 1) = Ch.minus THEN -1 ELSE 1
Unsigned(s) == IF At(s, 1) \in {Ch.minus, Ch.plus} THEN From(s, 2) ELSE s

Atoi(str) == LET s == SkipSpaces(str)
                 u == Unsigned(s)
             IN Sign(s) * Number(First(u, Span(u, Digits)), 10)

HexDigits == {c \in 1 .. 127 : IsHexDigit(c)}

Atoih(str) ==
  LET s == SkipSpaces(str)
      t == IF At(s, 1) = 48 /\ At(s, 2) \in {88, 120} THEN From(s, 3) ELSE s
  IN Number(First(t, Span(t, HexDigits)), 16)

\* Blanks, a minus, digits with at most one point, blanks.
IsNum(str) ==
  LET s == SkipSpaces(str)
      t == IF At(s, 1) = Ch.minus THEN From(s, 2) ELSE s
      u == From(t, Span(t, Digits) + 1)
      v == IF At(u, 1) = Ch.dot THEN From(u, 2) ELSE u
      w == From(v, Span(v, Digits) + 1)
  IN (Span(t, Digits) > 0 \/ Span(v, Digits) > 0) /\ SkipSpaces(w) = <<>>

\* The binary digits of a number below 2^24, in at least col columns filled
\* with fc; a zero has no digit when it is filled.
NumToStrBin(num, col, fc) ==
  LET len == IF num = 0 THEN 0 ELSE 1 + CHOOSE p \in 0 .. 23 : 2^p <= num /\ num < 2^(p + 1)
      digits == [i \in 1 .. len |-> 48 + ((num \div 2^(len - i)) % 2)]
  IN IF col > 0 THEN [i \in 1 .. Max({0, Min({col, 64}) - len}) |-> fc] \o digits
     ELSE IF num = 0 THEN <<48>> ELSE digits

\* The whole number at the front of a key and the digits behind its point.
Blanks == 0 .. 32 \cup {Ch.del}

Decimal(key) ==
  LET s == From(key, Span(key, Blanks) + 1)
      u == IF At(s, 1) = Ch.minus THEN From(s, 2) ELSE s
      rest == From(u, Span(u, Digits) + 1)
  IN [num |-> Sign(s) * Number(First(u, Span(u, Digits)), 10), sign |-> Sign(s),
      fract |-> IF At(rest, 1) = Ch.dot THEN First(From(rest, 2), Span(From(rest, 2), Digits))
                ELSE <<>>]

\* The fraction in units of 10^-4, the columns that are looked at.
Fraction(d) ==
  d.sign * FoldLeftDomain(LAMBDA n, i : n + (d.fract[i] - 48) * 10^(4 - i), 0, d.fract)

Compare(x, y) == IF x < y THEN -1 ELSE IF x > y THEN 1 ELSE 0

\* The whole numbers, then the fractions, then the bytes decide.
CmpDecimal(a, b) ==
  LET x == Decimal(a)  y == Decimal(b)
  IN IF x.num # y.num THEN Compare(x.num, y.num)
     ELSE IF Fraction(x) # Fraction(y) THEN Compare(Fraction(x), Fraction(y))
     ELSE CmpLexical(a, b)
=============================================================================
