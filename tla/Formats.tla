--------------------------------- MODULE Formats -------------------------------
(***************************************************************************)
(* The formats jni/cpp/tcutil.c takes apart: MIME messages and their parts,*)
(* forms, XML texts and the attributes of XML tags.  The words of a format *)
(* are constants, so that an instance can use short ones.                  *)
(***************************************************************************)
EXTENDS TextCodecs

CONSTANTS
  Words,    \* the words by their names: of headers (type, disposition,
            \* encoding), of parameters, with their `=' (charset, boundary,
            \* filename, name), of encodings (base64, quoted)
  PartName, \* the beginning of the name of a part without one, "part:"
  FileKey,  \* the end of the key of a file's name, "_filename"
  Cdata     \* "<![CDATA["

ASSUME FormatsAssumption ==
  /\ {"type", "disposition", "encoding", "charset", "boundary", "filename", "name",
      "base64", "quoted"} = DOMAIN Words
  /\ Range(Words) \cup {PartName, FileKey, Cdata} \subseteq Seq(1 .. 255)

\* Where a part begins in a sequence for the first time, or 0.
Find(s, part) ==
  LET places == {i \in DOMAIN s : StrFwm(From(s, i), part)}
  IN IF places = {} THEN 0 ELSE Min(places)

Before(s, c) == First(s, Span(s, (0 .. 255) \ {c}))
Behind(s, c) == From(s, Len(Before(s, c)) + 2)

Get(recs, key) ==
  LET found == {i \in DOMAIN recs : recs[i][1] = key}
  IN IF found = {} THEN <<>> ELSE recs[Min(found)][2]

Has(recs, key) == \E i \in DOMAIN recs : recs[i][1] = key

PutKeep(recs, key, val) == IF Has(recs, key) THEN recs ELSE Append(recs, <<key, val>>)

---------------------------------------------------------------------------
(* MIME *)

\* The headers and the body are apart by an empty line, which must not end the text.
HeadAndBody(s) ==
  LET crlf == {i \in DOMAIN s : i < Len(s) - 3 /\ SubSeq(s, i, i + 3) = <<13, 10, 13, 10>>}
      lf == {i \in DOMAIN s : i < Len(s) - 1 /\ SubSeq(s, i, i + 1) = <<10, 10>>}
      i == Min(crlf \cup lf)
  IN IF crlf \cup lf = {} THEN [head |-> <<>>, body |-> s]
     ELSE [head |-> First(s, i - 1), body |-> From(s, i + IF i \in crlf THEN 4 ELSE 2)]

\* A line that begins with a blank continues the one before.
RECURSIVE Unfolded(_)
Unfolded(s) ==
  IF s = <<>> THEN <<>>
  ELSE IF s[1] = Ch.cr THEN Unfolded(From(s, 2))
  ELSE IF s[1] = Ch.lf /\ At(s, 2) \in {Ch.space, Ch.tab}
  THEN <<Ch.space>> \o Unfolded(From(s, 3))
  ELSE <<s[1]>> \o Unfolded(From(s, 2))

Colon == 58

Headers(head) ==
  LET lines == SelectSeq(Split(Unfolded(head), {Ch.lf}), LAMBDA l : Colon \in Range(l))
      value(l) == From(Behind(l, Colon), Span(Behind(l, Colon), {Ch.space, Ch.tab}) + 1)
  IN Records(FlattenSeq([i \in DOMAIN lines |-> <<ToLower(Before(lines[i], Colon)),
                                                   value(lines[i])>>]))

\* The value of a parameter, and where it ends.
ParamValue(s, key) ==
  LET t == IF key \in {"charset", "boundary"} THEN SkipSpaces(s) ELSE s
      quoted == At(t, 1) = Ch.quote
      u == IF quoted THEN From(t, 2) ELSE t
      open == key \in {"filename", "name"} \/ (key = "boundary" /\ quoted)
      n == Span(u, (1 .. 255) \ (IF open THEN {Ch.quote}
                                 ELSE {Ch.space, Ch.quote, Ch.semicolon}))
  IN [val |-> First(u, n), rest |-> From(u, n + 1)]

\* The parameters of a header that have one of the names, behind a semicolon
\* each; the last one of a name counts.
RECURSIVE Params(_, _)
Params(s, names) ==
  LET t == From(Behind(s, Ch.semicolon), Span(Behind(s, Ch.semicolon), {Ch.space}) + 1)
      here == {k \in names : StrIFwm(t, Words[k])}
      key == CHOOSE k \in here : TRUE
      value == ParamValue(From(t, Len(Words[key]) + 1), key)
  IN IF Ch.semicolon \notin Range(s) THEN << >>
     ELSE IF here = {} THEN Params(t, names)
     ELSE LET more == Params(value.rest, names)
          IN more @@ (key :> value.val)

\* tcmimebreak: the headers, the parameters it looks for, and the body.
MimeBreak(s) ==
  LET split == HeadAndBody(s)
      headers == Headers(split.head)
  IN [headers |-> headers, body |-> split.body,
      type |-> Before(Get(headers, Words["type"]), Ch.semicolon),
      disposition |-> Before(Get(headers, Words["disposition"]), Ch.semicolon),
      params |-> Params(Get(headers, Words["type"]), {"charset", "boundary"}) @@
                 Params(Get(headers, Words["disposition"]), {"filename", "name"})]

\* Where the boundary stands, with one of these bytes behind it.
Marks(s, boundary, behind) ==
  {i \in DOMAIN s : /\ StrFwm(From(s, i), <<Ch.minus, Ch.minus>> \o boundary)
                    /\ At(s, i + 2 + Len(boundary)) \in behind}

\* Mutant: the line break before a boundary stays with the part.
CutLine(s) == s

CutBreak(s) == LET t == IF s # <<>> /\ Last(s) = Ch.lf THEN Front(s) ELSE s
               IN IF t # <<>> /\ Last(t) = Ch.cr THEN Front(t) ELSE t

\* The place behind a boundary and a line break.
Past(s, i, boundary) ==
  LET j == i + 2 + Len(boundary)
      k == IF At(s, j) = Ch.cr THEN j + 1 ELSE j
  IN IF At(s, k) = Ch.lf THEN k + 1 ELSE k

\* What stands between each two boundaries, if it is not empty.
MimeParts(s, boundary) ==
  LET White == {9, 10, 11, 12, 13, 32}
      begin == Marks(s, boundary, White)
      start == Min(begin)
      later == {i \in Marks(s, boundary, White \cup {Ch.minus}) : i >= Past(s, start, boundary)}
      marks == <<start>> \o SetToSortSeq(later, <)
      part(n) == CutBreak(SubSeq(s, Past(s, marks[n], boundary), marks[n + 1] - 1))
  IN IF boundary = <<>> \/ begin = {} THEN <<>>
     ELSE SelectSeq([n \in 1 .. Len(marks) - 1 |-> part(n)], LAMBDA p : p # <<>>)

---------------------------------------------------------------------------
(* Forms *)

FormEncode(recs) ==
  Join([i \in DOMAIN recs |-> UrlEncode(recs[i][1]) \o <<Ch.equals>> \o UrlEncode(recs[i][2])],
       Ch.amp)

\* The values of a key that comes again are put together, with a zero between.
FormPut(recs, key, val) ==
  IF Has(recs, key)
  THEN [i \in DOMAIN recs |-> IF recs[i][1] = key THEN <<key, recs[i][2] \o <<0>> \o val>>
                              ELSE recs[i]]
  ELSE Append(recs, <<key, val>>)

FormDecode(s) ==
  LET fields == Split(s, {Ch.amp, Ch.semicolon})
      take(recs, f) == LET t == SkipSpaces(f)
                       IN IF t = <<>> THEN recs
                          ELSE FormPut(recs, UrlDecode(Before(t, Ch.equals)),
                                       UrlDecode(Behind(t, Ch.equals)))
  IN FoldLeft(take, <<>>, fields)

\* A file's name without its directory.
BaseName(f) ==
  LET behind(c) == From(f, Max({i \in DOMAIN f : f[i] = c}) + 1)
  IN IF At(f, 1) = Ch.slash THEN behind(Ch.slash)
     ELSE IF (IsUpper(At(f, 1)) \/ IsLower(At(f, 1))) /\ At(f, 2) = Colon /\ At(f, 3) = Ch.backslash
     THEN behind(Ch.backslash) ELSE f

PartBody(m) ==
  LET encoding == Get(m.headers, Words["encoding"])
  IN IF StrIFwm(encoding, Words["base64"]) THEN BaseDecode(m.body)
     ELSE IF StrIFwm(encoding, Words["quoted"]) THEN QuoteDecode(m.body)
     ELSE m.body

\* tcwwwformdecode2 of a form in parts.
FormParts(s, boundary) ==
  LET parts == MimeParts(s, boundary)
      take(recs, i) ==
        LET m == MimeBreak(parts[i])
            name == IF "name" \in DOMAIN m.params THEN m.params["name"] ELSE Append(PartName, 48 + i)
            file == IF "filename" \in DOMAIN m.params THEN BaseName(m.params["filename"]) ELSE <<>>
            kept == PutKeep(recs, name, PartBody(m))
        IN IF file = <<>> THEN kept
           ELSE Records(FlattenSeq(Append(kept, <<name \o FileKey, file>>)))
  IN FoldLeftDomain(take, <<>>, parts)

---------------------------------------------------------------------------
(* XML *)

CommentOpen == <<Ch.less, 33, 45, 45>>
CommentClose == <<45, 45, Ch.greater>>
CdataClose == <<93, 93, Ch.greater>>

\* The text of a section of characters, as it stands outside one.
CdataText(s) ==
  FlattenSeq([i \in DOMAIN s |-> IF s[i] = Ch.quote THEN <<s[i]>> ELSE Entity(s[i])])

NonEmpty(section) == IF section = <<>> THEN <<>> ELSE <<section>>

\* The sections of a text; a comment or a section of characters that is never
\* closed repeats what stands before it.
RECURSIVE Sections(_, _, _)
Sections(s, section, tag) ==
  LET comment == StrFwm(s, CommentOpen)
      cdata == StrIFwm(s, Cdata)
      end == IF comment THEN Find(s, CommentClose) ELSE Find(s, CdataClose)
      inside == IF comment THEN First(s, end + 2)
                ELSE CdataText(SubSeq(s, Len(Cdata) + 1, end - 1))
  IN IF s = <<>> THEN NonEmpty(section)
     ELSE IF ~tag /\ (comment \/ cdata)
     THEN NonEmpty(section) \o
          IF end = 0 THEN Sections(From(s, 2), Append(section, s[1]), FALSE)
          ELSE NonEmpty(inside) \o Sections(From(s, end + 3), <<>>, FALSE)
     ELSE IF ~tag /\ s[1] = Ch.less
     THEN NonEmpty(section) \o Sections(From(s, 2), <<s[1]>>, TRUE)
     ELSE IF tag /\ s[1] = Ch.greater
     THEN <<Append(section, s[1])>> \o Sections(From(s, 2), <<>>, FALSE)
     ELSE Sections(From(s, 2), Append(section, s[1]), tag)

XmlBreak(s) == Sections(s, <<>>, FALSE)

AttrValue(val) == XmlUnescape(val)

\* The attributes from here on; the first one of a name counts.
RECURSIVE Attrs(_, _)
Attrs(str, recs) ==
  LET s == From(str, Span(str, Spaces \cup {Ch.slash, Ch.question, Ch.greater}) + 1)
      ksiz == Span(s, 33 .. 255 \ {Ch.slash, Ch.greater, Ch.equals})
      behind == From(s, ksiz + 1)
      t == From(behind, Span(behind, Spaces \cup {Ch.equals}) + 1)
      quoted == At(t, 1) \in {Ch.quote, Ch.apostrophe}
      u == IF quoted THEN From(t, 2) ELSE t
      vsiz == Span(u, IF quoted THEN 1 .. 255 \ {t[1]}
                      ELSE 33 .. 255 \ {Ch.quote, Ch.apostrophe, Ch.greater})
      kept == IF ksiz = 0 THEN recs ELSE PutKeep(recs, First(s, ksiz), AttrValue(First(u, vsiz)))
  IN IF str = <<>> THEN recs ELSE Attrs(From(u, vsiz + 2), kept)

\* The name of the tag is the value of the empty name.
XmlAttrs(str) ==
  LET s == From(str, Span(str, {Ch.less, Ch.slash, Ch.question, 33, Ch.space}) + 1)
      n == Span(s, 33 .. 255 \ {Ch.slash, Ch.greater})
  IN Attrs(From(s, n + 1), << <<(<<>>), First(s, n)>> >>)
=============================================================================
