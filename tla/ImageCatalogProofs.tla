--------------------------- MODULE ImageCatalogProofs --------------------------
(***************************************************************************)
(* What ImageCatalog guarantees for every set of images and catalogs: the  *)
(* blocks stay in type, and what writeCatalog acknowledges is stored and   *)
(* listed.                                                                 *)
(***************************************************************************)
EXTENDS ImageCatalog, SequenceTheorems, WellFoundedInduction, TLAPS

---------------------------------------------------------------------------
(* The inductive invariant: the texts are lists of tokens *)

Tokens == Seq(0 .. 9)
Texts == {text \in Seq(Tokens) : text # <<>> /\ text # EmptyText}
Keys == Images \cup {Name(k, c) : k \in Images, c \in Catalogs}

IsData(m) == DOMAIN m \subseteq Keys /\ \A x \in DOMAIN m : m[x] \in Contents
IsIndex(m) == DOMAIN m \subseteq Images /\ \A k \in DOMAIN m : m[k] \in Texts

Inv == IsData(data) /\ IsIndex(index)

---------------------------------------------------------------------------
(* The lists *)

\* The index of the last token that is not empty.
LEMMA LastFull ==
  ASSUME NEW text \in Seq(Tokens), NEW i \in DOMAIN text, text[i] # <<>>
  PROVE  \E n \in DOMAIN text : /\ Split(text) = SubSeq(text, 1, n) /\ i <= n
<1> DEFINE full == {j \in DOMAIN text : text[j] # <<>>}
           above == {Len(text) - j : j \in full}
<1>1. Len(text) \in Nat /\ DOMAIN text = 1 .. Len(text)
  OBVIOUS
<1>2. above \subseteq Nat /\ above # {}
  BY <1>1
<1>3. PICK m \in above : \A k \in above : <<k, m>> \notin OpToRel(<, Nat)
  BY <1>2, NatLessThanWellFounded, WFMin
<1>4. PICK n \in full : m = Len(text) - n
  OBVIOUS
<1>5. \A j \in full : j <= n
  <2> SUFFICES ASSUME NEW j \in full PROVE j <= n
    OBVIOUS
  <2>1. ~(Len(text) - j < m) /\ Len(text) - j \in Nat
    BY <1>2, <1>3 DEF OpToRel
  <2> QED
    BY <1>1, <1>4, <2>1
<1>6. n = CHOOSE l \in full : \A j \in full : j <= l
  <2>1. \A l \in full : (\A j \in full : j <= l) => l = n
    BY <1>1, <1>5
  <2> QED
    BY <1>5, <2>1
<1>7. Split(text) = SubSeq(text, 1, n)
  BY <1>4, <1>6 DEF Split
<1> QED
  BY <1>5, <1>7

\* A token that is not empty is among those that split gives.
LEMMA SplitKeeps ==
  ASSUME NEW text \in Seq(Tokens), NEW i \in DOMAIN text, text[i] # <<>>
  PROVE  text[i] \in Range(Split(text))
<1>1. PICK n \in DOMAIN text : Split(text) = SubSeq(text, 1, n) /\ i <= n
  BY LastFull
<1>2. Len(Split(text)) = n /\ Split(text)[i] = text[i] /\ i \in DOMAIN Split(text)
  BY <1>1
<1> QED
  BY <1>2 DEF Range

\* What split gives is a list of tokens.
LEMMA SplitTokens ==
  ASSUME NEW text \in Seq(Tokens)
  PROVE  Split(text) \in Seq(Tokens)
<1>1. CASE \E i \in DOMAIN text : text[i] # <<>>
  <2>1. PICK n \in DOMAIN text : Split(text) = SubSeq(text, 1, n)
    BY <1>1, LastFull
  <2> QED
    BY <2>1
<1>2. CASE ~ \E i \in DOMAIN text : text[i] # <<>>
  <2>1. Split(text) = SubSeq(text, 1, 0)
    BY <1>2 DEF Split
  <2> QED
    BY <2>1
<1> QED
  BY <1>1, <1>2

\* A set of naturals that is not empty has a least element.
LEMMA Least ==
  ASSUME NEW S \in SUBSET Nat, S # {}
  PROVE  \E m \in S : \A k \in S : m <= k
<1>1. PICK m \in S : \A k \in S : <<k, m>> \notin OpToRel(<, Nat)
  BY NatLessThanWellFounded, WFMin
<1>2. \A k \in S : ~(k < m)
  BY <1>1 DEF OpToRel
<1> QED
  BY <1>2

\* What the loop of Others keeps of the first i tokens, given what it keeps of
\* those before the i-th.
Step(tokens, c, g, i) ==
  IF i = 0 THEN <<>> ELSE IF tokens[i] = c THEN g[i - 1] ELSE Append(g[i - 1], tokens[i])

\* The loop of Others is well defined.
LEMMA OthersLoop ==
  ASSUME NEW tokens \in Seq(Tokens), NEW c
  PROVE  \E g : g = [i \in 0 .. Len(tokens) |-> Step(tokens, c, g, i)]
<1> DEFINE Loop(n) == \E g : g = [i \in 0 .. n |-> Step(tokens, c, g, i)]
           Bad == {n \in Nat : ~Loop(n)}
<1>1. Loop(0)
  <2>1. [i \in 0 .. 0 |-> <<>>] = [i \in 0 .. 0 |-> Step(tokens, c, [j \in 0 .. 0 |-> <<>>], i)]
    BY DEF Step
  <2> QED
    BY <2>1
<1>2. ASSUME NEW n \in Nat, Loop(n) PROVE Loop(n + 1)
  <2>1. PICK g : g = [i \in 0 .. n |-> Step(tokens, c, g, i)]
    BY <1>2
  <2> DEFINE h == [i \in 0 .. n + 1 |-> IF i = n + 1 THEN Step(tokens, c, g, i) ELSE g[i]]
  <2>2. ASSUME NEW i \in 0 .. n + 1 PROVE h[i] = Step(tokens, c, h, i)
    <3>1. i # 0 => h[i - 1] = g[i - 1]
      OBVIOUS
    <3>2. Step(tokens, c, h, i) = Step(tokens, c, g, i)
      BY <3>1 DEF Step
    <3>3. h[i] = Step(tokens, c, g, i)
      BY <2>1
    <3> QED
      BY <3>2, <3>3
  <2>3. h = [i \in 0 .. n + 1 |-> Step(tokens, c, h, i)]
    BY <2>2
  <2> QED
    BY <2>3
<1> HIDE DEF Loop
<1>3. Bad = {}
  <2> SUFFICES ASSUME Bad # {} PROVE FALSE
    OBVIOUS
  <2>1. PICK m \in Bad : \A k \in Bad : m <= k
    BY Least
  <2>2. m - 1 \in Nat /\ m - 1 \notin Bad
    BY <1>1, <2>1
  <2>3. Loop((m - 1) + 1)
    BY <1>2, <2>2
  <2> QED
    BY <2>1, <2>2, <2>3
<1>4. Loop(Len(tokens))
  BY <1>3
<1> QED
  BY <1>4 DEF Loop

\* What the loop keeps is a list of tokens.
LEMMA OthersTokens ==
  ASSUME NEW tokens \in Seq(Tokens), NEW c
  PROVE  Others(tokens, c) \in Seq(Tokens)
<1> DEFINE kept == CHOOSE g : g = [i \in 0 .. Len(tokens) |-> Step(tokens, c, g, i)]
<1>1. Others(tokens, c) = kept[Len(tokens)]
  BY DEF Others, Step
<1>2. kept = [i \in 0 .. Len(tokens) |-> Step(tokens, c, kept, i)]
  BY OthersLoop
<1> HIDE DEF kept
<1> DEFINE Bad == {n \in 0 .. Len(tokens) : kept[n] \notin Seq(Tokens)}
<1>3. Bad = {}
  <2> SUFFICES ASSUME Bad # {} PROVE FALSE
    OBVIOUS
  <2>1. Bad \in SUBSET Nat
    OBVIOUS
  <2>2. PICK m \in Bad : \A k \in Bad : m <= k
    <3> HIDE DEF Bad
    <3> QED
      BY <2>1, Least
  <2>3. kept[m] = Step(tokens, c, kept, m)
    BY <1>2
  <2>4. m # 0 => m - 1 \in 0 .. Len(tokens) /\ kept[m - 1] \in Seq(Tokens) /\ tokens[m] \in Tokens
    BY <2>2
  <2>5. Step(tokens, c, kept, m) \in Seq(Tokens)
    <3>1. CASE m = 0
      BY <3>1 DEF Step
    <3>2. CASE m # 0
      BY <2>4, <3>2 DEF Step
    <3> QED
      BY <3>1, <3>2
  <2> QED
    BY <2>3, <2>5
<1>4. Len(tokens) \in 0 .. Len(tokens)
  OBVIOUS
<1> QED
  BY <1>1, <1>3, <1>4

\* With the last two characters of its text cut off a list is still one, and
\* has a token, if it is not the text of an empty token alone.
LEMMA ChoppedTexts ==
  ASSUME NEW tokens \in Texts
  PROVE  Chopped(tokens) \in Seq(Tokens) /\ Chopped(tokens) # <<>>
<1>1. Len(tokens) \in Nat /\ Len(tokens) >= 1 /\ tokens[Len(tokens)] \in Tokens
  BY DEF Texts
<1>2. CASE tokens[Len(tokens)] = <<>>
  <2>1. Len(tokens) # 1
    BY <1>2 DEF Texts, EmptyText
  <2>2. Chopped(tokens) = SubSeq(tokens, 1, Len(tokens) - 1)
    BY <1>2 DEF Chopped, Last, Front
  <2>3. PICK n \in 1 .. Len(tokens) : n = Len(tokens) - 1
    <3>1. PICK l \in Nat : l = Len(tokens)
      BY <1>1
    <3>2. l >= 1 /\ l # 1
      BY <1>1, <2>1, <3>1
    <3>3. l - 1 \in 1 .. l
      BY <3>2
    <3> QED
      BY <3>1, <3>3
  <2>4. SubSeq(tokens, 1, n) \in Seq(Tokens) /\ Len(SubSeq(tokens, 1, n)) = n
    BY DEF Texts
  <2>5. SubSeq(tokens, 1, n) # <<>>
    BY <2>4
  <2> QED
    BY <2>2, <2>3, <2>4, <2>5
<1>3. CASE tokens[Len(tokens)] # <<>>
  <2>1. PICK t \in Tokens : t = tokens[Len(tokens)]
    BY <1>1
  <2>2. SubSeq(t, 1, Len(t) - 1) \in Tokens
    BY <1>3, <2>1 DEF Tokens
  <2>3. Chopped(tokens) = [tokens EXCEPT ![Len(tokens)] = SubSeq(t, 1, Len(t) - 1)]
    BY <1>3, <2>1 DEF Chopped, Last, Front
  <2> QED
    BY <1>1, <2>2, <2>3 DEF Texts
<1> QED
  BY <1>2, <1>3

---------------------------------------------------------------------------
(* The blocks *)

\* A write of a list keeps the block of lists in type, whatever it
\* evicts.
LEMMA IndexOutcomes ==
  ASSUME NEW m, IsIndex(m), NEW k \in Images, NEW text \in Seq(Tokens), text # <<>>,
         NEW over, NEW b \in Outcomes(m, k, text, over)
  PROVE  IsIndex(b.block)
<1>1. CASE b \in Failed(m)
  <2>1. PICK S \in SUBSET DOMAIN m : b = [ok |-> FALSE, block |-> Without(m, S)]
    BY <1>1 DEF Failed
  <2> QED
    BY <2>1 DEF Without, IsIndex
<1>2. CASE b \in Written(m, k, text, over)
  <2>1. PICK S \in SUBSET DOMAIN m : b = [ok |-> TRUE, block |-> With(Without(m, S), k, text)] /\ text # EmptyText
    BY <1>2 DEF Written
  <2>2. text \in Texts
    BY <2>1 DEF Texts
  <2> QED
    BY <2>1, <2>2 DEF With, Without, IsIndex
<1> QED
  BY <1>1, <1>2 DEF Outcomes

\* A write of a record keeps its block in type; one that succeeds stores it.
LEMMA DataOutcomes ==
  ASSUME NEW m, IsData(m), NEW k \in Keys, NEW v \in Contents,
         NEW over, NEW a \in Outcomes(m, k, v, over)
  PROVE  IsData(a.block) /\ (a.ok => k \in DOMAIN a.block)
<1>1. CASE a \in Failed(m)
  <2>1. PICK S \in SUBSET DOMAIN m : a = [ok |-> FALSE, block |-> Without(m, S)]
    BY <1>1 DEF Failed
  <2> QED
    BY <2>1 DEF Without, IsData
<1>2. CASE a \in Written(m, k, v, over)
  <2>1. PICK S \in SUBSET DOMAIN m : a = [ok |-> TRUE, block |-> With(Without(m, S), k, v)]
    BY <1>2 DEF Written
  <2> QED
    BY <2>1 DEF With, Without, IsData
<1> QED
  BY <1>1, <1>2 DEF Outcomes

\* A removal keeps either block in type.
LEMMA RemovedKeeps ==
  ASSUME NEW m, NEW k, NEW removable
  PROVE  /\ IsData(m) => IsData(Removed(m, k, removable).block)
         /\ IsIndex(m) => IsIndex(Removed(m, k, removable).block)
BY DEF Removed, Without, IsData, IsIndex

\* Adding a catalog to a list keeps the lists; when it is answered with true
\* the catalog is in the list.
LEMMA IndexedLists ==
  ASSUME IsIndex(index), NEW k \in Images, NEW c \in Catalogs, NEW b \in Indexed(k, c)
  PROVE  /\ IsIndex(b.block)
         /\ b.ok => k \in DOMAIN b.block /\ c \in Range(Split(b.block[k]))
<1>1. c \in Tokens /\ c # <<>>
  BY CatalogAssumption DEF Tokens
<1>2. CASE Listed(k, c)
  <2>1. b.block = index
    BY <1>2 DEF Indexed
  <2>2. k \in DOMAIN index /\ c \in Range(Split(index[k]))
    BY <1>2 DEF Listed, Text, Range
  <2> QED
    BY <2>1, <2>2
<1>3. CASE ~Listed(k, c)
  <2> DEFINE text == IF k \in DOMAIN index THEN Append(index[k], c) ELSE <<c>>
  <2>1. b \in Outcomes(index, k, text, TRUE)
    BY <1>3 DEF Indexed
  <2>2. text \in Seq(Tokens) /\ text # <<>> /\ Len(text) \in DOMAIN text /\ text[Len(text)] = c
    <3>1. CASE k \in DOMAIN index
      <4>1. PICK old \in Seq(Tokens) : old = index[k]
        BY <3>1 DEF IsIndex, Texts
      <4> QED
        BY <1>1, <3>1, <4>1
    <3>2. CASE k \notin DOMAIN index
      BY <1>1, <3>2
    <3> QED
      BY <3>1, <3>2
  <2> HIDE DEF text
  <2>3. c \in Range(Split(text))
    BY <1>1, <2>2, SplitKeeps
  <2>4. IsIndex(b.block) /\ (b.ok => k \in DOMAIN b.block /\ b.block[k] = text)
    <3>1. PICK m, t : m = index /\ t = text
      OBVIOUS
    <3>2. IsIndex(m) /\ t \in Seq(Tokens) /\ t # <<>> /\ b \in Outcomes(m, k, t, TRUE)
      BY <2>1, <2>2, <3>1
    <3>3. IsIndex(b.block)
      BY <3>2, IndexOutcomes
    <3>4. ASSUME b.ok PROVE k \in DOMAIN b.block /\ b.block[k] = t
      <4>1. b \in Outcomes(m, k, t, TRUE) /\ b.ok
        BY <3>2, <3>4
      <4>2. b \notin Failed(m)
        BY <3>4 DEF Failed
      <4>3. PICK S \in SUBSET DOMAIN m : b = [ok |-> TRUE, block |-> With(Without(m, S), k, t)]
        BY <4>1, <4>2 DEF Outcomes, Written
      <4> QED
        BY <4>3 DEF With
    <3> QED
      BY <3>1, <3>3, <3>4
  <2> QED
    BY <2>3, <2>4
<1> QED
  BY <1>2, <1>3

\* Taking a catalog off a list keeps the lists.
LEMMA UnindexedLists ==
  ASSUME IsIndex(index), NEW k \in Images, NEW c \in Catalogs, NEW a \in Unindexed(k, c)
  PROVE  IsIndex(a.block)
<1> DEFINE kept == Others(Text(k), c)
<1>1. Text(k) \in Seq(Tokens)
  BY SplitTokens DEF Text, IsIndex, Texts
<1>2. kept \in Seq(Tokens)
  BY <1>1, OthersTokens
<1>3. \/ a.block = Removed(index, k, "index" \in Removable).block
      \/ a.block = index
      \/ kept # <<>> /\ kept # EmptyText /\ a \in Outcomes(index, k, Chopped(kept), TRUE)
  <2>1. CASE kept = <<>>
    BY <2>1 DEF Unindexed
  <2>2. CASE kept # <<>> /\ (kept = EmptyText \/ ~Listed(k, c))
    <3>1. Unindexed(k, c) = {[ok |-> TRUE, block |-> index]}
      BY <2>2, Zenon DEF Unindexed
    <3>2. a = [ok |-> TRUE, block |-> index]
      BY <3>1
    <3> QED
      BY <3>2
  <2>3. CASE kept # <<>> /\ ~(kept = EmptyText \/ ~Listed(k, c))
    BY <2>3 DEF Unindexed
  <2> QED
    BY <2>1, <2>2, <2>3
<1> HIDE DEF kept
<1>4. ASSUME kept # <<>>, kept # EmptyText, a \in Outcomes(index, k, Chopped(kept), TRUE)
      PROVE  IsIndex(a.block)
  <2>1. Chopped(kept) \in Seq(Tokens) /\ Chopped(kept) # <<>>
    BY <1>2, <1>4, ChoppedTexts DEF Texts
  <2> QED
    BY <1>4, <2>1, IndexOutcomes
<1> QED
  BY <1>3, <1>4, RemovedKeeps

---------------------------------------------------------------------------
(* The calls *)

\* The blocks are empty at first.
LEMMA InvInit == Init => Inv
BY DEF Init, Inv, IsData, IsIndex

\* Every call keeps them in type.
LEMMA InvNext == Inv /\ [Next]_vars => Inv'
<1> SUFFICES ASSUME Inv, [Next]_vars PROVE Inv'
  OBVIOUS
<1> USE DEF Inv
<1>1. \A k \in Images : k \in Keys /\ \A c \in Catalogs : Name(k, c) \in Keys
  BY DEF Keys
<1>2. Image \in Contents /\ Number \in Contents
  BY DEF Contents
<1>3. ASSUME NEW k \in Images, NEW c \in Catalogs, NEW over \in BOOLEAN, WriteCatalog(k, c, over)
      PROVE  Inv'
  <2>1. PICK a \in Outcomes(data, Name(k, c), Image, over) :
          \E b \in IF a.ok THEN Indexed(k, c) ELSE {[ok |-> TRUE, block |-> index]} :
            data' = a.block /\ index' = b.block
    BY <1>3 DEF WriteCatalog
  <2>2. IsData(a.block)
    BY <1>1, <1>2, DataOutcomes
  <2>3. IsIndex(index')
    BY <2>1, IndexedLists
  <2> QED
    BY <2>1, <2>2, <2>3 DEF IsData, IsIndex
<1>4. ASSUME NEW k \in Images, NEW c \in Catalogs, NEW over \in BOOLEAN, WriteCatalogCut(k, c, over)
      PROVE  Inv'
  <2>1. PICK a \in Outcomes(data, Name(k, c), Image, over) : data' = a.block /\ index' = index
    BY <1>4 DEF WriteCatalogCut, Outcomes
  <2>2. IsData(a.block)
    BY <1>1, <1>2, DataOutcomes
  <2> QED
    BY <2>1, <2>2 DEF IsData, IsIndex
<1>5. ASSUME NEW k \in Images, NEW c \in Catalogs, RemoveCatalog(k, c) \/ RemoveCatalogCut(k, c)
      PROVE  Inv'
  <2>1. PICK a \in Unindexed(k, c) :
          /\ index' = a.block
          /\ \/ data' = data
             \/ data' = Removed(data, Name(k, c), "data" \in Removable).block
    BY <1>5 DEF RemoveCatalog, RemoveCatalogCut
  <2>2. IsIndex(a.block) /\ IsData(Removed(data, Name(k, c), "data" \in Removable).block)
    BY UnindexedLists, RemovedKeeps
  <2> QED
    BY <2>1, <2>2 DEF IsData, IsIndex
<1>6. ASSUME NEW k \in Images, GetCatalog(k) PROVE Inv'
  <2>1. index' = index /\ (data' = data \/ data' = Removed(data, k, "data" \in Removable).block)
    BY <1>6 DEF GetCatalog
  <2> QED
    BY <2>1, RemovedKeeps DEF IsData, IsIndex
<1>7. ASSUME NEW k \in Images, NEW content \in Contents, Write(k, content) PROVE Inv'
  <2>1. PICK a \in Outcomes(data, k, content, TRUE) : data' = a.block /\ index' = index
    BY <1>7 DEF Write
  <2>2. IsData(a.block)
    BY <1>1, DataOutcomes
  <2> QED
    BY <2>1, <2>2 DEF IsData, IsIndex
<1>8. CASE UNCHANGED vars
  BY <1>8 DEF vars, IsData, IsIndex
<1> QED
  BY <1>3, <1>4, <1>5, <1>6, <1>7, <1>8 DEF Next

\* The blocks stay in type: no list is stored that is an empty text, whatever
\* removeCatalog cuts off.
THEOREM TypeCorrect == Spec => []TypeOK
<1>1. Inv => TypeOK
  <2> SUFFICES ASSUME Inv PROVE TypeOK
    OBVIOUS
  <2>1. ASSUME NEW text \in Texts PROVE Len(text) > 0 /\ text # EmptyText
    BY DEF Texts
  <2>2. \A text \in Range(index) : text \in Texts
    BY DEF Range, Inv, IsIndex
  <2> QED
    BY <2>1, <2>2 DEF Inv, IsData, IsIndex, Keys, Range, TypeOK
<1> QED
  BY <1>1, InvInit, InvNext, PTL DEF Spec

\* A step that answers writeCatalog with true leaves the record stored and the
\* catalog listed.
LEMMA Acknowledges ==
  ASSUME Inv, Next, ret'.op = "writeCatalog", ret'.ok
  PROVE  /\ Name(ret'.key, ret'.catalog) \in DOMAIN data'
         /\ ret'.key \in DOMAIN index'
         /\ ret'.catalog \in Range(Split(index'[ret'.key]))
<1>1. PICK k \in Images, c \in Catalogs, over \in BOOLEAN : WriteCatalog(k, c, over)
  <2>1. ASSUME NEW k \in Images, NEW c \in Catalogs, NEW over \in BOOLEAN
        PROVE  ~WriteCatalogCut(k, c, over)
    BY DEF WriteCatalogCut, Answered
  <2>2. ASSUME NEW k \in Images, NEW c \in Catalogs
        PROVE  ~RemoveCatalog(k, c) /\ ~RemoveCatalogCut(k, c)
    BY DEF RemoveCatalog, RemoveCatalogCut, Answered
  <2>3. ASSUME NEW k \in Images
        PROVE  ~GetCatalog(k) /\ \A content \in Contents : ~Write(k, content)
    <3>1. ~GetCatalog(k)
      BY DEF GetCatalog, Answered
    <3>2. ASSUME NEW content \in Contents, Write(k, content) PROVE FALSE
      <4>1. PICK a : Answered("write", k, <<>>, a.ok)
        BY <3>2 DEF Write
      <4> QED
        BY <4>1 DEF Answered
    <3> QED
      BY <3>1, <3>2
  <2> QED
    BY <2>1, <2>2, <2>3 DEF Next
<1>2. PICK a \in Outcomes(data, Name(k, c), Image, over) :
        \E b \in IF a.ok THEN Indexed(k, c) ELSE {[ok |-> TRUE, block |-> index]} :
          /\ data' = a.block /\ index' = b.block
          /\ Answered("writeCatalog", k, c, Ack(a, b))
  BY <1>1 DEF WriteCatalog
<1>3. PICK b \in IF a.ok THEN Indexed(k, c) ELSE {[ok |-> TRUE, block |-> index]} :
          /\ data' = a.block /\ index' = b.block
          /\ Answered("writeCatalog", k, c, Ack(a, b))
  BY <1>2
<1>4. ret'.key = k /\ ret'.catalog = c /\ a.ok /\ b.ok
  BY <1>3 DEF Answered, Ack
<1>5. Name(k, c) \in DOMAIN a.block
  BY <1>4, DataOutcomes DEF Inv, Keys, Contents
<1>6. k \in DOMAIN b.block /\ c \in Range(Split(b.block[k]))
  BY <1>3, <1>4, IndexedLists DEF Inv
<1> QED
  BY <1>3, <1>4, <1>5, <1>6

\* Whatever fails or is evicted on the way, and whatever an earlier removal
\* left of the list, what writeCatalog acknowledges is stored and listed.
THEOREM AcknowledgedAlways == Spec => AcknowledgedIsIndexed
<1>1. Inv /\ [Next]_vars =>
        [ret'.op = "writeCatalog" /\ ret'.ok
           => /\ Name(ret'.key, ret'.catalog) \in DOMAIN data'
              /\ ret'.key \in DOMAIN index'
              /\ ret'.catalog \in Range(Split(index'[ret'.key]))]_vars
  BY Acknowledges
<1> QED
  BY <1>1, InvInit, InvNext, PTL DEF Spec, AcknowledgedIsIndexed
=============================================================================
