----------------------------- MODULE ImageCatalog ------------------------------
(***************************************************************************)
(* Images in the cache: writeCatalog, removeCatalog and getCatalog of      *)
(* NBCacheService.java.  An image is kept in several sizes, its catalogs,  *)
(* each a record of the block; a second block, named after the first with  *)
(* "Index" behind it, lists the catalogs of every image.                   *)
(*                                                                         *)
(* The binder runs one call at a time.  The calls on the two blocks are    *)
(* those of BlockService and MStore, of which only the outcome is kept:    *)
(* a write may fail and, failed or not, may evict other records of its     *)
(* block.  The process may die between the two blocks.                     *)
(*                                                                         *)
(* A list of catalogs is a text, the decimal numbers with "|" between      *)
(* them.  Here it is the sequence of its tokens, and a token is the        *)
(* sequence of its digits, since removeCatalog cuts off a digit.           *)
(***************************************************************************)
EXTENDS Integers, Sequences, FiniteSets, SequencesExt

CONSTANTS
  Images,     \* the keys of images, as sequences of characters
  Catalogs,   \* the numbers of catalogs, as sequences of digits
  NoImage,    \* no key
  Removable,  \* those of the two blocks, "data" and "index", that are removable
  MaxTokens   \* bound: the tokens of a list

ASSUME CatalogAssumption ==
  /\ Catalogs \subseteq Seq(0 .. 9) \ {<<>>} /\ MaxTokens \in Nat
  /\ Images \subseteq Seq(Nat) \ {<<>>} /\ NoImage \notin Images
  /\ Removable \subseteq {"data", "index"}

VARIABLES
  data,   \* the block: the records of the images, and those callers write
          \* under the bare key of an image
  index,  \* the block of the lists: a text for some of the images
  ret     \* the last call and what it returned

vars == <<data, index, ret>>

\* What a record of the block holds: an image, which is no list of numbers, or
\* a text that is a number.
Image == <<<<10>>>>
Number == <<<<7>>>>
Contents == {Image, Number}

\* key + catalog: the names of two images' records may be the same.
Name(k, c) == k \o c

Answered(op, k, c, ok) == ret' = [op |-> op, key |-> k, catalog |-> c, ok |-> ok]

Init == /\ data = <<>> /\ index = <<>>
        /\ ret = [op |-> "none", key |-> NoImage, catalog |-> <<>>, ok |-> TRUE]

---------------------------------------------------------------------------
(* The blocks *)

With(m, k, v) == [x \in DOMAIN m \cup {k} |-> IF x = k THEN v ELSE m[x]]
Without(m, S) == [x \in DOMAIN m \ S |-> m[x]]

EmptyText == <<<<>>>>

\* Mutant: an empty value is written like any other.
WrittenAny(m, k, v, over) ==
  {[ok |-> TRUE, block |-> With(Without(m, S), k, v)] : S \in SUBSET (DOMAIN m \ {k})}

\* The outcomes of a write that succeeds, of one that fails, and of both.  The
\* record may be evicted before it is found to exist.
Written(m, k, v, over) ==
  {[ok |-> TRUE, block |-> With(Without(m, S), k, v)] :
     S \in {S \in SUBSET DOMAIN m : v # EmptyText /\ (over \/ k \notin DOMAIN m \ S)}}

Failed(m) == {[ok |-> FALSE, block |-> Without(m, S)] : S \in SUBSET DOMAIN m}

Outcomes(m, k, v, over) == Written(m, k, v, over) \cup Failed(m)

\* NBCacheService.remove: a record that is not there is not removed.
Removed(m, k, removable) ==
  IF removable /\ k \in DOMAIN m THEN [ok |-> TRUE, block |-> Without(m, {k})]
  ELSE [ok |-> FALSE, block |-> m]

---------------------------------------------------------------------------
(* The lists *)

\* String.split leaves out the empty tokens at the end.
Split(text) ==
  LET full == {i \in DOMAIN text : text[i] # <<>>}
  IN SubSeq(text, 1, IF full = {} THEN 0 ELSE CHOOSE i \in full : \A j \in full : j <= i)

\* The tokens that are not c, in their order.
Others(tokens, c) ==
  LET kept[i \in 0 .. Len(tokens)] ==
        IF i = 0 THEN <<>>
        ELSE IF tokens[i] = c THEN kept[i - 1] ELSE Append(kept[i - 1], tokens[i])
  IN kept[Len(tokens)]

\* Every token and its "|" are joined, and the last two characters cut off:
\* the last "|" and what stands before it.
Chopped(tokens) ==
  IF Last(tokens) = <<>> THEN Front(tokens)
  ELSE [tokens EXCEPT ![Len(tokens)] = Front(@)]

Text(k) == IF k \in DOMAIN index THEN Split(index[k]) ELSE <<>>

Listed(k, c) == c \in Range(Text(k))

\* The outcomes of adding a catalog to its image's list.
Indexed(k, c) ==
  IF Listed(k, c) THEN {[ok |-> TRUE, block |-> index]}
  ELSE Outcomes(index, k, IF k \in DOMAIN index THEN Append(index[k], c) ELSE <<c>>, TRUE)

\* The outcomes of taking a catalog off it.  Of a single empty token nothing
\* is left to cut off: the exception is caught and the list stays.
Unindexed(k, c) ==
  LET kept == Others(Text(k), c)
      same == [ok |-> TRUE, block |-> index]
  IN IF kept = <<>> THEN {[same EXCEPT !.block = Removed(index, k, "index" \in Removable).block]}
     ELSE IF kept = EmptyText \/ ~Listed(k, c) THEN {same}
     ELSE Outcomes(index, k, Chopped(kept), TRUE)

---------------------------------------------------------------------------
(* The calls *)

Bounded == \A k \in DOMAIN index' : Len(index'[k]) <= MaxTokens

\* Mutant: the second write's answer is dropped.
AckFirst(a, b) == a.ok

Ack(a, b) == a.ok /\ b.ok

WriteCatalog(k, c, over) ==
  /\ \E a \in Outcomes(data, Name(k, c), Image, over) :
       \E b \in IF a.ok THEN Indexed(k, c) ELSE {[ok |-> TRUE, block |-> index]} :
         /\ data' = a.block /\ index' = b.block
         /\ Answered("writeCatalog", k, c, Ack(a, b))
  /\ Bounded

\* The process dies when the record is written and the list is not.
WriteCatalogCut(k, c, over) ==
  /\ \E a \in Written(data, Name(k, c), Image, over) : data' = a.block
  /\ Answered("death", k, c, FALSE) /\ UNCHANGED index

RemoveCatalog(k, c) ==
  /\ \E a \in Unindexed(k, c) :
       LET b == Removed(data, Name(k, c), "data" \in Removable)
       IN /\ index' = a.block /\ data' = b.block
          /\ Answered("removeCatalog", k, c, Ack(a, b))
  /\ Bounded

\* The process dies when the list is written and the record is still there.
RemoveCatalogCut(k, c) ==
  /\ \E a \in Unindexed(k, c) : index' = a.block
  /\ Answered("death", k, c, FALSE) /\ UNCHANGED data

\* getCatalog reads the block itself, not that of the lists.  A record that is
\* not a list of numbers is removed.
GetCatalog(k) ==
  /\ data' = IF k \in DOMAIN data /\ data[k] = Image
             THEN Removed(data, k, "data" \in Removable).block ELSE data
  /\ Answered("getCatalog", k, <<>>, k \in DOMAIN data /\ data[k] = Number)
  /\ UNCHANGED index

\* A caller writes a record under the bare key.
Write(k, content) ==
  /\ \E a \in Outcomes(data, k, content, TRUE) :
       data' = a.block /\ Answered("write", k, <<>>, a.ok)
  /\ UNCHANGED index

Next == \E k \in Images :
          \/ \E c \in Catalogs, over \in BOOLEAN :
               WriteCatalog(k, c, over) \/ WriteCatalogCut(k, c, over)
          \/ \E c \in Catalogs : RemoveCatalog(k, c) \/ RemoveCatalogCut(k, c)
          \/ \E content \in Contents : Write(k, content)
          \/ GetCatalog(k)

Spec == Init /\ [][Next]_vars

---------------------------------------------------------------------------
(* Properties *)

\* The blocks hold records of the images only, and no list is stored that is
\* an empty text, which the native code cannot write.
TypeOK ==
  /\ DOMAIN data \subseteq Images \cup {Name(k, c) : k \in Images, c \in Catalogs}
  /\ Range(data) \subseteq Contents
  /\ DOMAIN index \subseteq Images
  /\ \A text \in Range(index) : Len(text) > 0 /\ text # EmptyText

\* What writeCatalog answers with true is stored and listed, whatever failed or
\* was evicted on the way, and whatever an earlier removal left of the list.
AcknowledgedIsIndexed ==
  [][ret'.op = "writeCatalog" /\ ret'.ok
       => /\ Name(ret'.key, ret'.catalog) \in DOMAIN data'
          /\ ret'.key \in DOMAIN index'
          /\ ret'.catalog \in Range(Split(index'[ret'.key]))]_vars
=============================================================================
