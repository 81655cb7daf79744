--------------------------------- MODULE TCMap ---------------------------------
(***************************************************************************)
(* The hash map of jni/cpp/tcutil.c (TCMAP), as operators on one record.   *)
(*                                                                         *)
(* Every record of the map is a node of two structures at once: of the     *)
(* binary tree of its bucket, ordered by the second hash value and then by *)
(* the key, and of the doubly linked list of all records in stored order,  *)
(* in which the iterator `cur' points to the record it returns next.  A    *)
(* record is named by its key; where the C code reallocates a record it    *)
(* redirects every pointer to it, which leaves the names as they are.      *)
(***************************************************************************)
EXTENDS TCCommon

CONSTANTS
  Keys,      \* the keys
  Buckets,   \* the indices of the bucket array
  BucketOf,  \* [Keys -> Buckets]: TCMAPHASH1 modulo bnum
  HashOf,    \* [Keys -> Nat]: TCMAPHASH2 without the bits of the key size
  KeyOrd,    \* [Keys -> Nat]: the order of TCKEYCMP
  Word       \* 2^64, the range of msiz

ASSUME MapAssumption ==
  /\ BucketOf \in [Keys -> Buckets] /\ HashOf \in [Keys -> Nat]
  /\ KeyOrd \in [Keys -> Nat] /\ None \notin Keys
  /\ \A k, l \in Keys : KeyOrd[k] = KeyOrd[l] => k = l
  /\ Word \in Nat \ {0}

NewMap == [top |-> [b \in Buckets |-> None], recs |-> [k \in {} |-> None],
           first |-> None, last |-> None, cur |-> None, rnum |-> 0, msiz |-> 0]

---------------------------------------------------------------------------
(* The trees.  A slot is a place that holds a pointer to a node: a bucket, *)
(* or the left or right pointer of a record (the variable `entp').         *)

Slots(m) == ({"bucket"} \X Buckets) \cup ({"left", "right"} \X DOMAIN m.recs)

At(m, s) == IF s[1] = "bucket" THEN m.top[s[2]] ELSE m.recs[s[2]][s[1]]

SetAt(m, s, r) == IF s[1] = "bucket" THEN [m EXCEPT !.top[s[2]] = r]
                  ELSE [m EXCEPT !.recs[s[2]][s[1]] = r]

\* A record with a larger hash value, or the smaller key, lies to the left.
Left(k, r) == \/ HashOf[k] > HashOf[r]
              \/ HashOf[k] = HashOf[r] /\ KeyOrd[k] < KeyOrd[r]

\* The slot of the record of k, or the empty slot where it would be.
Seek(m, k) ==
  LET walk[s \in Slots(m)] ==
        IF At(m, s) \in {None, k} THEN s
        ELSE walk[<<IF Left(k, At(m, s)) THEN "left" ELSE "right", At(m, s)>>]
  IN walk[<<"bucket", BucketOf[k]>>]

MapHas(m, k) == At(m, Seek(m, k)) = k

Rightmost(m, r) ==
  LET walk[x \in DOMAIN m.recs] ==
        IF m.recs[x].right = None THEN x ELSE walk[m.recs[x].right]
  IN walk[r]

\* Mutant: the right subtree replaces the right child of the left one.
JoinAtLeft(m, s, r) ==
  LET l == m.recs[r].left  right == m.recs[r].right
  IN IF l = None THEN SetAt(m, s, right)
     ELSE IF right = None THEN SetAt(m, s, l)
     ELSE SetAt([m EXCEPT !.recs[l].right = right], s, l)

\* The subtrees of the record r, whose slot is s, take its place: the right
\* one hangs below the rightmost record of the left one.
Joined(m, s, r) ==
  LET l == m.recs[r].left  right == m.recs[r].right
  IN IF l = None THEN SetAt(m, s, right)
     ELSE IF right = None THEN SetAt(m, s, l)
     ELSE SetAt([m EXCEPT !.recs[Rightmost(m, l)].right = right], s, l)

---------------------------------------------------------------------------
(* The list in stored order *)

SetNext(recs, r, n) == IF r = None THEN recs ELSE [recs EXCEPT ![r].next = n]

SetPrev(recs, r, p) == IF r = None THEN recs ELSE [recs EXCEPT ![r].prev = p]

\* The neighbours of k are linked to each other.
Bridged(recs, k) ==
  SetPrev(SetNext(recs, recs[k].prev, recs[k].next), recs[k].next, recs[k].prev)

ToLast(m, k) ==
  IF m.last = k THEN m
  ELSE [m EXCEPT
         !.recs = SetNext(SetNext(SetPrev(Bridged(@, k), k, m.last), k, None), m.last, k),
         !.first = IF @ = k THEN m.recs[k].next ELSE @,
         !.last = k]

ToFirst(m, k) ==
  IF m.first = k THEN m
  ELSE [m EXCEPT
         !.recs = SetPrev(SetNext(SetPrev(Bridged(@, k), k, None), k, m.first), m.first, k),
         !.last = IF @ = k THEN m.recs[k].prev ELSE @,
         !.first = k]

\* The keys in stored order, as every walk along `next' meets them.
Order(m) ==
  LET from[r \in DOMAIN m.recs \cup {None}] ==
        IF r = None THEN <<>> ELSE <<r>> \o from[m.recs[r].next]
  IN from[m.first]

---------------------------------------------------------------------------
(* Operations *)

Sized(m, size) == [m EXCEPT !.msiz = (@ + size) % Word]

\* A new record at the end of the list and in its slot.
Attached(m, k, v) ==
  LET new == [left |-> None, right |-> None, prev |-> m.last, next |-> None, val |-> v]
      old == SetNext(m.recs, m.last, k)
      linked == [m EXCEPT
                  !.recs = [r \in DOMAIN old \cup {k} |-> IF r = k THEN new ELSE old[r]],
                  !.first = IF @ = None THEN k ELSE @,
                  !.last = k, !.rnum = @ + 1]
  IN SetAt(linked, Seek(m, k), k)

Added(m, k, v) == Sized(Attached(m, k, v), Size(v))

Replaced(m, k, v) ==
  Sized([m EXCEPT !.recs[k].val = v], Len(v) - Len(m.recs[k].val))

\* Mutant: an iterator on the removed record stays there.
CurStays(m, k) == m.cur

CurPast(m, k) == IF m.cur = k THEN m.recs[k].next ELSE m.cur

Removed(m, k) ==
  LET bare == [m EXCEPT
                !.recs = Bridged(@, k),
                !.first = IF @ = k THEN m.recs[k].next ELSE @,
                !.last = IF @ = k THEN m.recs[k].prev ELSE @,
                !.cur = CurPast(m, k), !.rnum = @ - 1]
      joined == Joined(bare, Seek(m, k), k)
  IN Sized([joined EXCEPT !.recs = [r \in DOMAIN @ \ {k} |-> @[r]]],
           - Size(m.recs[k].val))

MapPut(m, k, v) == IF MapHas(m, k) THEN Replaced(m, k, v) ELSE Added(m, k, v)

MapPut3(m, k, v) == IF MapHas(m, k) THEN ToLast(Replaced(m, k, v), k) ELSE Added(m, k, v)

\* The value is the concatenation of two.
MapPut4(m, k, first, last) == MapPut(m, k, first \o last)

MapPutKeep(m, k, v) == IF MapHas(m, k) THEN m ELSE Added(m, k, v)

MapPutCat(m, k, v) ==
  IF MapHas(m, k) THEN Replaced(m, k, m.recs[k].val \o v) ELSE Added(m, k, v)

MapPutCat3(m, k, v) ==
  IF MapHas(m, k) THEN ToLast(Replaced(m, k, m.recs[k].val \o v), k) ELSE Added(m, k, v)

\* The callback answers None to keep the record, Discard to remove it, or a value.
MapPutProc(m, k, v, answer) ==
  IF ~MapHas(m, k) THEN IF v = None THEN m ELSE Added(m, k, v)
  ELSE IF answer = Discard THEN Removed(m, k)
  ELSE IF answer = None THEN m ELSE Replaced(m, k, answer)

\* A record that tcmapaddint creates is not added to msiz.
MapAddInt(m, k, num) ==
  IF ~MapHas(m, k) THEN Attached(m, k, <<num>>)
  ELSE IF IsInt(m.recs[k].val)
  THEN [m EXCEPT !.recs[k].val = Plus(@, num)] ELSE m

MapOut(m, k) == IF MapHas(m, k) THEN Removed(m, k) ELSE m

MapGet(m, k) == IF MapHas(m, k) THEN m.recs[k].val ELSE None

MapGet3(m, k) == IF MapHas(m, k) THEN ToLast(m, k) ELSE m

MapMove(m, k, head) ==
  IF ~MapHas(m, k) THEN m ELSE IF head THEN ToFirst(m, k) ELSE ToLast(m, k)

MapIterInit(m) == [m EXCEPT !.cur = m.first]

MapIterInit2(m, k) == IF MapHas(m, k) THEN [m EXCEPT !.cur = k] ELSE m

\* The key returned is the old m.cur; None ends the iteration.
MapIterNext(m) == IF m.cur = None THEN m ELSE [m EXCEPT !.cur = m.recs[@].next]

MapClear(m) == NewMap

\* The front records go one after the other, through the iterator.
MapCutFront(m, num) ==
  LET after[i \in 0..num] ==
        IF i = 0 THEN MapIterInit(m)
        ELSE LET c == after[i - 1]
             IN IF c.cur = None THEN c ELSE MapOut(MapIterNext(c), c.cur)
  IN after[num]

\* A serialized map: its records in stored order.
MapDump(m) == [i \in DOMAIN Order(m) |-> <<Order(m)[i], m.recs[Order(m)[i]].val>>]

MapLoad(dump) ==
  LET loaded[i \in 0 .. Len(dump)] ==
        IF i = 0 THEN NewMap ELSE MapPutKeep(loaded[i - 1], dump[i][1], dump[i][2])
  IN loaded[Len(dump)]

MapDup(m) ==
  LET copied[i \in 0 .. Len(MapDump(m))] ==
        IF i = 0 THEN NewMap ELSE MapPut(copied[i - 1], MapDump(m)[i][1], MapDump(m)[i][2])
  IN copied[Len(MapDump(m))]

---------------------------------------------------------------------------
(* Soundness *)

\* The two directions of the list agree, and each end is an end.
ChainSound(m) ==
  LET ks == Order(m)
  IN /\ {ks[i] : i \in DOMAIN ks} = DOMAIN m.recs /\ Len(ks) = m.rnum
     /\ m.last = IF ks = <<>> THEN None ELSE ks[Len(ks)]
     /\ \A i \in DOMAIN ks : m.recs[ks[i]].prev = IF i = 1 THEN None ELSE ks[i - 1]

\* Every record is found from its bucket, and only one slot points to it.
BucketsSound(m) ==
  \A k \in DOMAIN m.recs : /\ MapHas(m, k)
                           /\ Cardinality({s \in Slots(m) : At(m, s) = k}) = 1

CurSound(m) == m.cur \in DOMAIN m.recs \cup {None}

MapSound(m) == ChainSound(m) /\ BucketsSound(m) /\ CurSound(m)
=============================================================================
