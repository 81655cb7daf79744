-------------------------------- MODULE TCList ---------------------------------
(***************************************************************************)
(* The array list of jni/cpp/tcutil.c (TCLIST), as operators on one        *)
(* record.  The elements are the `num' slots of the array from `start' on; *)
(* the other slots hold what was there before, or nothing yet.  A slot     *)
(* outside the array cannot be written: what is written there is lost.     *)
(***************************************************************************)
EXTENDS TCCommon, SequencesExt

CONSTANTS
  Unit,    \* TCLISTUNIT, the slots of a new list
  Period   \* 256: shift compacts when the start is a multiple of it

ASSUME ListAssumption == {Unit, Period} \subseteq Nat \ {0}

Fresh(anum) == [i \in 0 .. anum - 1 |-> None]

NewList == [array |-> Fresh(Unit), start |-> 0, num |-> 0]

Anum(l) == Cardinality(DOMAIN l.array)

\* The elements in order.
Elements(l) == [i \in 1 .. l.num |-> l.array[l.start + i - 1]]

\* Mutant: the slots are copied one after the other, as memcpy may do.
Memcpy(array, to, from, n) ==
  FoldLeft(LAMBDA a, i : [a EXCEPT ![to + i - 1] = a[from + i - 1]], array, [i \in 1 .. n |-> i])

\* n slots are copied from one place of the array to another.
Memmove(array, to, from, n) ==
  [i \in DOMAIN array |-> IF i \in to .. to + n - 1 THEN array[i - to + from] ELSE array[i]]

\* A full array grows by the number of elements and one.
RoomFor(l) ==
  IF l.start + l.num < Anum(l) THEN l
  ELSE [l EXCEPT !.array = [i \in 0 .. Anum(l) + l.num |->
                              IF i \in DOMAIN l.array THEN l.array[i] ELSE None]]

ListPush(l, e) ==
  LET r == RoomFor(l)
  IN [r EXCEPT !.array[r.start + r.num] = e, !.num = @ + 1]

ListPop(l) == IF l.num < 1 THEN l ELSE [l EXCEPT !.num = @ - 1]

\* Elements without room in front move to the end of the array.
ListUnshift(l, e) ==
  LET grown == IF l.start < 1 THEN RoomFor(l) ELSE l
      from == Anum(grown) - l.num
      r == IF l.start < 1
           THEN [grown EXCEPT !.start = from, !.array = Memmove(@, from, 0, l.num)]
           ELSE l
  IN [r EXCEPT !.array[r.start - 1] = e, !.start = @ - 1, !.num = @ + 1]

ListShift(l) ==
  LET s == [l EXCEPT !.start = @ + 1, !.num = @ - 1]
  IN IF l.num < 1 THEN l
     ELSE IF s.start % Period = 0 /\ s.start > s.num \div 2
     THEN [s EXCEPT !.array = Memmove(@, 0, s.start, s.num), !.start = 0]
     ELSE s

ListInsert(l, index, e) ==
  LET r == RoomFor(l)
      at == r.start + index
  IN IF index > l.num THEN l
     ELSE [r EXCEPT !.array = [Memmove(@, at + 1, at, r.num - index) EXCEPT ![at] = e],
                    !.num = @ + 1]

ListRemove(l, index) ==
  LET at == l.start + index
  IN IF index >= l.num THEN l
     ELSE [l EXCEPT !.array = Memmove(@, at, at + 1, l.num - 1 - index), !.num = @ - 1]

ListOver(l, index, e) ==
  IF index >= l.num THEN l ELSE [l EXCEPT !.array[l.start + index] = e]

\* The list with its elements replaced in place.
Rewritten(l, es) ==
  [l EXCEPT !.array = [i \in DOMAIN @ |-> IF i \in l.start .. l.start + l.num - 1
                                          THEN es[i - l.start + 1] ELSE @[i]]]

\* The orders in which the elements of a sequence may be.
Permuted(es) == {[i \in DOMAIN es |-> es[p[i]]] : p \in Bijection(DOMAIN es, DOMAIN es)}

Ascending(es) == \A i \in 1 .. Len(es) - 1 : es[i] <= es[i + 1]

\* qsort.
ListSort(l) == Rewritten(l, CHOOSE es \in Permuted(Elements(l)) : Ascending(es))

Swapped(array, i, j) == [array EXCEPT ![i] = array[j], ![j] = array[i]]

\* The swaps from both ends to the middle.
ListInvert(l) ==
  LET swaps[i \in 0 .. l.num \div 2] ==
        IF i = 0 THEN l.array
        ELSE Swapped(swaps[i - 1], l.start + i - 1, l.start + l.num - i)
  IN [l EXCEPT !.array = swaps[l.num \div 2]]

ListClear(l) == [l EXCEPT !.start = 0, !.num = 0]

\* A list with as many slots as elements, and none without elements.
ListDup(l) == IF l.num < 1 THEN NewList
              ELSE [array |-> [i \in 0 .. l.num - 1 |-> l.array[l.start + i]],
                    start |-> 0, num |-> l.num]

\* The index of an element, or -1.
LSearch(l, e) ==
  LET hits == {i \in 0 .. l.num - 1 : l.array[l.start + i] = e}
  IN IF hits = {} THEN -1 ELSE CHOOSE i \in hits : \A j \in hits : i <= j

\* An array of twice the slots when all of `num' are used.
Doubled(array, num) ==
  LET anum == Cardinality(DOMAIN array)
  IN IF num < anum THEN array
     ELSE [i \in 0 .. 2 * anum - 1 |-> IF i < anum THEN array[i] ELSE None]

\* A list read from a serialized one of `size' bytes: the array has room for
\* one element in four bytes and doubles when it is full.
ListLoad(es, size) ==
  LET read[num \in 0 .. Len(es)] ==
        IF num = 0 THEN Fresh(size \div 4 + 1)
        ELSE [Doubled(read[num - 1], num - 1) EXCEPT ![num - 1] = es[num]]
  IN [array |-> read[Len(es)], start |-> 0, num |-> Len(es)]
=============================================================================
