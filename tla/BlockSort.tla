------------------------------- MODULE BlockSort -------------------------------
(***************************************************************************)
(* The block-sorting compression of jni/cpp/tcutil.c (TCBS): each unit of  *)
(* a text is sorted by the Burrows-Wheeler transform, the result moved to  *)
(* front, and the numbers written in Elias gamma code.  A byte is a number *)
(* below 2^ByteBits; a text is a sequence of bytes; a rotation of a unit   *)
(* is the index at which it begins, counted from 0 as the C code does.     *)
(***************************************************************************)
EXTENDS Integers, Sequences, FiniteSets, SequencesExt, FiniteSetsExt

CONSTANTS
  ByteBits,  \* 8
  Unit,      \* TCBSENCUNIT, the bytes sorted at a time
  CntMin,    \* TCBWTCNTMIN, from so many elements on they are counted
  CntLevels  \* TCBWTCNTLV, so many levels of counting

Byte == 0 .. 2^ByteBits - 1

ASSUME BlockSortAssumption ==
  /\ {ByteBits, Unit, CntMin} \subseteq Nat \ {0} /\ CntLevels \in Nat
  /\ Unit <= 4^ByteBits

Minimum(a, b) == IF a <= b THEN a ELSE b

---------------------------------------------------------------------------
(* Sorting.  The elements of an array are compared by the sequences that   *)
(* the function `key' gives for them.                                      *)

\* The sign of the first difference; the keys have one length.
Order(k, l) ==
  LET differ == {j \in DOMAIN k : k[j] # l[j]}
  IN IF differ = {} THEN 0 ELSE IF k[Min(differ)] < l[Min(differ)] THEN -1 ELSE 1

\* x is put behind the last smaller element, if its predecessor is larger.
Inserted(sorted, x, key) ==
  LET smaller == {j \in DOMAIN sorted : Order(key[sorted[j]], key[x]) < 0}
      place == IF sorted # <<>> /\ Order(key[Last(sorted)], key[x]) > 0
               THEN Max({0} \cup smaller) ELSE Len(sorted)
  IN InsertAt(sorted, place + 1, x)

InsertSorted(array, key) ==
  FoldLeft(LAMBDA sorted, x : Inserted(sorted, x, key), <<>>, array)

Swapped(array, i, j) == [array EXCEPT ![i + 1] = array[j + 1], ![j + 1] = array[i + 1]]

Above(array, i, j, key) == Order(key[array[i + 1]], key[array[j + 1]]) > 0

\* The element at `bot' sinks: its child is at twice its index, or behind that.
RECURSIVE Sunk(_, _, _, _)
Sunk(array, bot, top, key) ==
  LET twice == bot * 2
      i == IF twice < top /\ Above(array, twice + 1, twice, key) THEN twice + 1 ELSE twice
  IN IF twice > top \/ ~Above(array, i, bot, key) THEN array
     ELSE Sunk(Swapped(array, bot, i), i, top, key)

RECURSIVE Heaped(_, _, _)
Heaped(array, bottom, key) ==
  IF bottom = 0 THEN array
  ELSE Heaped(Sunk(array, bottom - 1, Len(array) - 1, key), bottom - 1, key)

RECURSIVE Emptied(_, _, _)
Emptied(array, top, key) ==
  IF top <= 0 THEN array
  ELSE Emptied(Sunk(Swapped(array, 0, top), 0, top - 1, key), top - 1, key)

HeapSorted(array, key) ==
  Emptied(Heaped(array, ((Len(array) - 1) \div 2) + 1, key), Len(array) - 1, key)

---------------------------------------------------------------------------
(* The transform *)

Rotation(t, i) == [j \in 1 .. Len(t) |-> t[((i + j - 1) % Len(t)) + 1]]

\* What is compared of the rotations when `skip' bytes are known to be equal.
RotKeys(t, skip) == [i \in 0 .. Len(t) - 1 |-> SubSeq(Rotation(t, i), skip + 1, Len(t))]

\* Mutant: a bucket of rotations is taken for sorted.
BucketUnsorted(bucket, t, level) == bucket

\* The bytes at `skip' are counted, each bucket filled from its end, and sorted.
RECURSIVE CountSorted(_, _, _), BucketSorted(_, _, _)

BucketSorted(bucket, t, level) ==
  LET skip == (IF level < 0 THEN 0 ELSE level) + 1
  IN IF Len(bucket) < CntMin THEN InsertSorted(bucket, RotKeys(t, skip))
     ELSE IF level \in 0 .. CntLevels - 1 THEN CountSorted(bucket, t, level + 1)
     ELSE HeapSorted(bucket, RotKeys(t, skip))

CountSorted(array, t, level) ==
  LET skip == IF level < 0 THEN 0 ELSE level
      bucket(c) == FoldLeft(LAMBDA b, i : IF Rotation(t, i)[skip + 1] = c THEN <<i>> \o b ELSE b,
                            <<>>, array)
  IN FlattenSeq([n \in 1 .. 2^ByteBits |-> BucketSorted(bucket(n - 1), t, level)])

\* All rotations in order; `level' is where the counting starts.
Rotations(t, level) ==
  LET all == [i \in 1 .. Len(t) |-> i - 1]
  IN IF Len(t) >= CntMin THEN CountSorted(all, t, level) ELSE InsertSorted(all, RotKeys(t, 0))

\* The last byte of each rotation, and the place of the text itself.
Transformed(t, level) ==
  LET array == Rotations(t, level)
  IN [text |-> [i \in DOMAIN array |-> t[IF array[i] = 0 THEN Len(t) ELSE array[i]]],
      idx |-> (CHOOSE i \in DOMAIN array : array[i] = 0) - 1]

\* The bytes in order; `tcbwtsortchrcount' writes each as often as it counts it.
SortedBytes(t) ==
  IF Len(t) >= CntMin
  THEN FlattenSeq([n \in 1 .. 2^ByteBits |-> SelectSeq(t, LAMBDA c : c = n - 1)])
  ELSE InsertSorted(t, [c \in Byte |-> <<c>>])

\* Each byte with the number of equal bytes before it.
Numbered(t) ==
  [i \in DOMAIN t |-> <<t[i], Cardinality({j \in 1 .. i - 1 : t[j] = t[i]})>>]

\* Records <<fchr, tchr>>, sorted by the latter.
SortedRecs(recs) ==
  IF Len(recs) >= CntMin
  THEN FlattenSeq([n \in 1 .. 2^ByteBits |-> SelectSeq(recs, LAMBDA r : r[2][1] = n - 1)])
  ELSE InsertSorted(recs, [r \in Range(recs) |-> r[2]])

\* tcbwtsearchrec: the index, from 0, of the record with the last byte `chr'.
RECURSIVE Search(_, _, _, _)
Search(recs, chr, bottom, top) ==
  LET mid == (bottom + top) \div 2
      order == Order(recs[mid + 1][2], chr)
  IN IF order = 0 THEN mid
     ELSE IF order < 0
     THEN IF mid + 1 >= Len(recs) \/ mid + 1 > top THEN -1 ELSE Search(recs, chr, mid + 1, top)
     ELSE IF bottom > mid - 1 THEN -1 ELSE Search(recs, chr, bottom, mid - 1)

\* So many bytes, each the first of the record whose last byte is the one before.
RECURSIVE Traced(_, _, _)
Traced(recs, i, num) ==
  IF num = 0 THEN <<>>
  ELSE <<recs[i + 1][1][1]>> \o Traced(recs, Search(recs, recs[i + 1][1], 0, Len(recs)), num - 1)

Restored(t, idx) ==
  LET first == Numbered(SortedBytes(t))
      last == Numbered(t)
      array == [i \in DOMAIN t |-> <<first[i], last[i]>>]
      recs == SortedRecs(array)
      start == array[(IF idx >= Len(t) THEN 0 ELSE idx) + 1][1]
  IN IF t = <<>> THEN <<>>
     ELSE Traced(recs, (CHOOSE i \in DOMAIN recs : recs[i][1] = start) - 1, Len(t))

BwtEncode(t) ==
  IF t = <<>> THEN [text |-> <<>>, idx |-> 0] ELSE Transformed(t, -1)

BwtDecode(t, idx) == IF idx < 0 THEN <<>> ELSE Restored(t, idx)

---------------------------------------------------------------------------
(* Move to front *)

MtfTable == [i \in 1 .. 2^ByteBits |-> i - 1]

ToFront(table, i) == <<table[i]>> \o RemoveAt(table, i)

MtfStep(s, c) == LET i == CHOOSE j \in DOMAIN s.table : s.table[j] = c
                 IN [out |-> Append(s.out, i - 1), table |-> ToFront(s.table, i)]

MtfEncode(t) == FoldLeft(MtfStep, [out |-> <<>>, table |-> MtfTable], t).out

MtfBack(s, idx) ==
  [out |-> Append(s.out, s.table[idx + 1]), table |-> ToFront(s.table, idx + 1)]

MtfDecode(t) == FoldLeft(MtfBack, [out |-> <<>>, table |-> MtfTable], t).out

---------------------------------------------------------------------------
(* Elias gamma code in a stream of bits.  The first three bits of a stream *)
(* say how many bits of its last byte of eight are used.                   *)

Bits(n, num) == [i \in 1 .. num |-> (n \div 2^(i - 1)) % 2]

Stream(bits) ==
  LET used == 3 + Len(bits)
  IN Bits(used % 8, 3) \o bits \o [i \in 1 .. 8 - (used % 8) |-> 0]

\* TCBITSTRMNUM of a stream of so many bytes.
BitNum(s) == (Len(s) \div 8 - 1) * 8 + s[1] + 2 * s[2] + 4 * s[3] - 3

Log(n) == CHOOSE p \in 0 .. ByteBits : 2^p <= n /\ n < 2^(p + 1)

Gamma(c) == LET plen == Log(c + 1)
            IN [i \in 1 .. plen |-> 0] \o Reverse(Bits(c + 1, plen + 1))

GammaEncode(t) == Stream(FlattenSeq([i \in DOMAIN t |-> Gamma(t[i])]))

\* The number behind so many zeros, and the rest.
RECURSIVE Ungamma(_)
Ungamma(bits) ==
  IF bits = <<>> THEN <<>>
  ELSE LET ones == {i \in DOMAIN bits : bits[i] = 1}
           zeros == IF ones = {} THEN Len(bits) ELSE Min(ones) - 1
           end == Minimum(Len(bits), 2 * zeros + 1)
           num == FoldLeft(LAMBDA n, b : 2 * n + b, 1, SubSeq(bits, zeros + 2, end))
       IN <<num - 1>> \o Ungamma(SubSeq(bits, end + 1, Len(bits)))

GammaDecode(s) == Ungamma(SubSeq(s, 4, 3 + BitNum(s)))

---------------------------------------------------------------------------
(* tcbsencode and tcbsdecode: units, each behind two bytes for its index *)

Units(t) ==
  [n \in 1 .. (Len(t) + Unit - 1) \div Unit |->
     SubSeq(t, (n - 1) * Unit + 1, Minimum(n * Unit, Len(t)))]

SortedUnit(u) == LET b == Transformed(u, 0)
                 IN <<b.idx % 2^ByteBits, b.idx \div 2^ByteBits>> \o b.text

BsEncode(t) ==
  LET us == Units(t)
  IN GammaEncode(MtfEncode(FlattenSeq([n \in DOMAIN us |-> SortedUnit(us[n])])))

RECURSIVE UnsortedUnits(_)
UnsortedUnits(t) ==
  IF t = <<>> THEN <<>>
  ELSE LET end == 2 + Minimum(Unit, Len(t) - 2)
       IN Restored(SubSeq(t, 3, end), t[1] + 2^ByteBits * t[2])
            \o UnsortedUnits(SubSeq(t, end + 1, Len(t)))

BsDecode(s) == UnsortedUnits(MtfDecode(GammaDecode(s)))
=============================================================================
