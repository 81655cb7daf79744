------------------------------- MODULE HashFile -------------------------------
(***************************************************************************)
(* The file format of the hash database (jni/cpp/tchdb.c) and the          *)
(* operations that rearrange it, as operators on one record `db' that      *)
(* stands for the open TCHDB object together with the file it maps.        *)
(*                                                                         *)
(* The region of the file behind the header is a sequence of segments.  A  *)
(* segment is a record (magic "rec"), a node of the binary tree of its     *)
(* bucket, or a free block (magic "fb").  `seg' maps the offset of a       *)
(* segment's header to what the header says; a write of n bytes at an      *)
(* offset destroys every header strictly inside the n bytes.  The free     *)
(* block pool is a partial, in-memory index of the free blocks, ordered by *)
(* size except where the code leaves it unordered.                         *)
(*                                                                         *)
(* Sizes are in bytes, and small: the configurations choose them.  Offset  *)
(* 0 is the null pointer.  HDBFBMAXSIZ (512 MB) exceeds the largest block  *)
(* the program ever opens (100 MB) and is left out.                        *)
(***************************************************************************)
EXTENDS Integers, Sequences, FiniteSets, SequencesExt

CONSTANTS
  Keys,         \* the keys of records
  Buckets,      \* the indices of the bucket array
  BucketOf,     \* [Keys -> Buckets]: the first hash value of tchdbbidx
  HashOf,       \* [Keys -> Nat]: the second hash value of tchdbbidx
  KeyOrd,       \* [Keys -> Nat]: the order of tcreckeycmp
  ValSize(_),   \* the size of a stored value
  HeadSize,     \* the size of a record header without key and value
  KeySize,      \* the size of a key
  Align,        \* hdb->align, a power of two
  Frec,         \* hdb->frec, the offset of the first segment
  FbpMax,       \* hdb->fbpmax, the nominal capacity of the free block pool
  SaveMax,      \* the blocks that the header has room for when the pool is saved
  AlwRat,       \* HDBFBPALWRAT, the allowance ratio of the pool
  MgFreq,       \* HDBFBPMGFREQ, misses of the pool before it is merged
  MaxPad,       \* UINT16_MAX, the largest padding a record header can hold
  DfUnit,       \* hdb->dfunit, freed blocks before automatic defragmentation
  Traced        \* whether `past' keeps what each write of a call leaves

ASSUME LayoutAssumption ==
  /\ BucketOf \in [Keys -> Buckets] /\ HashOf \in [Keys -> Nat]
  /\ KeyOrd \in [Keys -> Nat]
  /\ \A k, l \in Keys : KeyOrd[k] = KeyOrd[l] => k = l
  /\ {HeadSize, KeySize, Align, Frec, FbpMax, AlwRat, MgFreq} \subseteq Nat \ {0}
  /\ {SaveMax, MaxPad, DfUnit} \subseteq Nat /\ MaxPad >= Align /\ Frec % Align = 0 /\ AlwRat > 1
  /\ Traced \in BOOLEAN

\* UINT64_MAX, the iterator past every end of file.
IterEnd == 2^30

Lesser(a, b) == IF a <= b THEN a ELSE b

---------------------------------------------------------------------------
(* Sizes and segments *)

\* Mutant: no padding.
PadNone(off) == 0

PadSize(off) == (Align - (off % Align)) % Align

RecSize(val) == HeadSize + KeySize + ValSize(val)

FB(n) == [magic |-> "fb", rsiz |-> n]

Rec(n, k, v, l, r) ==
  [magic |-> "rec", rsiz |-> n, key |-> k, val |-> v, left |-> l, right |-> r]

IsFB(db, off) == db.seg[off].magic = "fb"

IsRec(db, off) == off \in DOMAIN db.seg /\ ~IsFB(db, off)

\* The headers when `s' is written at `off' and n bytes from there on lose
\* theirs.
Covered(seg, off, n, s) ==
  [o \in {p \in DOMAIN seg : p <= off \/ p >= off + n} \cup {off}
     |-> IF o = off THEN s ELSE seg[o]]

\* What the process leaves if it dies now: the file after the last write.
Left(db) ==
  IF db.past = <<>>
  THEN [seg |-> db.seg, bucket |-> db.bucket, fsiz |-> db.fsiz, rnum |-> db.rnum]
  ELSE Last(db.past)

\* `new' is what a write that leaves the file `img' makes of db.
Wrote(db, new, img) == IF Traced THEN [new EXCEPT !.past = Append(db.past, img)] ELSE new

\* A record is written with its padding.
WriteSeg(db, off, n, s) ==
  Wrote(db, [db EXCEPT !.seg = Covered(@, off, n, s)],
        [Left(db) EXCEPT !.seg = Covered(@, off, n, s)])

\* Of a free block only the header is written: headers behind it stay in the
\* file, where nothing leads to them once the call is done.
WriteFB(db, off, n) ==
  Wrote(db, [db EXCEPT !.seg = Covered(@, off, n, FB(n))],
        [Left(db) EXCEPT !.seg = Covered(@, off, 1, FB(n))])

\* The header of the file: where it ends and how many records it has.
SetFsiz(db, n) == Wrote(db, [db EXCEPT !.fsiz = n], [Left(db) EXCEPT !.fsiz = n])
SetRnum(db, n) == Wrote(db, [db EXCEPT !.rnum = n], [Left(db) EXCEPT !.rnum = n])

\* The offsets of the segments from `from' to the end of the file.  A reader
\* that meets anything but a header stops.
OffsetsFrom(db, from) ==
  LET offs[o \in Nat] ==
        IF o >= db.fsiz \/ o \notin DOMAIN db.seg THEN <<>>
        ELSE <<o>> \o offs[o + db.seg[o].rsiz]
  IN offs[from]

Offsets(db) == OffsetsFrom(db, Frec)

\* The part of a sequence that lies in a set.
Selected(s, S) ==
  LET part[i \in 0 .. Len(s)] ==
        IF i = 0 THEN <<>>
        ELSE IF s[i] \in S THEN Append(part[i - 1], s[i]) ELSE part[i - 1]
  IN part[Len(s)]

RecOffsets(db) == Selected(Offsets(db), {o \in DOMAIN db.seg : ~IsFB(db, o)})

\* What tchdbopen makes of an empty file.
EmptyDB ==
  [seg |-> <<>>, bucket |-> [b \in Buckets |-> 0], rnum |-> 0, fsiz |-> Frec,
   pool |-> <<>>, fbpmis |-> 0, iter |-> 0, dfcur |-> Frec, dfcnt |-> 0, past |-> <<>>]

---------------------------------------------------------------------------
(* The free block pool *)

\* tcfbpsortbyoff and tcfbpsortbyrsiz: a heap sort whose node i has the
\* children 2i and 2i+1, counted from 0.  It is not stable, and the order it
\* leaves blocks of one size in decides which of them is reused.
HeapSort(s, by) ==
  LET n == Len(s)
      Orders == [1 .. n -> Range(s)]
      At(a, i) == a[i + 1][by]
      Swap(a, i, j) == [a EXCEPT ![i + 1] = a[j + 1], ![j + 1] = a[i + 1]]
      sift[x \in [a : Orders, m : 0 .. n - 1, top : 0 .. n - 1]] ==
        LET c == 2 * x.m
            i == IF c < x.top /\ At(x.a, c + 1) > At(x.a, c) THEN c + 1 ELSE c
        IN IF c > x.top \/ At(x.a, x.m) >= At(x.a, i) THEN x.a
           ELSE sift[[a |-> Swap(x.a, x.m, i), m |-> i, top |-> x.top]]
      Sift(a, m, top) == sift[[a |-> a, m |-> m, top |-> top]]
      heap[m \in 0 .. n] ==
        IF m > (n - 1) \div 2 THEN s ELSE Sift(heap[m + 1], m, n - 1)
      drained[i \in 0 .. n] ==
        IF i <= 1 THEN heap[0]
        ELSE Sift(Swap(drained[i - 1], 0, n - i + 1), 0, n - i)
  IN drained[n]

SortByOff(pool) == HeapSort(pool, "off")
SortByRsiz(pool) == HeapSort(pool, "rsiz")

Drop(s, n) == SubSeq(s, n + 1, Len(s))

\* Adjacent blocks of a pool in the order of the file become one, in pairs: the
\* second block of a pair is spent and a third that follows stays on its own.
JoinPairs(s) ==
  LET joins(i) == i < Len(s) /\ s[i].off + s[i].rsiz = s[i + 1].off
      join[i \in 1 .. Len(s) + 1] ==
        IF i > Len(s) THEN <<>>
        ELSE IF joins(i)
             THEN <<[s[i] EXCEPT !.rsiz = @ + s[i + 1].rsiz]>> \o join[i + 2]
             ELSE <<s[i]>> \o join[i + 1]
  IN join[1]

\* A cursor on a block that merging spends moves behind it.
PastSpent(old, new, cur) ==
  LET spent == {b \in Range(old) : b.off = cur /\ \A c \in Range(new) : c.off # cur}
  IN cur + (IF spent = {} THEN 0 ELSE (CHOOSE b \in spent : TRUE).rsiz)

WithPool(db, pool) ==
  [db EXCEPT !.pool = pool, !.fbpmis = -Len(pool),
             !.iter = PastSpent(db.pool, pool, @), !.dfcur = PastSpent(db.pool, pool, @)]

FbpMerge(db) == WithPool(db, JoinPairs(SortByOff(db.pool)))

\* The binary search of tchdbfbpinsert and tchdbfbpsearch: the index of a
\* block of at least n bytes, 0 when it meets none.
Fit(pool, n) ==
  LET num == Len(pool)
      fit[x \in [l : 0 .. num, r : -1 .. num, cand : 0 .. num]] ==
        LET i == (x.l + x.r) \div 2
        IN IF x.r < x.l \/ i >= num THEN x.cand
           ELSE IF pool[i + 1].rsiz = n THEN i + 1
           ELSE fit[IF pool[i + 1].rsiz > n THEN [x EXCEPT !.r = i - 1, !.cand = i + 1]
                    ELSE [x EXCEPT !.l = i + 1]]
  IN fit[[l |-> 0, r |-> num, cand |-> 0]]

\* A pool at its limit is merged and loses its smallest blocks.
Largest(s) == IF Len(s) > FbpMax THEN Drop(s, Len(s) - FbpMax) ELSE s

Shrunk(db) == [db EXCEPT !.fbpmis = 0, !.pool = Largest(SortByRsiz(@))]

Enter(db, off, n) ==
  LET cand == Fit(db.pool, n)
      at == IF cand = 0 THEN Len(db.pool) + 1 ELSE cand
  IN [db EXCEPT !.pool = InsertAt(@, at, [off |-> off, rsiz |-> n]),
                !.dfcnt = Lesser(@ + 1, DfUnit + 1)]

FbpInsert(db, off, n) ==
  Enter(IF Len(db.pool) < FbpMax * AlwRat THEN db ELSE Shrunk(FbpMerge(db)), off, n)

\* A region for n bytes at the end of the file, after MgFreq misses with the
\* pool merged.
Missed(db) ==
  [off |-> db.fsiz, rsiz |-> 0,
   db |-> IF db.fbpmis < MgFreq THEN db ELSE [FbpMerge(db) EXCEPT !.pool = SortByRsiz(@)]]

\* A region that a block of the pool provides.  A block more than twice too
\* large is cut; what is left keeps its place in the pool, whose order by size
\* it may break.
Provided(db, cand, b, n) ==
  LET size == n + PadSize(b.off + n)
      rest == [off |-> b.off + size, rsiz |-> b.rsiz - size]
  IN IF b.rsiz > 2 * n /\ b.rsiz >= 2 * size
     THEN [off |-> b.off, rsiz |-> size,
           db |-> WriteFB([db EXCEPT !.pool[cand] = rest], rest.off, rest.rsiz)]
     ELSE [off |-> b.off, rsiz |-> b.rsiz, db |-> [db EXCEPT !.pool = RemoveAt(@, cand)]]

Candidate(db, cand, n) ==
  IF cand = 0 THEN Missed([db EXCEPT !.fbpmis = @ + 1])
  ELSE Provided(db, cand, db.pool[cand], n)

\* A region for n bytes: [db, off, rsiz], rsiz = 0 for the end of the file.
FbpSearch(db, n) ==
  IF db.pool = <<>> THEN [db |-> db, off |-> db.fsiz, rsiz |-> 0]
  ELSE Candidate(db, Fit(db.pool, n), n)

\* The end of the free blocks that lie from `from' on.
FreeEnd(db, from) ==
  LET end[o \in Nat] ==
        IF o >= db.fsiz \/ o \notin DOMAIN db.seg \/ ~IsFB(db, o) THEN o
        ELSE end[o + db.seg[o].rsiz]
  IN end[from]

\* Mutant: a cursor stays on a block that is taken in.
PastNothing(cur, from, end) == cur

\* A cursor that stands on one of the blocks between moves behind them.
Past(cur, from, end) == IF cur >= from /\ cur < end THEN end ELSE cur

\* Mutant: the pool keeps the blocks that were taken in.
OutsideAll(pool, off, end) == pool

\* What the pool keeps when the region from off to end is taken.
Outside(pool, off, end) == Selected(pool, {b \in Range(pool) : b.off < off \/ b.off > end})

\* The region from off to end, free of the pool's blocks: a region more than
\* twice too large for n bytes is cut.
Extended(db, off, end, n) ==
  LET size == n + PadSize(off + n)
      rest == end - off - size
  IN IF end - off > 2 * n /\ end - off >= 2 * size
     THEN [db |-> FbpInsert(WriteFB(db, off + size, rest), off + size, rest),
           off |-> off, rsiz |-> size]
     ELSE [db |-> db, off |-> off, rsiz |-> end - off]

\* The region at `off' of `rsiz' bytes takes in the free blocks that follow it
\* until it can hold n bytes, or stays too small.  The cursors leave those
\* blocks even when the room does not suffice.
SpliceTo(db, off, rsiz, end, n) ==
  LET moved == [db EXCEPT !.iter = Past(@, off + rsiz, end), !.dfcur = Past(@, off + rsiz, end)]
  IN IF end - off < n THEN [db |-> moved, off |-> off, rsiz |-> rsiz]
     ELSE Extended([moved EXCEPT !.pool = Outside(@, off, end)], off, end, n)

FbpSplice(db, off, rsiz, n) == SpliceTo(db, off, rsiz, FreeEnd(db, off + rsiz), n)

\* The blocks of [base, next) leave the pool and the block at `off' (0: none)
\* enters it.  The new block takes the place of the first one that is not
\* smaller, wherever that one lies, and a full pool loses its first block.
FbpTrim(db, base, next, off, n) ==
  LET old == IF Len(db.pool) >= FbpMax * AlwRat THEN Tail(db.pool) ELSE db.pool
      new == [off |-> off, rsiz |-> n]
      place == IF off = 0 THEN 0
               ELSE SelectInSeq(old, LAMBDA b : b.rsiz >= n)
      Keep(s) == Selected(s, {b \in Range(s) : b.off < base \/ b.off >= next})
      pool == IF place = 0
              THEN Keep(old) \o (IF off = 0 THEN <<>> ELSE <<new>>)
              ELSE Keep(SubSeq(old, 1, place - 1)) \o <<new>> \o Keep(Drop(old, place))
  IN [db EXCEPT !.pool = pool]

---------------------------------------------------------------------------
(* Records and the trees of the buckets *)

\* A tree entry: the bucket of a key, or a child pointer of the record at off.
Root == [off |-> 0, side |-> "bucket"]
Child(off, side) == [off |-> off, side |-> side]

Pointing(file, k, ent, target) ==
  IF ent.side = "bucket" THEN [file EXCEPT !.bucket[BucketOf[k]] = target]
  ELSE IF ent.side = "left" THEN [file EXCEPT !.seg[ent.off].left = target]
  ELSE [file EXCEPT !.seg[ent.off].right = target]

SetEntry(db, k, ent, target) ==
  Wrote(db, Pointing(db, k, ent, target), Pointing(Left(db), k, ent, target))

\* Whether a descent for k goes right at the record r.
Less(k, r) == \/ HashOf[k] < HashOf[r.key]
              \/ HashOf[k] = HashOf[r.key] /\ KeyOrd[k] < KeyOrd[r.key]

\* The descent that get, put, out, iterjump and shiftrec share: where the
\* record of k is (0: nowhere) and the entry that points, or would point, to it.
Find(db, k) ==
  LET walk[f \in [off : Nat, ent : [off : Nat, side : {"bucket", "left", "right"}]]] ==
        LET r == db.seg[f.off]
        IN IF ~IsRec(db, f.off) \/ r.key = k THEN f
           ELSE IF Less(k, r) THEN walk[[off |-> r.right, ent |-> Child(f.off, "right")]]
           ELSE walk[[off |-> r.left, ent |-> Child(f.off, "left")]]
  IN walk[[off |-> db.bucket[BucketOf[k]], ent |-> Root]]

Has(db, k) == Find(db, k).off # 0

\* Mutant: the end of the file moves before the record is written behind it.
GrowFirst(db, off, rec, grows) ==
  WriteSeg(IF grows THEN SetFsiz(db, off + rec.rsiz) ELSE db, off, rec.rsiz, rec)

\* The record is written; at the end of the file, the end moves behind it.
StoreAt(db, off, rec, grows) ==
  LET stored == WriteSeg(db, off, rec.rsiz, rec)
  IN IF grows THEN SetFsiz(stored, off + rec.rsiz) ELSE stored

\* Whether a path of pointers from `off' on, each record choosing the next,
\* comes to an end over records only.  A call that meets anything else goes on
\* with the fields of the record before, or with none.
Sure(db, off, Following(_)) ==
  LET sure[o \in Nat, steps \in Nat] ==
        \/ o = 0
        \/ /\ steps > 0 /\ o \in DOMAIN db.seg /\ ~IsFB(db, o)
           /\ sure[Following(db.seg[o]), steps - 1]
  IN sure[off, Cardinality(DOMAIN db.seg)]

\* Whether the descent for k comes to an end.
SureOf(db, k) ==
  Sure(db, db.bucket[BucketOf[k]],
       LAMBDA r : IF r.key = k THEN 0 ELSE IF Less(k, r) THEN r.right ELSE r.left)

\* A region of which a record takes `size' bytes.
Fill(g, size, r, ent) ==
  LET rest == g.rsiz - size
      cut  == IF g.rsiz = 0 \/ rest = 0 THEN g.db
              ELSE FbpInsert(WriteFB(g.db, g.off + size, rest), g.off + size, rest)
      rec  == Rec(size, r.key, r.val, r.left, r.right)
  IN SetEntry(StoreAt(cut, g.off, rec, g.rsiz = 0), r.key, ent, g.off)

\* tchdbwriterec once the region is large enough, or the end of the file.  A
\* padding too large for the header is cut off as a free block.
PlaceRec(g, r, ent) ==
  LET need == RecSize(r.val)
  IN Fill(g, IF g.rsiz = 0 \/ g.rsiz - need > MaxPad
             THEN need + PadSize(g.off + need) ELSE g.rsiz, r, ent)

\* A region that is still too small is given back and another searched for.
Instead(g, need) ==
  IF need <= g.rsiz THEN g
  ELSE FbpSearch(FbpInsert(WriteFB(g.db, g.off, g.rsiz), g.off, g.rsiz), need)

\* tchdbwriterec: a region too small first takes in what follows it.
WriteRec(db, off, rsiz, r, ent) ==
  LET need == RecSize(r.val)
  IN PlaceRec(IF rsiz = 0 \/ need <= rsiz THEN [db |-> db, off |-> off, rsiz |-> rsiz]
              ELSE Instead(FbpSplice(db, off, rsiz, need), need), r, ent)

\* A record that exists is written over in place.
OverwriteRec(db, f, v) ==
  WriteRec(db, f.off, db.seg[f.off].rsiz, [db.seg[f.off] EXCEPT !.val = v], f.ent)

\* A new record is given a region that need only hold its header, and
\* tchdbwriterec finds out whether the whole of it fits.
InsertIn(g, k, v, ent) ==
  SetRnum(WriteRec(g.db, g.off, g.rsiz, Rec(0, k, v, 0, 0), ent), g.db.rnum + 1)

InsertRec(db, f, k, v) == InsertIn(FbpSearch(db, HeadSize), k, v, f.ent)

PutRec(db, f, k, v) == IF f.off # 0 THEN OverwriteRec(db, f, v) ELSE InsertRec(db, f, k, v)

\* Mutant: the right subtree hangs below the root of the left one.
JoinAtRoot(db, k, left, right) ==
  IF left = 0 \/ right = 0 THEN db ELSE SetEntry(db, k, Child(left, "right"), right)

\* The subtrees of a record that goes are joined: the right one hangs below the
\* last right child of the left one.
Join(db, k, left, right) ==
  LET last[o \in Nat] == IF ~IsRec(db, o) \/ db.seg[o].right = 0 THEN o
                         ELSE last[db.seg[o].right]
  IN IF left = 0 \/ right = 0 THEN db
     ELSE SetEntry(db, k, Child(last[left], "right"), right)

\* The record becomes a free block before the tree forgets it.
FreeFound(db, f, r) == FbpInsert(WriteFB(db, f.off, r.rsiz), f.off, r.rsiz)

RemoveFound(db, f, r) ==
  LET child == IF r.left = 0 THEN r.right ELSE r.left
      freed == Join(FreeFound(db, f, r), r.key, r.left, r.right)
  IN SetRnum(SetEntry(freed, r.key, f.ent, child), db.rnum - 1)

RemoveRec(db, f) == RemoveFound(db, f, db.seg[f.off])

\* Whether the removal finds the end of the left subtree.
SureOfEnd(db, f) ==
  LET r == db.seg[f.off]
  IN r.left = 0 \/ r.right = 0 \/ Sure(FreeFound(db, f, r), r.left, LAMBDA s : s.right)

---------------------------------------------------------------------------
(* Reorganisation *)

\* Mutant: the iterator is not told of a move.
IterStays(db, from, to) == db

IterFollows(db, from, to) == [db EXCEPT !.iter = IF @ = from THEN to ELSE @]

\* One step of tchdbdefragimpl past its first free block: the record at `cur'
\* moves down to `dest' and gives up its spare padding, a free block is taken
\* in.  The record's child pointers are those it has by then.
DefragStep(a, cur) ==
  LET s == a.db.seg[cur]
      spare == s.rsiz - RecSize(s.val)
      size == s.rsiz - (spare - (spare % Align))
  IN IF a.step = 0 THEN a
     ELSE IF s.magic = "fb"
       THEN [a EXCEPT !.db = IterFollows(@, cur, cur + s.rsiz), !.fbsiz = @ + s.rsiz,
                      !.cur = cur + s.rsiz]
     ELSE [db |-> IterFollows(WriteRec(a.db, a.dest, size, s, Find(a.db, s.key).ent),
                              cur, a.dest),
           dest |-> a.dest + size, fbsiz |-> a.fbsiz + s.rsiz - size,
           step |-> a.step - 1, cur |-> cur + s.rsiz]

\* The end of tchdbdefragimpl: the space gained is a free block, or cut off
\* the end of the file.
DefragEnd(a, base) ==
  IF a.cur < a.db.fsiz
  THEN [WriteFB(FbpTrim(a.db, base, a.cur, a.dest, a.fbsiz), a.dest, a.fbsiz)
          EXCEPT !.dfcur = a.cur - a.fbsiz]
  ELSE [FbpTrim(a.db, base, a.cur, 0, 0)
          EXCEPT !.dfcur = Frec, !.fsiz = a.dest,
                 !.seg = [o \in {p \in DOMAIN @ : p < a.dest} |-> @[o]],
                 !.iter = IF @ >= a.dest THEN IterEnd ELSE @]

\* tchdbdefragimpl: skip to the first free block, at most `steps' records
\* away, then move the records behind it down.
DefragImpl(db, steps) ==
  LET d    == [db EXCEPT !.dfcnt = 0]
      offs == OffsetsFrom(d, d.dfcur)
      p    == SelectInSeq(offs, LAMBDA o : IsFB(d, o))
      skip == IF p = 0 THEN Len(offs) ELSE p - 1
      base == offs[p]
      next == base + d.seg[base].rsiz
      start == [db |-> IterFollows(d, base, next), dest |-> base, cur |-> next,
                fbsiz |-> next - base, step |-> steps - skip]
  IN IF skip = Len(offs) /\ steps >= skip THEN [d EXCEPT !.dfcur = Frec]
     ELSE IF steps <= skip THEN [d EXCEPT !.dfcur = offs[steps + 1]]
     ELSE DefragEnd(FoldLeft(DefragStep, start, Drop(offs, p)), base)

\* The defragmentation that put, putkeep, putcat and out end with.
AutoDefrag(db, steps) ==
  IF DfUnit > 0 /\ db.dfcnt > DfUnit THEN DefragImpl(db, steps) ELSE db

PutBack(d, s) == PutRec(d, Find(d, s.key), s.key, s.val)

\* The records of a file, in its order, are put into another.
PutAll(db, new) ==
  LET offs == RecOffsets(db)
      put[i \in 0 .. Len(offs)] ==
        IF i = 0 THEN new ELSE PutBack(put[i - 1], db.seg[offs[i]])
  IN put[Len(offs)]

\* Mutant: the new file is as long as the old one before it is filled.
OptimizeAppends(db) == PutAll(db, [EmptyDB EXCEPT !.fsiz = db.fsiz])

\* tchdboptimizeimpl: the records, in the order of the file, are put into a
\* new file, which replaces the old one and is opened.
Optimize(db) == PutAll(db, EmptyDB)

\* What lives in memory only: tchdbopenimpl resets it, and it is reset here as
\* soon as the object is closed or its process gone, which nothing can tell.
Volatile(db) == [db EXCEPT !.fbpmis = 0, !.iter = 0, !.dfcur = Frec, !.dfcnt = 0]

\* The headers that a walk over the file or a descent can come to.
Reachable(file) ==
  LET step(offs) == offs \cup {o \in DOMAIN file.seg :
                      \E p \in offs \cap DOMAIN file.seg :
                        LET s == file.seg[p]
                        IN \/ o = p + s.rsiz /\ o < file.fsiz
                           \/ s.magic = "rec" /\ o \in {s.left, s.right}}
      reach[n \in Nat] == IF n = 0 THEN {Frec} \cup Range(file.bucket)
                          ELSE step(reach[n - 1])
  IN reach[Cardinality(DOMAIN file.seg)] \cap DOMAIN file.seg

\* What the death of the process within a call leaves.
LeftOver(file) ==
  [EmptyDB EXCEPT !.seg = Restrict(file.seg, Reachable(file)), !.bucket = file.bucket,
                  !.fsiz = file.fsiz, !.rnum = file.rnum]

\* tchdbsavefbp writes the pool by offset, merging one that is too large, and
\* stops at the end of its room in the header: the blocks behind are lost.
Saved(db) ==
  LET pool == IF Len(db.pool) > FbpMax THEN FbpMerge(db).pool ELSE SortByOff(db.pool)
  IN SubSeq(pool, 1, Lesser(SaveMax, Len(pool)))

\* tchdbcloseimpl.
Closed(db) == Volatile([db EXCEPT !.pool = Saved(db)])

\* tchdbopenimpl reads the pool, unless the file still carries the mark of a
\* writer that never closed it.
Opened(db, marked) ==
  Volatile([db EXCEPT !.pool = IF marked THEN <<>> ELSE SortByRsiz(@)])

---------------------------------------------------------------------------
(* Well-formed files *)

SegsOf(db) == Range(Offsets(db))

\* The segments follow each other without gap or overlap up to the end of the
\* file, and begin where the alignment lets a 32-bit entry address them.
Tiled(db) ==
  /\ db.fsiz >= Frec
  /\ LET at[o \in Nat] == \/ o = db.fsiz
                          \/ /\ o < db.fsiz /\ o \in DOMAIN db.seg
                             /\ o % Align = 0 /\ db.seg[o].rsiz > 0
                             /\ at[o + db.seg[o].rsiz]
     IN at[Frec]

LiveRecs(db) == {o \in SegsOf(db) : ~IsFB(db, o)}

\* Every record is found by the descent for its key, where it is; no free
\* block hangs in a tree; no key is stored twice; the header counts them.
Searchable(db) ==
  /\ \A o \in LiveRecs(db) : Find(db, db.seg[o].key).off = o
  /\ \A k \in Keys : Find(db, k).off \in LiveRecs(db) \cup {0}
  /\ db.rnum = Cardinality(LiveRecs(db))

\* A block of the pool is a run of whole free segments, no two blocks share
\* one, and the pool stays within the memory allocated for it.
PoolSound(db) ==
  LET Cover(b) == {o \in SegsOf(db) : b.off <= o /\ o < b.off + b.rsiz}
  IN /\ Len(db.pool) <= FbpMax * AlwRat
     /\ \A b \in Range(db.pool) :
          /\ {b.off, b.off + b.rsiz} \subseteq SegsOf(db) \cup {db.fsiz}
          /\ \A o \in Cover(b) : IsFB(db, o)
     /\ \A i, j \in DOMAIN db.pool :
          i # j => Cover(db.pool[i]) \cap Cover(db.pool[j]) = {}

\* A cursor that has not passed the end stands on the header of a segment.
CursorsSound(db) ==
  /\ db.iter \in SegsOf(db) \cup {0, db.fsiz, IterEnd}
  /\ db.dfcur \in SegsOf(db) \cup {db.fsiz}
=============================================================================
