-------------------------------- MODULE MStore ---------------------------------
(***************************************************************************)
(* A cache block as jni/cpp/mStore.cpp and the JNI functions make it of a  *)
(* hash database: values that carry the time they were written, a quota on *)
(* the size of the file, and the eviction of the oldest records when the   *)
(* quota is met.                                                           *)
(*                                                                         *)
(* The database is that of HashFile.  JNI calls come one at a time.  The   *)
(* rule is always CACHE_FIFO, the only one that CacheImp.java passes.      *)
(***************************************************************************)
EXTENDS HashFile

CONSTANTS
  Lens,      \* the lengths of values that callers write
  Packed(_), \* the lengths a value may have once it is compressed
  Stretch,   \* the bytes by which that may lengthen it (compressBound)
  HeadLen,   \* the time, the compression flag and the length before a value
  Sizes,     \* the quotas that callers ask for
  MinLen,    \* MIN_FLEN
  RateNum, RateDen,  \* DEF_DELRATE
  Word,      \* 2^(8 * sizeof(unsigned long))
  Shrinks,   \* whether a cleared block is opened again with any quota
  MaxTime,   \* bound: the last second explored
  MaxFsiz    \* bound: the largest file explored

\* SerializeValue: `zip' is the compression flag, `size' the bytes stored.
Value(time, zip, len, size) ==
  [time |-> time, zip |-> zip, len |-> len, size |-> HeadLen + size]

\* The values that SerializeValue makes: an empty one it cannot.
Storable ==
  {Value(time, zip, len, size) : time \in 0 .. MaxTime, zip \in BOOLEAN, len \in Lens \ {0},
                                 size \in Lens \cup UNION {Packed(n) : n \in Lens}}

ASSUME StoreAssumption ==
  /\ Lens \cup Sizes \cup {HeadLen, Stretch, MinLen, RateNum, RateDen, MaxTime, MaxFsiz} \subseteq Nat
  /\ \A n \in Lens : Packed(n) \subseteq 0 .. n + Stretch
  /\ \A v \in Storable : ValSize(v) = v.size
  /\ MinLen # 0 /\ RateNum < RateDen /\ Word \in Nat /\ Word > MaxFsiz /\ Shrinks \in BOOLEAN

VARIABLES
  db,      \* the TCHDB object and its file
  status,  \* "open", "closed", or "dead": closed by the death of its process
  maxlen,  \* _opt._max_len
  saved,   \* ... as it stands in the file's header
  now,     \* time(NULL)
  did      \* what the last step did: the operation and its answer

vars == <<db, status, maxlen, saved, now, did>>

Did(op, ok) == did' = [op |-> op, ok |-> ok]

Init == /\ db = EmptyDB /\ status = "open" /\ now = 0
        /\ maxlen \in Sizes /\ saved = maxlen
        /\ did = [op |-> "open", ok |-> TRUE]

---------------------------------------------------------------------------
(* Eviction *)

Num(S) == Cardinality(S)

Held(d) == {d.seg[o].val : o \in LiveRecs(d)}

TimeAt(d, o) == d.seg[o].val.time

\* The cut that compareTime's sorting makes after the n oldest: a record older
\* than `min' goes, and `ties' (crivnum) of those as old.  No caller asks for
\* all the records.
Cut(d, n) ==
  LET offs == LiveRecs(d)
      before(t) == Num({p \in offs : TimeAt(d, p) < t})
      upto(t) == Num({p \in offs : TimeAt(d, p) <= t})
      min == CHOOSE t \in 0 .. MaxTime : before(t) <= n /\ n < upto(t)
  IN [db |-> d, min |-> min, ties |-> n - before(min)]

\* Mutant: every record of the cut's second goes.
DropTied(a, o) ==
  IF TimeAt(a.db, o) <= a.min
  THEN [a EXCEPT !.db = RemoveRec(@, Find(@, @.seg[o].key))] ELSE a

\* Mutant: compareTime with its sides swapped.
DropYoung(a, o) ==
  IF TimeAt(a.db, o) < a.min \/ a.ties = 0 THEN a
  ELSE [a EXCEPT !.db = RemoveRec(@, Find(@, @.seg[o].key)), !.ties = @ - 1]

\* One step of the second iteration of removeByFIFO.
DropOld(a, o) ==
  LET c == TimeAt(a.db, o)
  IN IF c > a.min \/ (c = a.min /\ a.ties = 0) THEN a
     ELSE [db |-> RemoveRec(a.db, Find(a.db, a.db.seg[o].key)), min |-> a.min,
           ties |-> a.ties - (IF c = a.min THEN 1 ELSE 0)]

\* removeByFIFO and the optimize that follows it.
Evicted(d, n) ==
  LET offs == RecOffsets(d)
      dropped[i \in 0 .. Len(offs)] ==
        IF i = 0 THEN Cut(d, n) ELSE DropOld(dropped[i - 1], offs[i])
  IN Optimize(IF n = 0 THEN d ELSE dropped[Len(offs)].db)

---------------------------------------------------------------------------
(* Inserting *)

\* Mutant: the key and the value are not counted.
OverQuotaBefore(d, v) == d.fsiz > maxlen

\* The quota is unsigned: it wraps when key and value alone exceed it.
OverQuota(d, v) == d.fsiz > (maxlen - KeySize - v.len) % Word

Share(n) == (n * RateNum) \div RateDen

\* An empty value cannot be serialized.
Store(d, k, v, isreplace) ==
  IF v.len = 0 \/ (~isreplace /\ Has(d, k)) THEN [ok |-> FALSE, db |-> d]
  ELSE [ok |-> TRUE, db |-> PutRec(d, Find(d, k), k, v)]

StoreOrRefuse(d, k, v, isreplace) ==
  IF OverQuota(d, v) THEN [ok |-> FALSE, db |-> d] ELSE Store(d, k, v, isreplace)

\* mStore::insert.
Attempt(d, k, v, isreplace) ==
  StoreOrRefuse(IF OverQuota(d, v) THEN Evicted(d, Share(d.rnum)) ELSE d, k, v, isreplace)

\* The JNI function tries a failed insert once more, evicting once more.
Insert(k, v, isreplace) ==
  /\ status = "open"
  /\ \E r \in {Attempt(db, k, v, isreplace)} :
       \E s \in {IF r.ok THEN r ELSE Attempt(r.db, k, v, isreplace)} :
         s.db.fsiz <= MaxFsiz /\ db' = s.db /\ did' = [op |-> "insert", ok |-> s.ok, key |-> k]
  /\ UNCHANGED <<status, maxlen, saved, now>>

Delete(k) ==
  /\ status = "open"
  /\ db' = IF Has(db, k) THEN RemoveRec(db, Find(db, k)) ELSE db
  /\ Did("remove", Has(db, k))
  /\ UNCHANGED <<status, maxlen, saved, now>>

\* clearAll writes a new header, without the configuration.
ClearAll ==
  /\ status = "open" /\ db' = EmptyDB /\ saved' = 0
  /\ Did("clear", TRUE) /\ UNCHANGED <<status, maxlen, now>>

---------------------------------------------------------------------------
(* Changing the quota, opening and closing *)

\* Whether the loop of reMaxSize goes on after an eviction left d.
Judged(d, turn) == [db |-> d, res |-> IF turn > 3 \/ d.rnum = 0 THEN "failed" ELSE "more"]

\* One turn of the loop of reMaxSize, of a file of `cur' bytes at its start.
Turn(s, m, cur, turn) ==
  LET n == (s.db.rnum * (cur - m)) \div cur
  IN IF s.res # "more" THEN s
     ELSE IF s.db.fsiz <= m THEN [s EXCEPT !.res = "ok"]
     ELSE Judged(IF n = 0 THEN s.db ELSE Evicted(s.db, n), turn)

\* The loop ends with its fourth turn at the latest.
Shrunken(d, m) ==
  LET after[turn \in 0 .. 4] ==
        IF turn = 0 THEN [db |-> d, res |-> "more"]
        ELSE Turn(after[turn - 1], m, d.fsiz, turn)
  IN after[4]

\* Mutant: a failed eviction is not noticed.
ResizedAnyway(d, old, m) ==
  IF m < MinLen THEN [db |-> d, max |-> old, ok |-> FALSE]
  ELSE IF m >= old \/ m >= d.fsiz THEN [db |-> d, max |-> m, ok |-> TRUE]
  ELSE [db |-> Shrunken(d, m).db, max |-> m, ok |-> TRUE]

\* The answer of reMaxSize when its loop ends in s.
Settled(s, old, m) ==
  [db |-> s.db, max |-> IF s.res = "ok" THEN m ELSE old, ok |-> s.res = "ok"]

\* reMaxSize of a store whose quota is `old'.
Resized(d, old, m) ==
  IF m < MinLen THEN [db |-> d, max |-> old, ok |-> FALSE]
  ELSE IF m >= old \/ m >= d.fsiz THEN [db |-> d, max |-> m, ok |-> TRUE]
  ELSE Settled(Shrunken(d, m), old, m)

ReMaxSize(m) ==
  /\ status = "open"
  /\ \E r \in {Resized(db, maxlen, m)} :
       /\ db' = r.db /\ maxlen' = r.max
       /\ saved' = IF r.ok THEN m ELSE saved
       /\ Did("resize", r.ok)
  /\ UNCHANGED <<status, now>>

Close == /\ status = "open" /\ status' = "closed"
         /\ db' = Closed(db) /\ maxlen' = 0
         /\ Did("close", TRUE) /\ UNCHANGED <<saved, now>>

\* The process dies between two calls: the mapped file survives it.
Die == /\ status = "open" /\ status' = "dead"
       /\ db' = Volatile(db) /\ maxlen' = 0
       /\ Did("close", FALSE) /\ UNCHANGED <<saved, now>>

\* mStore::open of a file that exists.  A new quota that cannot be met leaves
\* the store open under the old one.  A file longer than its header says, as
\* one that grew and was not closed, is optimized.
Open(m) ==
  /\ status # "open" /\ status' = "open"
  /\ saved = 0 /\ ~Shrinks => \A n \in Sizes : n <= m
  /\ \E d \in {Opened(db, status = "dead")} :
     \E r \in {IF m = saved THEN [db |-> d, max |-> m, ok |-> TRUE] ELSE Resized(d, saved, m)} :
        /\ db' \in {r.db} \cup (IF status = "dead" /\ r.ok THEN {Optimize(r.db)} ELSE {})
        /\ maxlen' = r.max /\ saved' = IF r.ok THEN m ELSE saved
        /\ Did("open", r.ok)
  /\ UNCHANGED now

\* The clock of the device goes on, or is set back.
Tick(t) == /\ now' = t /\ Did("tick", TRUE)
           /\ UNCHANGED <<db, status, maxlen, saved>>

Next ==
  \/ \E k \in Keys, len \in Lens, isreplace \in BOOLEAN :
       \/ Insert(k, Value(now, FALSE, len, len), isreplace)
       \/ \E size \in Packed(len) : Insert(k, Value(now, TRUE, len, size), isreplace)
  \/ \E k \in Keys : Delete(k)
  \/ ClearAll \/ Close \/ Die
  \/ \E m \in Sizes : ReMaxSize(m) \/ Open(m)
  \/ \E t \in 0 .. MaxTime : Tick(t)

Spec == Init /\ [][Next]_vars

---------------------------------------------------------------------------
(* Properties *)

TypeOK ==
  /\ status \in {"open", "closed", "dead"} /\ maxlen \in Nat /\ saved \in Nat
  /\ now \in 0 .. MaxTime
  /\ Held(db) \subseteq Storable

\* Evicting while iterating, and optimizing after it, keep the file sound.
FileSound == TypeOK /\ Tiled(db) /\ Searchable(db) /\ (status = "open" => PoolSound(db))

Gone(k) == Has(db, k) /\ ~Has(db', k)
TimeOf(d, k) == d.seg[Find(d, k).off].val.time

Spared(k) == Has(db, k) /\ Has(db', k) /\ ~(did'.op = "insert" /\ did'.key = k)

\* First in, first out: of two records, an insert or a new quota never evicts
\* the younger and keeps the older (CACHE_FIFO in mStore.h), even if it evicts
\* more than once.  What an insert was given is new, not kept.
EvictsOldest ==
  [][did'.op \in {"insert", "resize", "open"} =>
       \A k, l \in Keys : Gone(k) /\ Spared(l) => TimeOf(db, k) <= TimeOf(db, l)]_vars

\* An insert evicts no more than its share, twice at most: records written in
\* the same second are not evicted together.
EvictsItsShare ==
  [][did'.op = "insert" =>
       LET n == Num({k \in Keys : Gone(k)})
       IN n <= Share(db.rnum) + Share(db.rnum - Share(db.rnum))]_vars

\* What a record takes beyond the key and the value that the quota counts.
Overhead == HeadSize + HeadLen + Stretch + Align - 1

\* The file of an open store exceeds its quota by the overhead of one record at
\* most (mStore.h: max_size is "the space used at most"), whatever was
\* inserted, evicted, reset or reopened before.
QuotaKept == status = "open" => db.fsiz <= maxlen + Overhead

\* What that takes of the callers: every quota has room for an empty file, and
\* for a key and a value; and a block that was cleared is opened again with the
\* largest quota, which is not refused.
QuotaAmple ==
  /\ \A m \in Sizes : Frec <= m + Overhead /\ \A n \in Lens : KeySize + n <= m
  /\ ~Shrinks /\ \E m \in Sizes : m >= MinLen

\* A smaller quota that was accepted holds at once, and one that was refused
\* leaves the old one in force, and in the file's header (mStore::reMaxSize).
ResizeHonest ==
  [][did'.op = "resize" =>
       IF did'.ok THEN db'.fsiz <= maxlen' \/ maxlen' >= maxlen
       ELSE maxlen' = maxlen /\ saved' = saved]_vars
=============================================================================
