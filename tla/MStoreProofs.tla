---------------------------- MODULE MStoreProofs -----------------------------
(***************************************************************************)
(* What MStore guarantees of its quota and of its file for every set of    *)
(* keys, every hash, all sizes, quotas and values: a quota that is         *)
(* accepted holds at once, one that is refused changes nothing, the file's *)
(* header holds the quota that is in force; and after every insert,        *)
(* eviction, new quota, close, death of the process and opening, the file  *)
(* is well formed and every record is found (FileIsSound); an open store   *)
(* is never larger than the quota it accepted last (QuotaIsKept); what     *)
(* goes is the oldest (EvictsTheOldest), and no more of it than an insert  *)
(* may evict (EvictsAShare); and what readers find changes as a map's      *)
(* entries would, but for the evicted (StoreIsAMap).                       *)
(*                                                                         *)
(* All but the first three rest on HashFileProofs: StoreInv says that the  *)
(* file is Sound as that module defines it, QuotaInv how long it is at     *)
(* most.  What goes is told by Contents, the keys and values of a file.    *)
(***************************************************************************)
EXTENDS MStore, HashFileProofs

---------------------------------------------------------------------------
(* A new quota *)

\* A turn of the loop that says it is done leaves a file within the quota.
LEMMA TurnDone ==
  ASSUME NEW s, NEW m, NEW cur, NEW turn, s.res = "ok" => s.db.fsiz <= m
  PROVE  Turn(s, m, cur, turn).res = "ok" => Turn(s, m, cur, turn).db.fsiz <= m
<1>1. CASE s.res # "more"
  BY <1>1 DEF Turn, Judged
<1>2. CASE s.res = "more" /\ s.db.fsiz <= m
  <2>1. Turn(s, m, cur, turn) = [s EXCEPT !.res = "ok"]
    BY <1>2 DEF Turn, Judged
  <2> QED
    BY <1>2, <2>1
<1>3. CASE s.res = "more" /\ ~(s.db.fsiz <= m)
  BY <1>3 DEF Turn, Judged
<1> QED
  BY <1>1, <1>2, <1>3

\* The turns of the loop of reMaxSize.
Turns(d, m, s0, s1, s2, s3, s4) ==
  /\ s0 = [db |-> d, res |-> "more"]
  /\ s1 = Turn(s0, m, d.fsiz, 1) /\ s2 = Turn(s1, m, d.fsiz, 2)
  /\ s3 = Turn(s2, m, d.fsiz, 3) /\ s4 = Turn(s3, m, d.fsiz, 4)

\* The loop ends with the fourth turn.
LEMMA ShrunkenTurns ==
  ASSUME NEW d, NEW m, NEW s0, NEW s1, NEW s2, NEW s3, NEW s4, Turns(d, m, s0, s1, s2, s3, s4)
  PROVE  Shrunken(d, m) = s4
<1>1. s0 = [db |-> d, res |-> "more"]
  BY DEF Turns
<1>2. s1 = Turn(s0, m, d.fsiz, 1)
  BY DEF Turns
<1>3. s2 = Turn(s1, m, d.fsiz, 2)
  BY DEF Turns
<1>4. s3 = Turn(s2, m, d.fsiz, 3)
  BY DEF Turns
<1>5. s4 = Turn(s3, m, d.fsiz, 4)
  BY DEF Turns
<1> DEFINE IsLoop(f) ==
      f = [turn \in 0 .. 4 |-> IF turn = 0 THEN [db |-> d, res |-> "more"]
                               ELSE Turn(f[turn - 1], m, d.fsiz, turn)]
<1> DEFINE g == [turn \in 0 .. 4 |-> IF turn = 0 THEN s0 ELSE IF turn = 1 THEN s1
                                     ELSE IF turn = 2 THEN s2 ELSE IF turn = 3 THEN s3 ELSE s4]
<1> DEFINE after == CHOOSE f : IsLoop(f)
<1>6. IsLoop(g)
  <2>1. g[0] = s0 /\ g[1] = s1 /\ g[2] = s2 /\ g[3] = s3 /\ g[4] = s4
    OBVIOUS
  <2> HIDE DEF g
  <2>2. ASSUME NEW turn \in 0 .. 4
        PROVE  g[turn] = IF turn = 0 THEN [db |-> d, res |-> "more"]
                         ELSE Turn(g[turn - 1], m, d.fsiz, turn)
    <3>1. CASE turn = 0
      BY <3>1, <2>1, <1>1
    <3>2. CASE turn = 1
      BY <3>2, <2>1, <1>2
    <3>3. CASE turn = 2
      BY <3>3, <2>1, <1>3
    <3>4. CASE turn = 3
      BY <3>4, <2>1, <1>4
    <3>5. CASE turn = 4
      BY <3>5, <2>1, <1>5
    <3> QED
      BY <2>2, <3>1, <3>2, <3>3, <3>4, <3>5
  <2>3. g = [turn \in 0 .. 4 |-> g[turn]]
    BY DEF g
  <2> QED
    BY <2>2, <2>3
<1> HIDE DEF g
<1>7. IsLoop(after)
  BY <1>6, Zenon
<1>8. after[4] = Shrunken(d, m)
  BY DEF Shrunken
<1> HIDE DEF after
<1>9. /\ after[0] = s0 /\ after[1] = Turn(after[0], m, d.fsiz, 1)
      /\ after[2] = Turn(after[1], m, d.fsiz, 2) /\ after[3] = Turn(after[2], m, d.fsiz, 3)
      /\ after[4] = Turn(after[3], m, d.fsiz, 4)
  BY <1>1, <1>7
<1> QED
  BY <1>2, <1>3, <1>4, <1>5, <1>8, <1>9

\* So does the loop.
LEMMA ShrunkenDone ==
  ASSUME NEW d, NEW m
  PROVE  Shrunken(d, m).res = "ok" => Shrunken(d, m).db.fsiz <= m
<1>1. PICK s0, s1, s2, s3, s4 : Turns(d, m, s0, s1, s2, s3, s4)
  BY DEF Turns
<1>2. s0.res = "more" /\ Shrunken(d, m) = s4
  BY <1>1, ShrunkenTurns DEF Turns
<1>3. s1.res = "ok" => s1.db.fsiz <= m
  BY <1>1, <1>2, TurnDone DEF Turns
<1>4. s2.res = "ok" => s2.db.fsiz <= m
  BY <1>1, <1>3, TurnDone DEF Turns
<1>5. s3.res = "ok" => s3.db.fsiz <= m
  BY <1>1, <1>4, TurnDone DEF Turns
<1>6. s4.res = "ok" => s4.db.fsiz <= m
  BY <1>1, <1>5, TurnDone DEF Turns
<1> QED
  BY <1>2, <1>6

\* What reMaxSize does with the quota m: the answer tells whether it is taken.
LEMMA ResizedQuota ==
  ASSUME NEW d, NEW old, NEW m, NEW r, r = Resized(d, old, m)
  PROVE  /\ r.ok \in BOOLEAN
         /\ r.ok => r.max = m /\ (m >= old \/ r.db.fsiz <= m)
         /\ ~r.ok => r.max = old
<1>1. CASE m < MinLen
  BY <1>1 DEF Resized, Settled
<1>2. CASE ~(m < MinLen) /\ (m >= old \/ m >= d.fsiz)
  BY <1>2 DEF Resized, Settled
<1>3. CASE ~(m < MinLen) /\ ~(m >= old \/ m >= d.fsiz)
  <2>1. PICK s : s = Shrunken(d, m)
    OBVIOUS
  <2>2. r = IF m < MinLen THEN [db |-> d, max |-> old, ok |-> FALSE]
            ELSE IF m >= old \/ m >= d.fsiz THEN [db |-> d, max |-> m, ok |-> TRUE]
            ELSE [db |-> s.db, max |-> IF s.res = "ok" THEN m ELSE old, ok |-> s.res = "ok"]
    BY <2>1, Zenon DEF Resized, Settled
  <2>3. s.res = "ok" => s.db.fsiz <= m
    BY <2>1, ShrunkenDone
  <2>4. r = [db |-> s.db, max |-> IF s.res = "ok" THEN m ELSE old, ok |-> s.res = "ok"]
    BY <1>3, <2>2, Zenon
  <2>5. CASE s.res = "ok"
    <3>1. r = [db |-> s.db, max |-> m, ok |-> TRUE]
      BY <2>4, <2>5, Zenon
    <3> QED
      BY <2>3, <2>5, <3>1
  <2>6. CASE s.res # "ok"
    <3>1. r = [db |-> s.db, max |-> old, ok |-> FALSE]
      BY <2>4, <2>6, Zenon
    <3> QED
      BY <3>1
  <2> QED
    BY <2>5, <2>6
<1> QED
  BY <1>1, <1>2, <1>3

---------------------------------------------------------------------------
(* The properties *)

\* No action but reMaxSize reports a resize.
LEMMA OnlyReMaxSizeResizes ==
  ASSUME Next, did'.op = "resize"
  PROVE  \E m \in Sizes : ReMaxSize(m)
<1>1. ASSUME NEW k, NEW v, NEW isreplace, Insert(k, v, isreplace)
      PROVE  did'.op = "insert"
  BY <1>1 DEF Insert, Did
<1>2. ASSUME NEW k, Delete(k)
      PROVE  did'.op = "remove"
  BY <1>2 DEF Delete, Did
<1>3. ClearAll => did'.op = "clear"
  BY DEF ClearAll, Did
<1>4. Close \/ Die => did'.op = "close"
  BY DEF Close, Die, Did
<1>5. ASSUME NEW m, Open(m)
      PROVE  did'.op = "open"
  BY <1>5 DEF Open, Did
<1>6. ASSUME NEW t, Tick(t)
      PROVE  did'.op = "tick"
  BY <1>6 DEF Tick, Did
<1> QED
  BY <1>1, <1>2, <1>3, <1>4, <1>5, <1>6 DEF Next

\* What a step of reMaxSize keeps and changes.
LEMMA ReMaxSizeHonest ==
  ASSUME NEW m, ReMaxSize(m)
  PROVE  IF did'.ok THEN db'.fsiz <= maxlen' \/ maxlen' >= maxlen
         ELSE maxlen' = maxlen /\ saved' = saved
<1>1. PICK r : /\ r = Resized(db, maxlen, m) /\ db' = r.db /\ maxlen' = r.max
               /\ saved' = (IF r.ok THEN m ELSE saved) /\ did' = [op |-> "resize", ok |-> r.ok]
  BY DEF ReMaxSize, Did
<1>2. PICK d, old : d = db /\ old = maxlen
  OBVIOUS
<1>3. /\ r.ok \in BOOLEAN
      /\ r.ok => r.max = m /\ (m >= old \/ r.db.fsiz <= m)
      /\ ~r.ok => r.max = old
  BY <1>1, <1>2, ResizedQuota
<1>4. did'.ok = r.ok
  BY <1>1
<1>5. CASE r.ok
  BY <1>1, <1>2, <1>3, <1>4, <1>5
<1>6. CASE ~r.ok
  BY <1>1, <1>2, <1>3, <1>4, <1>6
<1> QED
  BY <1>3, <1>5, <1>6

\* A smaller quota that reMaxSize accepts holds at once; one that it refuses
\* leaves the old one in force and in the header (mStore::reMaxSize).
THEOREM ResizeIsHonest == Spec => ResizeHonest
<1>1. [Next]_vars => [did'.op = "resize" =>
       IF did'.ok THEN db'.fsiz <= maxlen' \/ maxlen' >= maxlen
       ELSE maxlen' = maxlen /\ saved' = saved]_vars
  <2>1. SUFFICES ASSUME Next, did'.op = "resize"
                 PROVE  IF did'.ok THEN db'.fsiz <= maxlen' \/ maxlen' >= maxlen
                        ELSE maxlen' = maxlen /\ saved' = saved
    OBVIOUS
  <2>2. PICK m \in Sizes : ReMaxSize(m)
    BY <2>1, OnlyReMaxSizeResizes
  <2> QED
    BY <2>2, ReMaxSizeHonest
<1> QED
  BY <1>1, PTL DEF Spec, ResizeHonest

\* The quota that an open store enforces is the one in its file's header,
\* which the next process reads; only clearAll, which writes a header without
\* it, leaves none there.
QuotaInHeader == status = "open" => saved = maxlen \/ saved = 0

THEOREM HeaderTellsQuota == Spec => []QuotaInHeader
<1>1. Init => QuotaInHeader
  BY DEF Init, QuotaInHeader
<1>2. ASSUME QuotaInHeader, [Next]_vars
      PROVE  QuotaInHeader'
  <2>1. CASE UNCHANGED vars
    BY <1>2, <2>1 DEF QuotaInHeader, vars
  <2>2. ASSUME NEW k, NEW v, NEW isreplace, Insert(k, v, isreplace)
        PROVE  QuotaInHeader'
    BY <1>2, <2>2 DEF QuotaInHeader, Insert
  <2>3. ASSUME NEW k, Delete(k)
        PROVE  QuotaInHeader'
    BY <1>2, <2>3 DEF QuotaInHeader, Delete
  <2>4. CASE ClearAll \/ Close \/ Die
    BY <2>4 DEF QuotaInHeader, ClearAll, Close, Die
  <2>5. ASSUME NEW m, ReMaxSize(m)
        PROVE  QuotaInHeader'
    <3>1. PICK r : /\ r = Resized(db, maxlen, m) /\ maxlen' = r.max
                   /\ saved' = (IF r.ok THEN m ELSE saved) /\ status = "open"
      BY <2>5 DEF ReMaxSize
    <3>2. PICK d, old : d = db /\ old = maxlen
      OBVIOUS
    <3>3. r.ok \in BOOLEAN /\ (r.ok => r.max = m) /\ (~r.ok => r.max = old)
      BY <3>1, <3>2, ResizedQuota
    <3> QED
      BY <1>2, <3>1, <3>2, <3>3 DEF QuotaInHeader
  <2>6. ASSUME NEW m, Open(m)
        PROVE  QuotaInHeader'
    <3>1. PICK d, r : /\ r = (IF m = saved THEN [db |-> d, max |-> m, ok |-> TRUE]
                              ELSE Resized(d, saved, m))
                      /\ maxlen' = r.max /\ saved' = (IF r.ok THEN m ELSE saved)
      BY <2>6 DEF Open
    <3>2. CASE m = saved
      BY <3>1, <3>2 DEF QuotaInHeader
    <3>3. CASE m # saved
      <4>1. PICK old : old = saved
        OBVIOUS
      <4>2. r.ok \in BOOLEAN /\ (r.ok => r.max = m) /\ (~r.ok => r.max = old)
        BY <3>1, <3>3, <4>1, ResizedQuota
      <4> QED
        BY <3>1, <4>1, <4>2 DEF QuotaInHeader
    <3> QED
      BY <3>2, <3>3
  <2>7. ASSUME NEW t, Tick(t)
        PROVE  QuotaInHeader'
    BY <1>2, <2>7 DEF QuotaInHeader, Tick
  <2> QED
    BY <1>2, <2>1, <2>2, <2>3, <2>4, <2>5, <2>6, <2>7 DEF Next
<1> QED
  BY <1>1, <1>2, PTL DEF Spec

---------------------------------------------------------------------------
(* Eviction *)

\* Whether a record of the time t stays.
Stays(a, t) == t > a.min \/ (t = a.min /\ a.ties = 0)

\* How many of the cut's ties it is.
Counted(a, t) == IF t = a.min THEN 1 ELSE 0

\* The record at o of the table T, of the time t, stays, or goes alone.
StaysOrGoes(a, T, o, t, e) ==
  /\ Stays(a, t) => e = a
  /\ ~Stays(a, t) => /\ e.min = a.min /\ e.ties = a.ties - Counted(a, t)
                     /\ SameButChildren(Without(T, o), Index(e.db))

\* A step of the iteration of removeByFIFO takes away the record it is at, or
\* nothing.
LEMMA DropOldIs ==
  ASSUME NEW Vs, NEW a, Sound(a.db, Vs), NEW T, T = Index(a.db), NEW o \in DOMAIN T,
         NEW t, t = T[o].val.time, NEW e, e = DropOld(a, o)
  PROVE  Sound(e.db, Vs) /\ StaysOrGoes(a, T, o, t, e)
<1>1. PICK d, k : d = a.db /\ k = d.seg[o].key
  OBVIOUS
<1>2. t = TimeAt(a.db, o)
  <2>1. Clean(d, Vs)
    BY <1>1, SoundIs
  <2>2. T[o] = d.seg[o]
    BY <1>1, <2>1, IndexIs
  <2> QED
    BY <1>1, <2>2 DEF TimeAt
<1>3. CASE Stays(a, t)
  <2>1. e = a
    BY <1>2, <1>3 DEF DropOld, Stays
  <2> QED
    BY <1>3, <2>1 DEF StaysOrGoes
<1>4. CASE ~Stays(a, t)
  <2>1. PICK f : f = RemoveRec(d, Find(d, k))
    OBVIOUS
  <2>2. e = [db |-> f, min |-> a.min, ties |-> a.ties - (IF t = a.min THEN 1 ELSE 0)]
    BY <1>1, <1>2, <1>4, <2>1 DEF DropOld, Stays
  <2>3. Sound(f, Vs) /\ SameButChildren(Without(T, o), Index(f))
    <3>1. k = d.seg[o].key /\ Sound(d, Vs) /\ o \in DOMAIN Index(d) /\ T = Index(d)
      BY <1>1
    <3> QED
      BY <2>1, <3>1, DroppedIs
  <2>4. e.min = a.min /\ e.ties = a.ties - Counted(a, t)
    BY <2>2 DEF Counted
  <2> QED
    BY <1>4, <2>2, <2>3, <2>4 DEF StaysOrGoes
<1> QED
  BY <1>3, <1>4

\* So at most that record goes.
LEMMA DropsOne ==
  ASSUME NEW Vs, NEW a, Sound(a.db, Vs), NEW o \in DOMAIN Index(a.db), NEW e, e = DropOld(a, o)
  PROVE  Sound(e.db, Vs) /\ DOMAIN Index(a.db) \ {o} \subseteq DOMAIN Index(e.db)
<1>1. PICK T, t : T = Index(a.db) /\ t = T[o].val.time
  OBVIOUS
<1>2. Sound(e.db, Vs) /\ StaysOrGoes(a, T, o, t, e)
  BY <1>1, DropOldIs
<1>3. e = a \/ SameButChildren(Without(T, o), Index(e.db))
  BY <1>2 DEF StaysOrGoes
<1> QED
  BY <1>1, <1>2, <1>3 DEF SameButChildren, Without

\* f is what the iteration makes of the state a, up to the n-th of the records s.
Drops(s, a, n, f) == f = [i \in 0 .. n |-> IF i = 0 THEN a ELSE DropOld(f[i - 1], s[i])]

\* One after the other.
DropsInTurn(s, a, n, f) ==
  f[0] = a /\ \A i \in 1 .. n : f[i] = DropOld(f[i - 1], s[i])

\* Such a function comes to one record after the other.
LEMMA DropsIs ==
  ASSUME NEW s, NEW a, NEW n \in Nat, NEW f, Drops(s, a, n, f)
  PROVE  DropsInTurn(s, a, n, f)
<1>1. \A i \in 0 .. n : f[i] = IF i = 0 THEN a ELSE DropOld(f[i - 1], s[i])
  BY Zenon DEF Drops
<1>2. \A i \in 1 .. n : i # 0 /\ i \in 0 .. n
  OBVIOUS
<1>3. 0 \in 0 .. n
  OBVIOUS
<1>4. f[0] = a /\ \A i \in 1 .. n : f[i] = DropOld(f[i - 1], s[i])
  BY <1>1, <1>2, <1>3, Zenon
<1> QED
  BY <1>4 DEF DropsInTurn

\* It goes on to the next record.
LEMMA DropsOn ==
  ASSUME NEW s, NEW a, NEW n \in Nat \ {0}, NEW g, Drops(s, a, n - 1, g)
  PROVE  \E f : Drops(s, a, n, f)
<1>1. PICK x : x = DropOld(g[n - 1], s[n])
  OBVIOUS
<1>2. PICK f : f = [i \in 0 .. n |-> IF i = n THEN x ELSE g[i]]
  OBVIOUS
<1>3. g[0] = a /\ \A i \in 1 .. n - 1 : g[i] = DropOld(g[i - 1], s[i])
  BY DropsIs DEF DropsInTurn
<1>4. \A i \in 0 .. n - 1 : f[i] = g[i]
  BY <1>2
<1>5. f[n] = x
  BY <1>2
<1>6. ASSUME NEW i \in 0 .. n
      PROVE  f[i] = IF i = 0 THEN a ELSE DropOld(f[i - 1], s[i])
  <2>1. CASE i = 0
    BY <1>3, <1>4, <2>1
  <2>2. CASE i = n
    <3>1. f[i - 1] = g[n - 1]
      BY <1>4, <2>2
    <3> QED
      BY <1>1, <1>5, <2>2, <3>1
  <2>3. CASE i # 0 /\ i # n
    <3>1. i \in 1 .. n - 1 /\ f[i] = g[i] /\ f[i - 1] = g[i - 1]
      BY <1>4, <2>3
    <3> QED
      BY <1>3, <2>3, <3>1
  <2> QED
    BY <2>1, <2>2, <2>3
<1>7. f = [i \in 0 .. n |-> f[i]]
  BY <1>2
<1>8. f = [i \in 0 .. n |-> IF i = 0 THEN a ELSE DropOld(f[i - 1], s[i])]
  BY <1>6, <1>7, Zenon
<1> QED
  BY <1>8 DEF Drops

\* There is one, however many records there are.
LEMMA DropsExists ==
  ASSUME NEW s, NEW a, NEW n \in Nat
  PROVE  \E f : Drops(s, a, n, f)
<1> DEFINE P == {i \in 0 .. n : \E f : Drops(s, a, i, f)}
<1>1. 0 \in P
  <2>1. PICK f : f = [i \in 0 .. 0 |-> a]
    OBVIOUS
  <2>2. f = [i \in 0 .. 0 |-> IF i = 0 THEN a ELSE DropOld(f[i - 1], s[i])]
    <3>1. \A i \in 0 .. 0 : i = 0
      OBVIOUS
    <3> QED
      BY <2>1, <3>1
  <2> QED
    BY <2>2 DEF Drops
<1>2. ASSUME NEW i \in 1 .. n, i - 1 \in P
      PROVE  i \in P
  <2>1. PICK f : Drops(s, a, i - 1, f)
    BY <1>2
  <2> QED
    BY <2>1, DropsOn
<1>3. \A i \in 0 .. n : i \in P
  <2> HIDE DEF P
  <2> QED
    BY <1>1, <1>2, Reached
<1> QED
  BY <1>3

\* What the iteration leaves, whichever records it takes away: those it has not
\* come to are still where they were.
LEMMA IterationIs ==
  ASSUME NEW Vs, NEW d, Sound(d, Vs), NEW s, ListsRecords(d, s), NEW n, n = Len(s),
         NEW a, a.db = d, NEW f, DropsInTurn(s, a, n, f)
  PROVE  Sound(f[n].db, Vs)
<1>1. n \in Nat /\ s \in Seq(Nat) /\ \A i \in 1 .. n : s[i] \in DOMAIN Index(d)
  BY DEF ListsRecords
<1>2. \A i, j \in 1 .. n : i # j => s[i] # s[j]
  BY DEF ListsRecords
<1> DEFINE Ahead(i) == \A j \in 1 .. n : j > i => s[j] \in DOMAIN Index(f[i].db)
<1> DEFINE P == {i \in 0 .. n : Sound(f[i].db, Vs) /\ Ahead(i)}
<1>3. 0 \in P
  <2>1. f[0].db = d
    BY DEF DropsInTurn
  <2> QED
    BY <1>1, <2>1
<1>4. ASSUME NEW i \in 1 .. n, i - 1 \in P
      PROVE  i \in P
  <2>1. PICK x, o, e : x = f[i - 1] /\ o = s[i] /\ e = f[i]
    OBVIOUS
  <2>2. Sound(x.db, Vs) /\ \A j \in 1 .. n : j > i - 1 => s[j] \in DOMAIN Index(x.db)
    BY <1>4, <2>1
  <2>3. o \in DOMAIN Index(x.db)
    BY <1>1, <1>4, <2>1, <2>2
  <2>4. e = DropOld(x, o)
    BY <1>4, <2>1 DEF DropsInTurn
  <2>5. Sound(e.db, Vs) /\ DOMAIN Index(x.db) \ {o} \subseteq DOMAIN Index(e.db)
    BY <2>2, <2>3, <2>4, DropsOne
  <2>6. ASSUME NEW j \in 1 .. n, j > i
        PROVE  s[j] \in DOMAIN Index(e.db)
    <3>1. j > i - 1 /\ j # i
      BY <1>1, <2>6
    <3>2. s[j] # o
      BY <1>2, <1>4, <2>1, <3>1
    <3> QED
      BY <2>2, <2>5, <3>1, <3>2
  <2> QED
    BY <2>1, <2>5, <2>6
<1>5. \A i \in 0 .. n : i \in P
  <2> HIDE DEF P
  <2> QED
    BY <1>1, <1>3, <1>4, Reached
<1> QED
  BY <1>1, <1>5

\* removeByFIFO comes to one record after the other.
LEMMA EvictionTurns ==
  ASSUME NEW Vs, NEW d, Sound(d, Vs), NEW n
  PROVE  \E s, m, a, f :
           /\ s = RecOffsets(d) /\ m = Len(s) /\ a = Cut(d, n) /\ m \in Nat
           /\ ListsRecords(d, s) /\ DropsInTurn(s, a, m, f)
           /\ Evicted(d, n) = Optimize(IF n = 0 THEN d ELSE f[m].db)
<1>1. PICK s, m, a : s = RecOffsets(d) /\ m = Len(s) /\ a = Cut(d, n)
  OBVIOUS
<1>2. ListsRecords(d, s) /\ m \in Nat
  <2>1. Clean(d, Vs)
    BY SoundIs
  <2>2. ListsRecords(d, s)
    BY <1>1, <2>1, RecOffsetsIs
  <2> QED
    BY <1>1, <2>2 DEF ListsRecords
<1> DEFINE IsDrop(f) == Drops(s, a, m, f)
<1>3. \E f : IsDrop(f)
  BY <1>2, DropsExists
<1>4. PICK f : IsDrop(f) /\ f = CHOOSE h : IsDrop(h)
  <2> HIDE DEF IsDrop
  <2> QED
    BY <1>3, Zenon
<1>5. Evicted(d, n) = Optimize(IF n = 0 THEN d ELSE f[m].db)
  <2>1. f = CHOOSE h : h = [i \in 0 .. m |-> IF i = 0 THEN a ELSE DropOld(h[i - 1], s[i])]
    BY <1>4 DEF Drops
  <2> DEFINE dropped == CHOOSE h : h = [i \in 0 .. Len(RecOffsets(d)) |->
                   IF i = 0 THEN Cut(d, n) ELSE DropOld(h[i - 1], RecOffsets(d)[i])]
  <2>2. f = dropped
    BY <1>1, <2>1, Zenon
  <2>3. Evicted(d, n) = Optimize(IF n = 0 THEN d ELSE dropped[Len(RecOffsets(d))].db)
    BY DEF Evicted
  <2> QED
    BY <1>1, <2>2, <2>3, Zenon
<1>6. DropsInTurn(s, a, m, f)
  <2>1. Drops(s, a, m, f)
    BY <1>4
  <2> HIDE DEF IsDrop
  <2> QED
    BY <1>2, <2>1, DropsIs
<1> HIDE DEF IsDrop
<1> QED
  BY <1>1, <1>2, <1>5, <1>6

\* It, and the optimize that follows it, leave a sound file.
LEMMA EvictedIs ==
  ASSUME NEW Vs, Sizable(Vs), NEW d, Sound(d, Vs), NEW n
  PROVE  Sound(Evicted(d, n), Vs)
<1>1. PICK s, m, a, f : /\ s = RecOffsets(d) /\ m = Len(s) /\ a = Cut(d, n) /\ m \in Nat
                        /\ ListsRecords(d, s) /\ DropsInTurn(s, a, m, f)
                        /\ Evicted(d, n) = Optimize(IF n = 0 THEN d ELSE f[m].db)
  BY EvictionTurns
<1>2. a.db = d
  BY <1>1 DEF Cut
<1>3. Sound(f[m].db, Vs)
  BY <1>1, <1>2, IterationIs
<1>4. PICK e : e = IF n = 0 THEN d ELSE f[m].db
  OBVIOUS
<1>5. Sound(Optimize(e), Vs)
  BY <1>3, <1>4, OptimizeIs
<1> QED
  BY <1>1, <1>4, <1>5

---------------------------------------------------------------------------
(* The calls *)

\* The values of the store have sizes.
LEMMA StorableSized == Sizable(Storable) /\ \A v \in Storable : ValSize(v) = v.size
<1>1. ASSUME NEW v \in Storable
      PROVE  v.size \in Nat
  <2>1. PICK time, zip, len, size :
          v = Value(time, zip, len, size) /\ size \in Lens \cup UNION {Packed(n) : n \in Lens}
    BY DEF Storable
  <2>2. v.size = HeadLen + size
    BY <2>1 DEF Value
  <2>3. size \in Nat
    BY <2>1, StoreAssumption
  <2> QED
    BY <2>2, <2>3, StoreAssumption
<1> QED
  BY <1>1, StoreAssumption DEF Sizable

\* What a call may store: an empty value is refused later.
Given(v) == v.len = 0 \/ v \in Storable

\* The lengths of stored values.
Lengths == Lens \cup UNION {Packed(n) : n \in Lens}

\* So it is with all values that callers write.
LEMMA ValueIs ==
  ASSUME NEW time \in 0 .. MaxTime, NEW zip \in BOOLEAN, NEW len \in Lens, NEW size \in Lengths,
         NEW v, v = Value(time, zip, len, size)
  PROVE  Given(v)
<1>1. v.len = len
  BY DEF Value
<1>2. CASE len = 0
  BY <1>1, <1>2 DEF Given
<1>3. CASE len # 0
  <2>1. len \in Lens \ {0} /\ size \in Lens \cup UNION {Packed(n) : n \in Lens}
    BY <1>3 DEF Lengths
  <2>2. v \in Storable
    BY <2>1 DEF Storable
  <2> QED
    BY <2>2 DEF Given
<1> QED
  BY <1>2, <1>3

\* mStore::insert keeps the file sound, whether it stores, evicts or refuses.
LEMMA AttemptIs ==
  ASSUME NEW d, Sound(d, Storable), NEW k \in Keys, NEW v, Given(v), NEW isreplace
  PROVE  Sound(Attempt(d, k, v, isreplace).db, Storable)
<1>1. PICK e : e = IF OverQuota(d, v) THEN Evicted(d, Share(d.rnum)) ELSE d
  OBVIOUS
<1>2. Sound(e, Storable)
  BY <1>1, StorableSized, EvictedIs
<1>3. PICK g : g = Store(e, k, v, isreplace)
  OBVIOUS
<1>4. Sound(g.db, Storable)
  <2>1. CASE v.len = 0 \/ (~isreplace /\ Has(e, k))
    <3>1. g = [ok |-> FALSE, db |-> e]
      BY <1>3, <2>1 DEF Store
    <3> QED
      BY <1>2, <3>1
  <2>2. CASE ~(v.len = 0 \/ (~isreplace /\ Has(e, k)))
    <3>1. g = [ok |-> TRUE, db |-> PutRec(e, Find(e, k), k, v)]
      BY <1>3, <2>2 DEF Store
    <3>2. v \in Storable
      BY <2>2 DEF Given
    <3>3. Sound(PutRec(e, Find(e, k), k, v), Storable)
      BY <1>2, <3>2, StorableSized, PutIs
    <3> QED
      BY <3>1, <3>3
  <2> QED
    BY <2>1, <2>2
<1>5. Attempt(d, k, v, isreplace) = IF OverQuota(e, v) THEN [ok |-> FALSE, db |-> e] ELSE g
  BY <1>1, <1>3, Zenon DEF Attempt, StoreOrRefuse
<1> QED
  BY <1>2, <1>4, <1>5

\* So does a turn of the loop of reMaxSize.
LEMMA TurnIs ==
  ASSUME NEW s, s = [db |-> s.db, res |-> s.res], Sound(s.db, Storable), NEW m, NEW cur, NEW turn,
         NEW t, t = Turn(s, m, cur, turn)
  PROVE  t = [db |-> t.db, res |-> t.res] /\ Sound(t.db, Storable)
<1>1. PICK n : n = (s.db.rnum * (cur - m)) \div cur
  OBVIOUS
<1>2. PICK e : e = IF n = 0 THEN s.db ELSE Evicted(s.db, n)
  OBVIOUS
<1>3. Sound(e, Storable)
  BY <1>2, StorableSized, EvictedIs
<1>4. t = IF s.res # "more" THEN s
          ELSE IF s.db.fsiz <= m THEN [s EXCEPT !.res = "ok"]
          ELSE [db |-> e, res |-> IF turn > 3 \/ e.rnum = 0 THEN "failed" ELSE "more"]
  BY <1>1, <1>2, Zenon DEF Turn, Judged
<1>5. [s EXCEPT !.res = "ok"] = [db |-> s.db, res |-> "ok"]
  OBVIOUS
<1>6. CASE s.res # "more"
  BY <1>4, <1>6
<1>7. CASE s.res = "more" /\ s.db.fsiz <= m
  <2>1. t = [db |-> s.db, res |-> "ok"]
    BY <1>4, <1>5, <1>7
  <2> QED
    BY <2>1
<1>8. CASE s.res = "more" /\ ~(s.db.fsiz <= m)
  <2>1. PICK res : t = [db |-> e, res |-> res]
    BY <1>4, <1>8
  <2> QED
    BY <1>3, <2>1
<1> QED
  BY <1>6, <1>7, <1>8

\* So does reMaxSize.
LEMMA ResizedIs ==
  ASSUME NEW d, Sound(d, Storable), NEW old, NEW m
  PROVE  Sound(Resized(d, old, m).db, Storable)
<1>1. PICK s0, s1, s2, s3, s4 : Turns(d, m, s0, s1, s2, s3, s4)
  BY DEF Turns
<1>2. s0 = [db |-> s0.db, res |-> s0.res] /\ Sound(s0.db, Storable)
  BY <1>1 DEF Turns
<1>3. s1 = [db |-> s1.db, res |-> s1.res] /\ Sound(s1.db, Storable)
  BY <1>1, <1>2, TurnIs DEF Turns
<1>4. s2 = [db |-> s2.db, res |-> s2.res] /\ Sound(s2.db, Storable)
  BY <1>1, <1>3, TurnIs DEF Turns
<1>5. s3 = [db |-> s3.db, res |-> s3.res] /\ Sound(s3.db, Storable)
  BY <1>1, <1>4, TurnIs DEF Turns
<1>6. s4 = [db |-> s4.db, res |-> s4.res] /\ Sound(s4.db, Storable)
  BY <1>1, <1>5, TurnIs DEF Turns
<1>7. Shrunken(d, m) = s4
  BY <1>1, ShrunkenTurns
<1>8. \/ Resized(d, old, m).db = d
      \/ Resized(d, old, m).db = s4.db
  <2>1. CASE m < MinLen
    BY <2>1 DEF Resized, Settled
  <2>2. CASE ~(m < MinLen) /\ (m >= old \/ m >= d.fsiz)
    BY <2>2 DEF Resized, Settled
  <2>3. CASE ~(m < MinLen) /\ ~(m >= old \/ m >= d.fsiz)
    <3>1. Resized(d, old, m) = [db |-> s4.db, max |-> IF s4.res = "ok" THEN m ELSE old, ok |-> s4.res = "ok"]
      BY <1>7, <2>3, Zenon DEF Resized, Settled
    <3> QED
      BY <3>1
  <2> QED
    BY <2>1, <2>2, <2>3
<1> QED
  BY <1>6, <1>8

---------------------------------------------------------------------------
(* The invariant *)

\* The file is sound whatever the status: a process that dies leaves a file
\* that a later one opens.
StoreInv ==
  /\ Sound(db, Storable)
  /\ status \in {"open", "closed", "dead"} /\ maxlen \in Nat /\ saved \in Nat
  /\ now \in 0 .. MaxTime

\* A new store is sound.
LEMMA InitSound == Init => StoreInv
BY EmptySound, StoreAssumption DEF Init, StoreInv

\* Each of the JNI calls keeps the store sound: insert,
LEMMA InsertSound ==
  ASSUME StoreInv, NEW k \in Keys, NEW v, Given(v), NEW isreplace, Insert(k, v, isreplace)
  PROVE  StoreInv'
<1>1. PICK d : d = db
  OBVIOUS
<1>2. PICK r : r = Attempt(d, k, v, isreplace)
  OBVIOUS
<1>3. PICK s : /\ s = IF r.ok THEN r ELSE Attempt(r.db, k, v, isreplace)
               /\ db' = s.db
  BY <1>1, <1>2 DEF Insert
<1>4. Sound(r.db, Storable)
  BY <1>1, <1>2, AttemptIs DEF StoreInv
<1>5. Sound(s.db, Storable)
  BY <1>3, <1>4, AttemptIs
<1> QED
  BY <1>3, <1>5 DEF StoreInv, Insert

\* ... remove,
LEMMA DeleteSound ==
  ASSUME StoreInv, NEW k \in Keys, Delete(k)
  PROVE  StoreInv'
<1>1. PICK d : d = db
  OBVIOUS
<1>2. Sound(d, Storable)
  BY <1>1 DEF StoreInv
<1>3. db' = IF Has(d, k) THEN RemoveRec(d, Find(d, k)) ELSE d
  BY <1>1 DEF Delete
<1>4. Sound(db', Storable)
  <2>1. CASE Has(d, k)
    <3>1. PICK e : e = RemoveRec(d, Find(d, k))
      OBVIOUS
    <3>2. Sound(e, Storable)
      BY <1>2, <2>1, <3>1, DeletedIs
    <3> QED
      BY <1>3, <2>1, <3>1, <3>2
  <2>2. CASE ~Has(d, k)
    BY <1>2, <1>3, <2>2
  <2> QED
    BY <2>1, <2>2
<1> QED
  BY <1>4 DEF StoreInv, Delete

\* ... reMaxSize,
LEMMA ReMaxSizeSound ==
  ASSUME StoreInv, NEW m \in Sizes, ReMaxSize(m)
  PROVE  StoreInv'
<1>1. PICK d, old, r : d = db /\ old = maxlen /\ r = Resized(d, old, m)
  OBVIOUS
<1>2. /\ db' = r.db /\ maxlen' = r.max /\ saved' = (IF r.ok THEN m ELSE saved)
      /\ status' = status /\ now' = now
  BY <1>1 DEF ReMaxSize
<1>3. Sound(r.db, Storable)
  BY <1>1, ResizedIs DEF StoreInv
<1>4. r.ok \in BOOLEAN /\ (r.ok => r.max = m) /\ (~r.ok => r.max = old)
  BY <1>1, ResizedQuota
<1>5. m \in Nat /\ old \in Nat
  BY <1>1, StoreAssumption DEF StoreInv
<1>6. maxlen' \in Nat /\ saved' \in Nat
  BY <1>2, <1>4, <1>5 DEF StoreInv
<1> QED
  BY <1>2, <1>3, <1>6 DEF StoreInv

\* ... and open, of a file that was closed or left by a process that died.
LEMMA OpenSound ==
  ASSUME StoreInv, NEW m \in Sizes, Open(m)
  PROVE  StoreInv'
<1>1. PICK e, old, marked : e = db /\ old = saved /\ marked = (status = "dead")
  OBVIOUS
<1>2. PICK d : d = Opened(e, marked)
  OBVIOUS
<1>3. PICK r : r = IF m = old THEN [db |-> d, max |-> m, ok |-> TRUE] ELSE Resized(d, old, m)
  OBVIOUS
<1>4. /\ db' = r.db \/ db' = Optimize(r.db)
      /\ maxlen' = r.max /\ saved' = (IF r.ok THEN m ELSE saved)
      /\ status' = "open" /\ now' = now
  <2>1. \E x \in {Opened(db, status = "dead")} :
         \E y \in {IF m = saved THEN [db |-> x, max |-> m, ok |-> TRUE] ELSE Resized(x, saved, m)} :
           /\ db' \in {y.db} \cup (IF status = "dead" /\ y.ok THEN {Optimize(y.db)} ELSE {})
           /\ maxlen' = y.max /\ saved' = IF y.ok THEN m ELSE saved
    BY DEF Open
  <2>2. PICK y : /\ y = IF m = saved THEN [db |-> d, max |-> m, ok |-> TRUE] ELSE Resized(d, saved, m)
                 /\ db' \in {y.db} \cup (IF status = "dead" /\ y.ok THEN {Optimize(y.db)} ELSE {})
                 /\ maxlen' = y.max /\ saved' = IF y.ok THEN m ELSE saved
    BY <1>1, <1>2, <2>1
  <2>3. y = r
    BY <1>1, <1>3, <2>2
  <2>4. db' = y.db \/ db' = Optimize(y.db)
    BY <2>2
  <2> QED
    BY <2>2, <2>3, <2>4 DEF Open
<1>5. Sound(d, Storable)
  <2>1. marked \in BOOLEAN /\ Sound(e, Storable)
    BY <1>1 DEF StoreInv
  <2> QED
    BY <1>2, <2>1, ClosedIs
<1>6. Sound(r.db, Storable)
  BY <1>3, <1>5, ResizedIs
<1>7. Sound(db', Storable)
  <2>1. PICK x : x = r.db
    OBVIOUS
  <2>2. Sound(x, Storable) /\ Sound(Optimize(x), Storable)
    BY <1>6, <2>1, StorableSized, OptimizeIs
  <2> QED
    BY <1>4, <2>1, <2>2
<1>8. m \in Nat /\ saved \in Nat /\ old = saved
  BY <1>1, StoreAssumption DEF StoreInv
<1>9. r.ok \in BOOLEAN /\ (r.ok => r.max = m) /\ (~r.ok => r.max = old)
  <2>1. CASE m = old
    BY <1>3, <2>1
  <2>2. CASE m # old
    BY <1>3, <2>2, ResizedQuota
  <2> QED
    BY <2>1, <2>2
<1>10. maxlen' \in Nat /\ saved' \in Nat
  BY <1>4, <1>8, <1>9
<1> QED
  BY <1>4, <1>7, <1>10 DEF StoreInv, Open

\* So does every step.
LEMMA NextSound ==
  ASSUME StoreInv, [Next]_vars
  PROVE  StoreInv'
<1>1. CASE UNCHANGED vars
  BY <1>1 DEF StoreInv, vars
<1>2. ASSUME NEW k \in Keys, NEW len \in Lens, NEW isreplace \in BOOLEAN,
             Insert(k, Value(now, FALSE, len, len), isreplace)
      PROVE  StoreInv'
  <2>1. PICK v, t : t = now /\ v = Value(t, FALSE, len, len)
    OBVIOUS
  <2>2. Given(v)
    <3>1. t \in 0 .. MaxTime /\ len \in Lengths
      BY <2>1 DEF StoreInv, Lengths
    <3> QED
      BY <2>1, <3>1, ValueIs
  <2>3. Insert(k, v, isreplace)
    BY <1>2, <2>1
  <2> QED
    BY <2>2, <2>3, InsertSound
<1>3. ASSUME NEW k \in Keys, NEW len \in Lens, NEW isreplace \in BOOLEAN, NEW size \in Packed(len),
             Insert(k, Value(now, TRUE, len, size), isreplace)
      PROVE  StoreInv'
  <2>1. PICK v, t : t = now /\ v = Value(t, TRUE, len, size)
    OBVIOUS
  <2>2. Given(v)
    <3>1. t \in 0 .. MaxTime /\ size \in Lengths
      BY <2>1 DEF StoreInv, Lengths
    <3> QED
      BY <2>1, <3>1, ValueIs
  <2>3. Insert(k, v, isreplace)
    BY <1>3, <2>1
  <2> QED
    BY <2>2, <2>3, InsertSound
<1>4. ASSUME NEW k \in Keys, Delete(k)
      PROVE  StoreInv'
  BY <1>4, DeleteSound
<1>5. CASE ClearAll
  BY <1>5, EmptySound DEF StoreInv, ClearAll
<1>6. ASSUME Close \/ Die
      PROVE  StoreInv'
  <2>1. PICK d : d = db
    OBVIOUS
  <2>2. Sound(Closed(d), Storable) /\ Sound(Volatile(d), Storable)
    BY <2>1, ClosedIs DEF StoreInv
  <2>3. Sound(db', Storable) /\ status' \in {"closed", "dead"} /\ maxlen' = 0 /\ saved' = saved /\ now' = now
    <3>1. CASE Close
      BY <2>1, <2>2, <3>1 DEF Close
    <3>2. CASE Die
      BY <2>1, <2>2, <3>2 DEF Die
    <3> QED
      BY <1>6, <3>1, <3>2
  <2> QED
    BY <2>3 DEF StoreInv
<1>7. ASSUME NEW m \in Sizes, ReMaxSize(m)
      PROVE  StoreInv'
  BY <1>7, ReMaxSizeSound
<1>8. ASSUME NEW m \in Sizes, Open(m)
      PROVE  StoreInv'
  BY <1>8, OpenSound
<1>9. ASSUME NEW t \in 0 .. MaxTime, Tick(t)
      PROVE  StoreInv'
  BY <1>9 DEF StoreInv, Tick
<1> QED
  BY <1>1, <1>2, <1>3, <1>4, <1>5, <1>6, <1>7, <1>8, <1>9 DEF Next

\* A sound store is well formed.
LEMMA SoundFile == StoreInv => FileSound
<1>1. PICK d : d = db
  OBVIOUS
<1>2. SUFFICES ASSUME StoreInv
               PROVE  FileSound
  OBVIOUS
<1>3. /\ Tiled(d) /\ PoolSound(d) /\ Searchable(d)
      /\ \A o \in LiveRecs(d) : IsRecord(d.seg[o], Storable)
  BY <1>1, <1>2, SoundIs DEF StoreInv
<1>4. \A o \in LiveRecs(d) : d.seg[o].val \in Storable
  BY <1>3, SegIs DEF IsRecord
<1>5. Held(d) \subseteq Storable
  BY <1>4 DEF Held
<1> QED
  BY <1>1, <1>2, <1>3, <1>5 DEF FileSound, TypeOK, StoreInv

\* Whatever is inserted, evicted, removed, reset, closed, killed and reopened,
\* the file of a store stays well formed: its segments tile it, every record is
\* found under its key, the header counts them, all values are such as callers
\* write, and the blocks of an open store's pool are free and apart (mStore.cpp
\* over tchdb.c).
THEOREM FileIsSound == Spec => []FileSound
<1>1. Init => StoreInv
  BY InitSound
<1>2. StoreInv /\ [Next]_vars => StoreInv'
  BY NextSound
<1>3. StoreInv => FileSound
  BY SoundFile
<1> QED
  BY <1>1, <1>2, <1>3, PTL DEF Spec

---------------------------------------------------------------------------
(* How far the file of a store grows *)

\* Neither evicting nor optimizing makes it longer.
LEMMA EvictedEnds ==
  ASSUME NEW Vs, Sizable(Vs), NEW d, Sound(d, Vs), NEW n
  PROVE  Evicted(d, n).fsiz <= d.fsiz
<1>1. PICK s, m, a, f : /\ s = RecOffsets(d) /\ m = Len(s) /\ a = Cut(d, n) /\ m \in Nat
                        /\ ListsRecords(d, s) /\ DropsInTurn(s, a, m, f)
                        /\ Evicted(d, n) = Optimize(IF n = 0 THEN d ELSE f[m].db)
  BY EvictionTurns
<1>2. a.db = d
  BY <1>1 DEF Cut
<1> DEFINE P == {i \in 0 .. m : SameEnd(d, f[i].db)}
<1>3. 0 \in P
  <2>1. f[0] = a
    BY <1>1 DEF DropsInTurn
  <2>2. IsDB(d)
    BY SoundIs DEF Clean, Kept
  <2> QED
    BY <1>1, <1>2, <2>1, <2>2 DEF SameEnd
<1>4. ASSUME NEW i \in 1 .. m, i - 1 \in P
      PROVE  i \in P
  <2>1. PICK x, e, o : x = f[i - 1] /\ e = f[i] /\ o = s[i]
    OBVIOUS
  <2>2. e = DropOld(x, o) /\ SameEnd(d, x.db)
    BY <1>1, <1>4, <2>1 DEF DropsInTurn
  <2>3. SameEnd(d, e.db)
    <3>1. PICK b, p, c : b = x.db /\ p = Find(b, b.seg[o].key) /\ c = e.db
      OBVIOUS
    <3>2. c = b \/ c = RemoveRec(b, p)
      BY <2>2, <3>1 DEF DropOld
    <3>3. CASE c = b
      BY <2>2, <3>1, <3>3
    <3>4. CASE c = RemoveRec(b, p)
      <4>1. SameEnd(b, c)
        BY <2>2, <3>1, <3>4, RemoveEnds DEF SameEnd
      <4> QED
        BY <2>2, <3>1, <4>1 DEF SameEnd
    <3> QED
      BY <3>2, <3>3, <3>4
  <2> QED
    BY <1>1, <2>1, <2>3
<1>5. \A i \in 0 .. m : i \in P
  <2> HIDE DEF P
  <2> QED
    BY <1>1, <1>3, <1>4, Reached
<1>6. PICK e : e = IF n = 0 THEN d ELSE f[m].db
  OBVIOUS
<1>7. Sound(e, Vs) /\ e.fsiz = d.fsiz
  <2>1. Sound(f[m].db, Vs)
    BY <1>1, <1>2, IterationIs
  <2>2. f[m].db.fsiz = d.fsiz
    BY <1>1, <1>5 DEF SameEnd
  <2> QED
    BY <1>6, <2>1, <2>2
<1>8. Optimize(e).fsiz <= e.fsiz
  BY <1>7, OptimizeEnds
<1> QED
  BY <1>1, <1>6, <1>7, <1>8

\* Two files, the second no longer.
NoLonger(d, e) == Sound(e, Storable) /\ e.fsiz <= d.fsiz

\* The lengths of files are numbers.
LEMMA NoLongerTrans ==
  ASSUME NEW d, Sound(d, Storable), NEW e, NoLonger(d, e), NEW f, NoLonger(e, f)
  PROVE  NoLonger(d, f) /\ d.fsiz \in Nat /\ e.fsiz \in Nat /\ f.fsiz \in Nat
<1>1. Clean(d, Storable) /\ Clean(e, Storable) /\ Clean(f, Storable)
  BY SoundIs DEF NoLonger
<1>2. d.fsiz \in Nat /\ e.fsiz \in Nat /\ f.fsiz \in Nat
  BY <1>1, IndexIs
<1> QED
  BY <1>2 DEF NoLonger

\* So it is with itself.
LEMMA NoLongerSelf ==
  ASSUME NEW d, Sound(d, Storable)
  PROVE  NoLonger(d, d) /\ d.fsiz \in Nat
<1>1. Clean(d, Storable)
  BY SoundIs
<1>2. d.fsiz \in Nat
  BY <1>1, IndexIs
<1> QED
  BY <1>2 DEF NoLonger

\* An eviction, perhaps.
LEMMA PerhapsEvicted ==
  ASSUME NEW d, Sound(d, Storable), NEW n, NEW e, e = d \/ e = Evicted(d, n)
  PROVE  NoLonger(d, e)
<1>1. CASE e = d
  BY <1>1, NoLongerSelf
<1>2. CASE e = Evicted(d, n)
  BY <1>2, StorableSized, EvictedIs, EvictedEnds DEF NoLonger
<1> QED
  BY <1>1, <1>2

\* A turn of the loop of reMaxSize makes the file no longer.
LEMMA TurnEnds ==
  ASSUME NEW d, Sound(d, Storable), NEW s, NoLonger(d, s.db), NEW m, NEW cur, NEW turn,
         NEW t, t = Turn(s, m, cur, turn)
  PROVE  NoLonger(d, t.db)
<1>1. PICK n, c : n = (s.db.rnum * (cur - m)) \div cur /\ c = s.db
  OBVIOUS
<1>2. PICK e : e = IF n = 0 THEN c ELSE Evicted(c, n)
  OBVIOUS
<1>3. t = IF s.res # "more" THEN s
          ELSE IF s.db.fsiz <= m THEN [s EXCEPT !.res = "ok"] ELSE Judged(e, turn)
  BY <1>1, <1>2, Zenon DEF Turn
<1>4. [s EXCEPT !.res = "ok"].db = s.db
  OBVIOUS
<1>5. Judged(e, turn).db = e
  BY DEF Judged
<1>6. t.db = c \/ t.db = e
  BY <1>1, <1>3, <1>4, <1>5
<1>7. NoLonger(c, e)
  BY <1>1, <1>2, PerhapsEvicted DEF NoLonger
<1>8. NoLonger(d, e)
  BY <1>1, <1>7, NoLongerTrans
<1> QED
  BY <1>1, <1>6, <1>8

\* Nor does reMaxSize.
LEMMA ResizedEnds ==
  ASSUME NEW d, Sound(d, Storable), NEW old, NEW m
  PROVE  NoLonger(d, Resized(d, old, m).db)
<1>1. PICK s0, s1, s2, s3, s4 : Turns(d, m, s0, s1, s2, s3, s4)
  BY DEF Turns
<1>2. NoLonger(d, s0.db)
  BY <1>1, NoLongerSelf DEF Turns
<1>3. NoLonger(d, s1.db)
  BY <1>1, <1>2, TurnEnds DEF Turns
<1>4. NoLonger(d, s2.db)
  BY <1>1, <1>3, TurnEnds DEF Turns
<1>5. NoLonger(d, s3.db)
  BY <1>1, <1>4, TurnEnds DEF Turns
<1>6. NoLonger(d, s4.db)
  BY <1>1, <1>5, TurnEnds DEF Turns
<1>7. Shrunken(d, m) = s4
  BY <1>1, ShrunkenTurns
<1>8. Resized(d, old, m).db = d \/ Resized(d, old, m).db = s4.db
  <2>1. CASE m < MinLen
    BY <2>1 DEF Resized
  <2>2. CASE ~(m < MinLen) /\ (m >= old \/ m >= d.fsiz)
    BY <2>2 DEF Resized
  <2>3. CASE ~(m < MinLen) /\ ~(m >= old \/ m >= d.fsiz)
    BY <1>7, <2>3 DEF Resized, Settled
  <2> QED
    BY <2>1, <2>2, <2>3
<1> QED
  BY <1>6, <1>8, NoLongerSelf

---------------------------------------------------------------------------
(* The quota *)

\* A value that a call stores is no longer than its head, what was given and
\* what compression may add.
Made(v) == Given(v) /\ v.len \in Lens /\ v.size <= HeadLen + v.len + Stretch

\* The numbers of the quota.
LEMMA QuotaSizes ==
  /\ Lens \subseteq Nat /\ Sizes \subseteq Nat /\ HeadLen \in Nat /\ Word \in Nat \ {0}
  /\ Stretch \in Nat
  /\ HeadSize \in Nat /\ KeySize \in Nat /\ Align \in Nat \ {0} /\ Overhead \in Nat
<1>1. Lens \subseteq Nat /\ Sizes \subseteq Nat /\ HeadLen \in Nat /\ Stretch \in Nat
  BY StoreAssumption
<1>2. Word \in Nat \ {0}
  <2>1. Word \in Nat /\ MaxFsiz \in Nat /\ Word > MaxFsiz
    BY StoreAssumption
  <2> QED
    BY <2>1
<1> QED
  BY <1>1, <1>2, LayoutSizes DEF Overhead

\* A remainder is no more than what it is of.
LEMMA RemainderLess ==
  ASSUME NEW x \in Nat, NEW n \in Nat \ {0}
  PROVE  x % n \in Nat /\ x % n <= x
<1>1. x % n \in 0 .. n - 1
  OBVIOUS
<1>2. x >= n \/ x % n = x
  OBVIOUS
<1> QED
  BY <1>1, <1>2

\* A record that is put into a file within the quota less its key and its
\* value exceeds the quota by the overhead at most.
LEMMA PutWithin ==
  ASSUME QuotaAmple, NEW d, Sound(d, Storable), NEW k \in Keys, NEW v \in Storable, Made(v),
         NEW m \in Sizes, d.fsiz <= m - KeySize - v.len,
         NEW e, e = PutRec(d, Find(d, k), k, v)
  PROVE  e.fsiz <= m + Overhead
<1>1. Grown(d.fsiz, RecSize(v), e.fsiz)
  BY StorableSized, PutGrows
<1>2. PICK f, n, x, p : f = d.fsiz /\ n = RecSize(v) /\ x = e.fsiz /\ p = PadSize(f + n)
  OBVIOUS
<1>3. f \in Nat
  BY <1>2, NoLongerSelf
<1>4. ValSize(v) = v.size /\ v.size \in Nat
  BY StorableSized DEF Sizable
<1>5. n = HeadSize + KeySize + v.size /\ n \in Nat
  BY <1>2, <1>4, QuotaSizes DEF RecSize
<1>6. p \in 0 .. Align - 1
  BY <1>2, <1>3, <1>5, Padded
<1>7. x = f \/ x = f + (n + p)
  BY <1>1, <1>2 DEF Grown
<1>8. v.len \in Nat /\ v.size <= HeadLen + v.len + Stretch /\ m \in Nat
  BY QuotaSizes DEF Made
<1>9. x <= m + (HeadSize + HeadLen + Stretch + Align - 1)
  BY <1>2, <1>3, <1>4, <1>5, <1>6, <1>7, <1>8, QuotaSizes
<1> QED
  BY <1>2, <1>9 DEF Overhead

\* mStore::insert keeps the file within its bound.
LEMMA AttemptWithin ==
  ASSUME QuotaAmple, NEW d, Sound(d, Storable), NEW k \in Keys, NEW v, Made(v), NEW isreplace,
         maxlen \in Sizes, d.fsiz <= maxlen + Overhead
  PROVE  Attempt(d, k, v, isreplace).db.fsiz <= maxlen + Overhead
<1>1. PICK e : e = IF OverQuota(d, v) THEN Evicted(d, Share(d.rnum)) ELSE d
  OBVIOUS
<1>2. NoLonger(d, e) /\ Sound(e, Storable)
  <2>1. PICK n : n = Share(d.rnum)
    OBVIOUS
  <2>2. e = d \/ e = Evicted(d, n)
    BY <1>1, <2>1
  <2> QED
    BY <2>2, PerhapsEvicted DEF NoLonger
<1>3. PICK m : m = maxlen
  OBVIOUS
<1>4. d.fsiz \in Nat /\ e.fsiz \in Nat /\ m \in Sizes /\ m \in Nat
  BY <1>2, <1>3, NoLongerSelf, QuotaSizes
<1>5. e.fsiz <= m + Overhead
  BY <1>2, <1>3, <1>4, QuotaSizes DEF NoLonger
<1>6. PICK g : g = Store(e, k, v, isreplace)
  OBVIOUS
<1>7. Attempt(d, k, v, isreplace) = IF OverQuota(e, v) THEN [ok |-> FALSE, db |-> e] ELSE g
  BY <1>1, <1>6, Zenon DEF Attempt, StoreOrRefuse
<1>8. CASE OverQuota(e, v)
  BY <1>3, <1>5, <1>7, <1>8
<1>9. CASE ~OverQuota(e, v) /\ (v.len = 0 \/ (~isreplace /\ Has(e, k)))
  <2>1. g = [ok |-> FALSE, db |-> e]
    BY <1>6, <1>9 DEF Store
  <2> QED
    BY <1>3, <1>5, <1>7, <1>9, <2>1
<1>10. CASE ~OverQuota(e, v) /\ ~(v.len = 0 \/ (~isreplace /\ Has(e, k)))
  <2>1. g = [ok |-> TRUE, db |-> PutRec(e, Find(e, k), k, v)]
    BY <1>6, <1>10 DEF Store
  <2>2. PICK f : f = PutRec(e, Find(e, k), k, v)
    OBVIOUS
  <2>3. PICK q : q = m - KeySize - v.len
    OBVIOUS
  <2>4. v.len \in Nat /\ v.len \in Lens /\ KeySize + v.len <= m
    BY <1>4, QuotaSizes DEF Made, QuotaAmple
  <2>5. q \in Nat
    BY <1>4, <2>3, <2>4, QuotaSizes
  <2>6. e.fsiz <= q % Word
    <3>1. ~(e.fsiz > q % Word)
      BY <1>3, <1>10, <2>3 DEF OverQuota
    <3>2. q % Word \in Nat
      BY <2>5, RemainderLess, QuotaSizes
    <3> QED
      BY <1>4, <3>1, <3>2
  <2>7. e.fsiz <= q
    <3>1. q % Word \in Nat /\ q % Word <= q
      BY <2>5, RemainderLess, QuotaSizes
    <3> QED
      BY <1>4, <2>5, <2>6, <3>1
  <2>8. v \in Storable
    BY <1>10 DEF Made, Given
  <2>9. f.fsiz <= m + Overhead
    BY <1>2, <1>4, <2>2, <2>3, <2>7, <2>8, PutWithin
  <2> QED
    BY <1>3, <1>7, <1>10, <2>1, <2>2, <2>9
<1> QED
  BY <1>8, <1>9, <1>10

\* The quota in force bounds the file of an open store, the one in its header
\* that of any other, unless a reset took it away; even then some quota does,
\* and so the largest.
QuotaInv ==
  /\ StoreInv
  /\ status = "open" => maxlen \in Sizes /\ saved \in {maxlen, 0} /\ db.fsiz <= maxlen + Overhead
  /\ status # "open" => saved = 0 \/ (saved \in Sizes /\ db.fsiz <= saved + Overhead)
  /\ \E m \in Sizes : db.fsiz <= m + Overhead

\* A new store is within its quota.
LEMMA InitWithin ==
  ASSUME QuotaAmple, Init
  PROVE  QuotaInv
<1>1. StoreInv
  BY InitSound
<1>2. db.fsiz = Frec /\ status = "open" /\ maxlen \in Sizes /\ saved = maxlen
  BY DEF Init, EmptyDB
<1>3. db.fsiz <= maxlen + Overhead
  BY <1>2 DEF QuotaAmple
<1> QED
  BY <1>1, <1>2, <1>3 DEF QuotaInv

\* Each of the JNI calls keeps it there: insert,
LEMMA InsertWithin ==
  ASSUME QuotaAmple, QuotaInv, NEW k \in Keys, NEW v, Made(v), NEW isreplace, Insert(k, v, isreplace)
  PROVE  QuotaInv'
<1>1. PICK d : d = db
  OBVIOUS
<1>2. PICK r : r = Attempt(d, k, v, isreplace)
  OBVIOUS
<1>3. PICK s : s = (IF r.ok THEN r ELSE Attempt(r.db, k, v, isreplace)) /\ db' = s.db
  BY <1>1, <1>2 DEF Insert
<1>4. status = "open" /\ status' = status /\ maxlen' = maxlen /\ saved' = saved
  BY DEF Insert
<1>5. /\ Sound(d, Storable) /\ maxlen \in Sizes /\ saved \in {maxlen, 0}
      /\ d.fsiz <= maxlen + Overhead
  BY <1>1, <1>4 DEF QuotaInv, StoreInv
<1>6. Sound(r.db, Storable) /\ r.db.fsiz <= maxlen + Overhead
  BY <1>2, <1>5, AttemptIs, AttemptWithin DEF Made
<1>7. s.db.fsiz <= maxlen + Overhead
  <2>1. PICK c : c = r.db
    OBVIOUS
  <2>2. Attempt(c, k, v, isreplace).db.fsiz <= maxlen + Overhead
    BY <1>5, <1>6, <2>1, AttemptWithin
  <2> QED
    BY <1>3, <1>6, <2>1, <2>2
<1>8. StoreInv'
  BY InsertSound DEF QuotaInv, Made
<1> QED
  BY <1>3, <1>4, <1>5, <1>7, <1>8 DEF QuotaInv

\* ... remove,
LEMMA DeleteWithin ==
  ASSUME QuotaInv, NEW k \in Keys, Delete(k)
  PROVE  QuotaInv'
<1>1. PICK d, f : d = db /\ f = Find(d, k)
  OBVIOUS
<1>2. /\ db' = d \/ db' = RemoveRec(d, f)
      /\ status' = status /\ maxlen' = maxlen /\ saved' = saved
  BY <1>1 DEF Delete
<1>3. IsDB(d)
  BY <1>1, SoundIs DEF QuotaInv, StoreInv, Clean, Kept
<1>4. db'.fsiz = db.fsiz
  <2>1. PICK e : e = db'
    OBVIOUS
  <2>2. e = RemoveRec(d, f) => e.fsiz = d.fsiz
    BY <1>3, RemoveEnds DEF SameEnd
  <2> QED
    BY <1>1, <1>2, <2>1, <2>2
<1>5. StoreInv'
  BY DeleteSound DEF QuotaInv
<1> QED
  BY <1>2, <1>4, <1>5 DEF QuotaInv

\* ... reMaxSize,
LEMMA ReMaxSizeWithin ==
  ASSUME QuotaInv, NEW m \in Sizes, ReMaxSize(m)
  PROVE  QuotaInv'
<1>1. PICK d, old, r : d = db /\ old = maxlen /\ r = Resized(d, old, m)
  OBVIOUS
<1>2. /\ db' = r.db /\ maxlen' = r.max /\ saved' = (IF r.ok THEN m ELSE saved)
      /\ status' = status /\ status = "open"
  BY <1>1 DEF ReMaxSize
<1>3. /\ r.ok \in BOOLEAN /\ (r.ok => r.max = m /\ (m >= old \/ r.db.fsiz <= m))
      /\ (~r.ok => r.max = old)
  BY <1>1, ResizedQuota
<1>4. Sound(d, Storable) /\ old \in Sizes /\ saved \in {old, 0} /\ d.fsiz <= old + Overhead
  BY <1>1, <1>2 DEF QuotaInv, StoreInv
<1>5. NoLonger(d, r.db)
  BY <1>1, <1>4, ResizedEnds
<1>6. d.fsiz \in Nat /\ r.db.fsiz \in Nat /\ r.db.fsiz <= d.fsiz
  BY <1>4, <1>5, NoLongerSelf DEF NoLonger
<1>7. m \in Nat /\ old \in Nat /\ Overhead \in Nat
  BY <1>4, QuotaSizes
<1>8. r.max \in Sizes /\ r.db.fsiz <= r.max + Overhead
  BY <1>3, <1>4, <1>6, <1>7
<1>9. StoreInv'
  BY ReMaxSizeSound DEF QuotaInv
<1>10. saved' \in {maxlen', 0}
  BY <1>2, <1>3, <1>4
<1> QED
  BY <1>2, <1>8, <1>9, <1>10 DEF QuotaInv

\* What reMaxSize makes of a file, and what it answers.
Answers(d, old, m, r) ==
  /\ NoLonger(d, r.db) /\ r.ok \in BOOLEAN
  /\ r.ok => r.max = m /\ (m >= old \/ r.db.fsiz <= m)
  /\ ~r.ok => r.max = old

LEMMA ResizedAnswers ==
  ASSUME NEW d, Sound(d, Storable), NEW old, NEW m, NEW r, r = Resized(d, old, m)
  PROVE  Answers(d, old, m, r)
<1>1. NoLonger(d, r.db)
  BY ResizedEnds
<1>2. /\ r.ok \in BOOLEAN
      /\ r.ok => r.max = m /\ (m >= old \/ r.db.fsiz <= m)
      /\ ~r.ok => r.max = old
  BY ResizedQuota
<1> QED
  BY <1>1, <1>2 DEF Answers

\* What open makes of a file whose header has the quota `old'.
Reopened(d, old, m) ==
  IF m = old THEN [db |-> d, max |-> m, ok |-> TRUE] ELSE Resized(d, old, m)

\* The file is within the quota that is then in force.
ReopenedWithin(d, old, m, r) ==
  /\ NoLonger(d, r.db) /\ r.ok \in BOOLEAN
  /\ r.max \in Sizes /\ r.db.fsiz <= r.max + Overhead
  /\ IF r.ok THEN r.max = m ELSE r.max = old

\* Whatever the header of a file says, a quota bounds it.
FileWithin(d, old) ==
  /\ old = 0 \/ (old \in Sizes /\ d.fsiz <= old + Overhead)
  /\ \E n \in Sizes : d.fsiz <= n + Overhead

\* The quota that open enforces: with the header's, another, or none in it.
LEMMA OpenedWithin ==
  ASSUME QuotaAmple, NEW d, Sound(d, Storable), NEW old \in Nat, NEW m \in Sizes,
         old = 0 => \A n \in Sizes : n <= m, FileWithin(d, old),
         NEW r, r = Reopened(d, old, m)
  PROVE  ReopenedWithin(d, old, m, r)
<1>1. d.fsiz \in Nat /\ m \in Nat /\ Overhead \in Nat
  BY NoLongerSelf, QuotaSizes
<1>2. old = 0 => d.fsiz <= m + Overhead /\ MinLen <= m
  <2>1. SUFFICES ASSUME old = 0
                 PROVE  d.fsiz <= m + Overhead /\ MinLen <= m
    OBVIOUS
  <2>2. PICK n \in Sizes : d.fsiz <= n + Overhead
    BY DEF FileWithin
  <2>3. PICK l \in Sizes : l >= MinLen
    BY DEF QuotaAmple
  <2>4. n <= m /\ l <= m /\ n \in Nat /\ l \in Nat /\ MinLen \in Nat
    BY <2>1, QuotaSizes, StoreAssumption
  <2> QED
    BY <1>1, <2>2, <2>3, <2>4
<1>3. CASE m = old
  <2>1. r.db = d /\ r.max = m /\ r.ok = TRUE
    BY <1>3 DEF Reopened
  <2>2. d.fsiz <= m + Overhead
    BY <1>2, <1>3 DEF FileWithin
  <2> QED
    BY <1>3, <2>1, <2>2, NoLongerSelf DEF ReopenedWithin
<1>4. CASE m # old
  <2>1. r = Resized(d, old, m)
    BY <1>4 DEF Reopened
  <2>0. Answers(d, old, m, r)
    BY <2>1, ResizedAnswers
  <2>2. NoLonger(d, r.db)
    BY <2>0 DEF Answers
  <2>3. /\ r.ok \in BOOLEAN /\ (r.ok => r.max = m /\ (m >= old \/ r.db.fsiz <= m))
        /\ (~r.ok => r.max = old)
    BY <2>0 DEF Answers
  <2>4. r.db.fsiz \in Nat /\ r.db.fsiz <= d.fsiz
    BY <2>2, NoLongerSelf DEF NoLonger
  <2>5. CASE old = 0
    <3>1. r = [db |-> d, max |-> m, ok |-> TRUE]
      <4>1. ~(m < MinLen) /\ m >= old
        <5>1. MinLen \in Nat
          BY StoreAssumption
        <5> QED
          BY <1>1, <1>2, <2>5, <5>1
      <4> QED
        BY <2>1, <4>1 DEF Resized
    <3>2. r.max = m /\ r.db = d /\ r.ok = TRUE
      BY <3>1
    <3> QED
      BY <1>2, <2>2, <2>5, <3>2 DEF ReopenedWithin
  <2>6. CASE old \in Sizes /\ d.fsiz <= old + Overhead
    <3>1. r.max \in Sizes /\ r.db.fsiz <= r.max + Overhead
      BY <1>1, <2>3, <2>4, <2>6
    <3> QED
      BY <2>2, <2>3, <3>1 DEF ReopenedWithin
  <2> QED
    BY <2>5, <2>6 DEF FileWithin
<1> QED
  BY <1>3, <1>4

\* ... and open, of a file that was closed or left by a process that died.
LEMMA OpenWithin ==
  ASSUME QuotaAmple, QuotaInv, NEW m \in Sizes, Open(m)
  PROVE  QuotaInv'
<1>1. PICK e, old, marked : e = db /\ old = saved /\ marked = (status = "dead")
  OBVIOUS
<1>2. PICK d : d = Opened(e, marked)
  OBVIOUS
<1>3. PICK r : /\ r = Reopened(d, old, m)
               /\ db' \in {r.db} \cup (IF status = "dead" /\ r.ok THEN {Optimize(r.db)} ELSE {})
               /\ maxlen' = r.max /\ saved' = IF r.ok THEN m ELSE old
  BY <1>1, <1>2 DEF Open, Reopened
<1>4. status # "open" /\ status' = "open" /\ (old = 0 => \A n \in Sizes : n <= m)
  BY <1>1 DEF Open, QuotaAmple
<1>5. Sound(e, Storable) /\ marked \in BOOLEAN /\ old \in Nat
  BY <1>1 DEF QuotaInv, StoreInv
<1>6. Sound(d, Storable) /\ d.fsiz = e.fsiz
  <2>1. Sound(d, Storable)
    BY <1>2, <1>5, ClosedIs
  <2>2. IsDB(e)
    BY <1>5, SoundIs DEF Clean, Kept
  <2> QED
    BY <1>2, <2>1, <2>2, OpenedEnds DEF SameFile
<1>7. FileWithin(d, old)
  BY <1>1, <1>4, <1>6 DEF QuotaInv, FileWithin
<1>8. /\ NoLonger(d, r.db) /\ r.ok \in BOOLEAN
      /\ r.max \in Sizes /\ r.db.fsiz <= r.max + Overhead
      /\ IF r.ok THEN r.max = m ELSE r.max = old
  <2>1. ReopenedWithin(d, old, m, r)
    BY <1>3, <1>4, <1>5, <1>6, <1>7, OpenedWithin
  <2> QED
    BY <2>1 DEF ReopenedWithin
<1>9. db'.fsiz <= r.max + Overhead
  <2>1. PICK x, y : x = r.db /\ y = db'
    OBVIOUS
  <2>2. y = x \/ y = Optimize(x)
    BY <1>3, <2>1
  <2>3. Sound(x, Storable) /\ x.fsiz \in Nat
    BY <1>8, <2>1, NoLongerSelf DEF NoLonger
  <2>4. NoLonger(x, y)
    BY <2>2, <2>3, StorableSized, OptimizeIs, OptimizeEnds, NoLongerSelf DEF NoLonger
  <2>5. y.fsiz \in Nat /\ y.fsiz <= x.fsiz
    BY <2>4, NoLongerSelf DEF NoLonger
  <2>6. r.max \in Nat /\ Overhead \in Nat
    BY <1>8, QuotaSizes
  <2> QED
    BY <1>8, <2>1, <2>3, <2>5, <2>6
<1>10. saved' \in {maxlen', 0} /\ maxlen' \in Sizes
  BY <1>3, <1>8
<1>11. StoreInv'
  BY OpenSound DEF QuotaInv
<1> QED
  BY <1>3, <1>4, <1>8, <1>9, <1>10, <1>11 DEF QuotaInv

\* So does every step.
LEMMA NextWithin ==
  ASSUME QuotaAmple, QuotaInv, [Next]_vars
  PROVE  QuotaInv'
<1>1. CASE UNCHANGED vars
  BY <1>1 DEF QuotaInv, StoreInv, vars
<1>2. ASSUME NEW k \in Keys, NEW len \in Lens, NEW isreplace \in BOOLEAN,
             Insert(k, Value(now, FALSE, len, len), isreplace)
      PROVE  QuotaInv'
  <2>1. PICK v, t : t = now /\ v = Value(t, FALSE, len, len)
    OBVIOUS
  <2>2. t \in 0 .. MaxTime /\ len \in Lengths
    BY <2>1 DEF QuotaInv, StoreInv, Lengths
  <2>3. Given(v)
    BY <2>1, <2>2, ValueIs
  <2>4. v.len = len /\ v.size = HeadLen + len
    BY <2>1 DEF Value
  <2>5. Made(v)
    BY <2>3, <2>4, QuotaSizes DEF Made
  <2>6. Insert(k, v, isreplace)
    BY <1>2, <2>1
  <2> QED
    BY <2>5, <2>6, InsertWithin
<1>3. ASSUME NEW k \in Keys, NEW len \in Lens, NEW isreplace \in BOOLEAN, NEW size \in Packed(len),
             Insert(k, Value(now, TRUE, len, size), isreplace)
      PROVE  QuotaInv'
  <2>1. PICK v, t : t = now /\ v = Value(t, TRUE, len, size)
    OBVIOUS
  <2>2. t \in 0 .. MaxTime /\ size \in Lengths
    BY <2>1 DEF QuotaInv, StoreInv, Lengths
  <2>3. Given(v)
    BY <2>1, <2>2, ValueIs
  <2>4. v.len = len /\ v.size = HeadLen + size
    BY <2>1 DEF Value
  <2>5. Made(v)
    <3>1. size \in Nat /\ size <= len + Stretch /\ len \in Nat
      BY StoreAssumption, QuotaSizes
    <3> QED
      BY <2>3, <2>4, <3>1, QuotaSizes DEF Made
  <2>6. Insert(k, v, isreplace)
    BY <1>3, <2>1
  <2> QED
    BY <2>5, <2>6, InsertWithin
<1>4. ASSUME NEW k \in Keys, Delete(k)
      PROVE  QuotaInv'
  BY <1>4, DeleteWithin
<1>5. CASE ClearAll
  <2>1. db' = EmptyDB /\ status = "open" /\ status' = status /\ maxlen' = maxlen /\ saved' = 0
    BY <1>5 DEF ClearAll
  <2>2. db'.fsiz = Frec /\ maxlen \in Sizes
    BY <2>1 DEF EmptyDB, QuotaInv
  <2>3. db'.fsiz <= maxlen + Overhead
    BY <2>2 DEF QuotaAmple
  <2>4. StoreInv'
    BY <1>5, NextSound DEF QuotaInv, Next
  <2> QED
    BY <2>1, <2>2, <2>3, <2>4 DEF QuotaInv
<1>6. CASE Close \/ Die
  <2>1. PICK d, e : d = db /\ e = db'
    OBVIOUS
  <2>2. status = "open" /\ status' # "open" /\ saved' = saved /\ (e = Closed(d) \/ e = Volatile(d))
    BY <1>6, <2>1 DEF Close, Die
  <2>3. IsDB(d)
    BY <2>1, SoundIs DEF QuotaInv, StoreInv, Clean, Kept
  <2>4. e.fsiz = d.fsiz
    BY <2>2, <2>3, ClosedEnds DEF SameFile
  <2>5. StoreInv'
    BY <1>6, NextSound DEF QuotaInv, Next
  <2> QED
    BY <2>1, <2>2, <2>4, <2>5 DEF QuotaInv
<1>7. ASSUME NEW m \in Sizes, ReMaxSize(m)
      PROVE  QuotaInv'
  BY <1>7, ReMaxSizeWithin
<1>8. ASSUME NEW m \in Sizes, Open(m)
      PROVE  QuotaInv'
  BY <1>8, OpenWithin
<1>9. ASSUME NEW t \in 0 .. MaxTime, Tick(t)
      PROVE  QuotaInv'
  BY <1>9 DEF QuotaInv, StoreInv, Tick
<1> QED
  BY <1>1, <1>2, <1>3, <1>4, <1>5, <1>6, <1>7, <1>8, <1>9 DEF Next

\* The file of an open store never exceeds its quota by more than the overhead
\* of one record, whatever is inserted, evicted, removed, reset, closed, killed
\* and reopened (mStore::insert, reMaxSize and open), when callers keep to
\* QuotaAmple.
THEOREM QuotaIsKept == ASSUME QuotaAmple PROVE Spec => []QuotaKept
<1>1. Init => QuotaInv
  BY InitWithin
<1>2. QuotaInv /\ [Next]_vars => QuotaInv'
  BY NextWithin
<1>3. QuotaInv => QuotaKept
  BY DEF QuotaInv, QuotaKept
<1> QED
  BY <1>1, <1>2, <1>3, PTL DEF Spec

---------------------------------------------------------------------------
(* Which records go *)

\* When a record was written; those older than t, and those not younger.
Stamp(T, o) == T[o].val.time
Before(T, t) == {o \in DOMAIN T : Stamp(T, o) < t}
Upto(T, t) == {o \in DOMAIN T : Stamp(T, o) <= t}

\* A table of finitely many records with times.
Stamped(T) == IsFiniteSet(DOMAIN T) /\ \A o \in DOMAIN T : Stamp(T, o) \in 0 .. MaxTime

\* t is the time at which n records are cut off.
CutAt(T, n, t) ==
  t \in 0 .. MaxTime /\ Cardinality(Before(T, t)) <= n /\ n < Cardinality(Upto(T, t))

\* There is such a time, unless all are to go.
LEMMA CutExists ==
  ASSUME NEW T, Stamped(T), NEW n \in Nat, n < Cardinality(DOMAIN T)
  PROVE  \E t : CutAt(T, n, t)
<1>1. MaxTime \in Nat
  BY StoreAssumption
<1>2. \A t : IsFiniteSet(Before(T, t)) /\ IsFiniteSet(Upto(T, t))
  <2>1. \A t : Before(T, t) \subseteq DOMAIN T /\ Upto(T, t) \subseteq DOMAIN T
    BY DEF Before, Upto
  <2> QED
    BY <2>1, FS_Subset DEF Stamped
<1>3. \A t : Cardinality(Before(T, t)) \in Nat /\ Cardinality(Upto(T, t)) \in Nat
  BY <1>2, FS_CardinalityType
<1> DEFINE late == {t \in Nat : t <= MaxTime /\ n < Cardinality(Upto(T, t))}
<1>4. MaxTime \in late
  <2>1. Upto(T, MaxTime) = DOMAIN T
    BY <1>1 DEF Upto, Stamped
  <2> QED
    BY <1>1, <2>1
<1>5. PICK t \in late : \A u \in late : t <= u
  <2>1. late \in SUBSET Nat /\ late # {}
    BY <1>4
  <2> HIDE DEF late
  <2> QED
    BY <2>1, LeastOne
<1>6. CASE t = 0
  <2>1. Before(T, t) = {}
    BY <1>6 DEF Before, Stamped
  <2>2. Cardinality(Before(T, t)) = 0
    BY <2>1, FS_EmptySet
  <2> QED
    BY <1>1, <1>5, <2>2 DEF CutAt
<1>7. CASE t # 0
  <2>1. t - 1 \in Nat /\ t - 1 < t /\ t - 1 <= MaxTime
    BY <1>1, <1>5, <1>7
  <2>2. ~(n < Cardinality(Upto(T, t - 1)))
    BY <1>5, <2>1
  <2>3. Upto(T, t - 1) = Before(T, t)
    BY <1>5, <2>1 DEF Upto, Before, Stamped
  <2>4. Cardinality(Before(T, t)) <= n
    BY <1>3, <2>2, <2>3
  <2> QED
    BY <1>1, <1>5, <2>4 DEF CutAt
<1> QED
  BY <1>6, <1>7

\* The records of a store have times.
LEMMA StampedIs ==
  ASSUME NEW d, Sound(d, Storable), NEW T, T = Index(d)
  PROVE  /\ Stamped(T) /\ Cardinality(DOMAIN T) = d.rnum /\ LiveRecs(d) = DOMAIN T
         /\ \A o \in DOMAIN T : TimeAt(d, o) = Stamp(T, o)
<1>1. Clean(d, Storable) /\ LiveRecs(d) = DOMAIN T /\ d.rnum = Cardinality(DOMAIN T)
  BY SoundIs DEF Searchable
<1>2. IsFiniteSet(DOMAIN T)
  <2>1. PICK D, at, sub, loc : Treed(d, Storable, D, at, sub, loc)
    BY DEF Sound
  <2>2. Tree(D, at, sub) /\ Indexed(T, d.bucket, D, at, sub, loc)
    BY <2>1 DEF Treed, Rooted, Indexed
  <2>3. Placed(T, D, loc) /\ IsFiniteSet(D)
    BY <2>2, IndexedAs DEF Tree
  <2>4. PICK S : S = DOMAIN T
    OBVIOUS
  <2>5. /\ loc \in [D -> S]
        /\ \A o \in S : T[o].key \in D /\ loc[T[o].key] = o
    BY <2>3, <2>4 DEF Placed
  <2>6. loc \in Surjection(D, S)
    BY <2>5 DEF Surjection
  <2> QED
    BY <2>3, <2>4, <2>6, FS_Surjection
<1>3. ASSUME NEW o \in DOMAIN T
      PROVE  Stamp(T, o) \in 0 .. MaxTime /\ TimeAt(d, o) = Stamp(T, o)
  <2>1. T[o] = d.seg[o] /\ IsRecord(T[o], Storable)
    BY <1>1, IndexIs
  <2>2. T[o].val \in Storable
    BY <2>1, SegIs DEF IsRecord
  <2>3. T[o].val.time \in 0 .. MaxTime
    BY <2>2 DEF Storable, Value
  <2> QED
    BY <2>1, <2>3 DEF Stamp, TimeAt
<1> QED
  BY <1>1, <1>2, <1>3 DEF Stamped

\* The cut that removeByFIFO makes.
LEMMA CutIs ==
  ASSUME NEW d, Sound(d, Storable), NEW T, T = Index(d), NEW n \in Nat, n < d.rnum,
         NEW a, a = Cut(d, n)
  PROVE  /\ a.db = d /\ CutAt(T, n, a.min)
         /\ a.ties \in Nat /\ a.ties = n - Cardinality(Before(T, a.min))
<1>1. /\ Stamped(T) /\ Cardinality(DOMAIN T) = d.rnum /\ LiveRecs(d) = DOMAIN T
      /\ \A o \in DOMAIN T : TimeAt(d, o) = Stamp(T, o)
  BY StampedIs
<1> DEFINE before(t) == Num({p \in LiveRecs(d) : TimeAt(d, p) < t})
           upto(t) == Num({p \in LiveRecs(d) : TimeAt(d, p) <= t})
           min == CHOOSE t \in 0 .. MaxTime : before(t) <= n /\ n < upto(t)
<1>2. \A t : before(t) = Cardinality(Before(T, t)) /\ upto(t) = Cardinality(Upto(T, t))
  <2>1. \A t : {p \in LiveRecs(d) : TimeAt(d, p) < t} = Before(T, t)
    BY <1>1 DEF Before
  <2>2. \A t : {p \in LiveRecs(d) : TimeAt(d, p) <= t} = Upto(T, t)
    BY <1>1 DEF Upto
  <2> QED
    BY <2>1, <2>2 DEF Num
<1>3. a = [db |-> d, min |-> min, ties |-> n - before(min)]
  BY DEF Cut
<1> HIDE DEF before, upto
<1>4. \E t \in 0 .. MaxTime : before(t) <= n /\ n < upto(t)
  <2>1. PICK t : CutAt(T, n, t)
    BY <1>1, CutExists
  <2> QED
    BY <1>2, <2>1 DEF CutAt
<1>5. min \in 0 .. MaxTime /\ before(min) <= n /\ n < upto(min)
  <2> DEFINE IsMin(t) == t \in 0 .. MaxTime /\ before(t) <= n /\ n < upto(t)
  <2>1. min = CHOOSE t \in 0 .. MaxTime : IsMin(t)
    BY Zenon
  <2> QED
    BY <1>4, Zenon
<1> HIDE DEF min
<1>6. CutAt(T, n, min)
  BY <1>2, <1>5 DEF CutAt
<1>7. Cardinality(Before(T, min)) \in Nat
  <2>1. Before(T, min) \subseteq DOMAIN T
    BY DEF Before
  <2>2. IsFiniteSet(Before(T, min))
    BY <1>1, <2>1, FS_Subset DEF Stamped
  <2> QED
    BY <2>2, FS_CardinalityType
<1>8. n - Cardinality(Before(T, min)) \in Nat
  BY <1>6, <1>7 DEF CutAt
<1> QED
  BY <1>2, <1>3, <1>6, <1>8
\* Those of the records T that were as old as the cut, when D remain.
Tied(T, D, min) == {o \in DOMAIN T \ D : Stamp(T, o) = min}

\* The iteration has come to the records `seen' and left the records D, of the
\* cut's ties `left' are to go: what went is not younger than the cut, what
\* stays not older.
Sifted(T, D, seen, a, left) ==
  /\ left \in Nat /\ D \subseteq DOMAIN T /\ DOMAIN T \ D \subseteq seen
  /\ \A o \in DOMAIN T \ D : Stamp(T, o) <= a.min
  /\ \A o \in D \cap seen : Stamp(T, o) >= a.min /\ (left # 0 => Stamp(T, o) # a.min)
  /\ Cardinality(Tied(T, D, a.min)) + left = a.ties

\* A record stays.
LEMMA SiftStays ==
  ASSUME NEW T, Stamped(T), NEW a, a.min \in Nat, NEW D, NEW seen, NEW left, Sifted(T, D, seen, a, left),
         NEW o \in D, Stamp(T, o) > a.min \/ (Stamp(T, o) = a.min /\ left = 0)
  PROVE  Sifted(T, D, seen \cup {o}, a, left)
<1>1. Stamp(T, o) \in Nat
  BY DEF Stamped, Sifted
<1>2. Stamp(T, o) >= a.min /\ (left # 0 => Stamp(T, o) # a.min)
  BY <1>1
<1> QED
  BY <1>2 DEF Sifted

\* A record goes.
LEMMA SiftGoes ==
  ASSUME NEW T, Stamped(T), NEW a, a.min \in Nat, NEW D, NEW seen, NEW left, Sifted(T, D, seen, a, left),
         NEW o \in D, ~(Stamp(T, o) > a.min \/ (Stamp(T, o) = a.min /\ left = 0))
  PROVE  Sifted(T, D \ {o}, seen \cup {o}, a, left - (IF Stamp(T, o) = a.min THEN 1 ELSE 0))
<1>1. Stamp(T, o) \in Nat /\ o \in DOMAIN T /\ left \in Nat
  BY DEF Stamped, Sifted
<1>2. PICK l, E, X, Y : /\ l = left - (IF Stamp(T, o) = a.min THEN 1 ELSE 0) /\ E = D \ {o}
                        /\ X = Tied(T, D, a.min) /\ Y = Tied(T, E, a.min)
  OBVIOUS
<1>3. Stamp(T, o) <= a.min /\ l \in Nat /\ (l # 0 => left # 0)
  BY <1>1, <1>2
<1>4. DOMAIN T \ E = (DOMAIN T \ D) \cup {o} /\ E \subseteq DOMAIN T
  BY <1>1, <1>2 DEF Sifted
<1>5. Cardinality(Y) + l = a.ties
  <2>1. IsFiniteSet(X) /\ Cardinality(X) \in Nat
    <3>1. X \subseteq DOMAIN T
      BY <1>2 DEF Tied
    <3> QED
      BY <3>1, FS_Subset, FS_CardinalityType DEF Stamped
  <2>2. Cardinality(X) + left = a.ties
    BY <1>2 DEF Sifted
  <2>3. CASE Stamp(T, o) = a.min
    <3>1. Y = X \cup {o} /\ o \notin X
      BY <1>2, <1>4, <2>3 DEF Tied
    <3>2. Cardinality(Y) = Cardinality(X) + 1
      BY <2>1, <3>1, FS_AddElement
    <3> QED
      BY <1>1, <1>2, <2>1, <2>2, <2>3, <3>2
  <2>4. CASE Stamp(T, o) # a.min
    <3>1. Y = X
      BY <1>2, <1>4, <2>4 DEF Tied
    <3> QED
      BY <1>1, <1>2, <2>2, <2>4, <3>1
  <2> QED
    BY <2>3, <2>4
<1>6. \A p \in DOMAIN T \ E : Stamp(T, p) <= a.min
  BY <1>3, <1>4 DEF Sifted
<1>7. ASSUME NEW p \in E \cap (seen \cup {o})
      PROVE  Stamp(T, p) >= a.min /\ (l # 0 => Stamp(T, p) # a.min)
  <2>1. p \in D \cap seen
    BY <1>2
  <2> QED
    BY <1>3, <2>1 DEF Sifted
<1>8. DOMAIN T \ E \subseteq seen \cup {o}
  BY <1>4 DEF Sifted
<1>9. Sifted(T, E, seen \cup {o}, a, l)
  BY <1>2, <1>3, <1>4, <1>5, <1>6, <1>7, <1>8 DEF Sifted
<1> QED
  BY <1>2, <1>9

\* At its end n records have gone, none of them younger than one that stays.
LEMMA SiftEnds ==
  ASSUME NEW T, Stamped(T), NEW n \in Nat, NEW a, CutAt(T, n, a.min),
         a.ties = n - Cardinality(Before(T, a.min)),
         NEW D, NEW left, Sifted(T, D, DOMAIN T, a, left)
  PROVE  /\ \A o \in DOMAIN T \ D, p \in D : Stamp(T, o) <= Stamp(T, p)
         /\ Cardinality(D) = Cardinality(DOMAIN T) - n
<1>1. PICK min, G, B, X : /\ min = a.min /\ G = DOMAIN T \ D /\ B = Before(T, min)
                          /\ X = Tied(T, D, min)
  OBVIOUS
<1>2. /\ left \in Nat /\ D \subseteq DOMAIN T
      /\ \A o \in G : Stamp(T, o) <= min
      /\ \A o \in D : Stamp(T, o) >= min /\ (left # 0 => Stamp(T, o) # min)
  BY <1>1 DEF Sifted
<1>3. min \in Nat /\ \A o \in DOMAIN T : Stamp(T, o) \in Nat
  <2>1. min \in 0 .. MaxTime
    BY <1>1 DEF CutAt
  <2> QED
    BY <2>1 DEF Stamped
<1>4. ASSUME NEW o \in G, NEW p \in D
      PROVE  Stamp(T, o) <= Stamp(T, p)
  <2>1. o \in DOMAIN T /\ p \in DOMAIN T
    BY <1>1, <1>2
  <2> QED
    BY <1>2, <1>3, <2>1
<1>5. IsFiniteSet(DOMAIN T) /\ IsFiniteSet(D) /\ IsFiniteSet(G) /\ IsFiniteSet(B) /\ IsFiniteSet(X)
  <2>1. G \subseteq DOMAIN T /\ B \subseteq DOMAIN T /\ X \subseteq DOMAIN T
    BY <1>1 DEF Before, Tied
  <2> QED
    BY <1>2, <2>1, FS_Subset DEF Stamped
<1>6. /\ Cardinality(DOMAIN T) \in Nat /\ Cardinality(D) \in Nat /\ Cardinality(G) \in Nat
      /\ Cardinality(B) \in Nat /\ Cardinality(X) \in Nat
  BY <1>5, FS_CardinalityType
<1>7. G = B \cup X /\ B \cap X = {}
  <2>1. ASSUME NEW o \in G
        PROVE  o \in B \cup X
    <3>1. o \in DOMAIN T /\ Stamp(T, o) <= min
      BY <1>1, <1>2
    <3>2. Stamp(T, o) < min \/ Stamp(T, o) = min
      BY <1>3, <3>1
    <3> QED
      BY <1>1, <3>1, <3>2 DEF Before, Tied
  <2>2. ASSUME NEW o \in B
        PROVE  o \in G
    <3>1. o \in DOMAIN T /\ Stamp(T, o) < min
      BY <1>1 DEF Before
    <3>2. o \notin D
      BY <1>2, <1>3, <3>1
    <3> QED
      BY <1>1, <3>1, <3>2
  <2>3. X \subseteq G /\ \A o \in X : Stamp(T, o) = min
    BY <1>1 DEF Tied
  <2>4. B \cap X = {}
    <3>1. \A o \in B : o \in DOMAIN T /\ Stamp(T, o) < min
      BY <1>1 DEF Before
    <3> QED
      BY <1>3, <2>3, <3>1
  <2> QED
    BY <2>1, <2>2, <2>3, <2>4
<1>8. Cardinality(G) = Cardinality(B) + Cardinality(X)
  <2>1. Cardinality(G) = Cardinality(B) + Cardinality(X) - Cardinality(B \cap X)
    BY <1>5, <1>7, FS_Union
  <2> QED
    BY <1>6, <1>7, <2>1, FS_EmptySet
<1>9. Cardinality(X) + left = n - Cardinality(B)
  BY <1>1 DEF Sifted
<1>10. left = 0
  <2>1. SUFFICES ASSUME left # 0
                 PROVE  FALSE
    OBVIOUS
  <2>2. \A o \in D : ~(Stamp(T, o) <= min)
    BY <1>2, <1>3, <2>1
  <2>3. Upto(T, min) = G
    BY <1>1, <1>2, <2>2 DEF Upto
  <2>4. n < Cardinality(G)
    BY <1>1, <2>3 DEF CutAt
  <2> QED
    BY <1>2, <1>6, <1>8, <1>9, <2>1, <2>4
<1>11. Cardinality(G) = n
  BY <1>6, <1>8, <1>9, <1>10
<1>12. Cardinality(D) = Cardinality(DOMAIN T) - n
  <2>1. DOMAIN T = D \cup G /\ D \cap G = {}
    BY <1>1, <1>2
  <2>2. Cardinality(DOMAIN T) = Cardinality(D) + Cardinality(G) - Cardinality(D \cap G)
    BY <1>5, <2>1, FS_Union
  <2> QED
    BY <1>6, <1>11, <2>1, <2>2, FS_EmptySet
<1> QED
  BY <1>1, <1>4, <1>12

\* Some of the records of a table, whose children do not matter.
SomeOf(T, U) ==
  /\ DOMAIN U \subseteq DOMAIN T
  /\ \A o \in DOMAIN U : U[o].key = T[o].key /\ U[o].val = T[o].val

\* What the iteration has made of the records T when it has come to `seen'.
Come(T, a, seen, x) ==
  /\ Sound(x.db, Storable) /\ x.min = a.min /\ SomeOf(T, Index(x.db))
  /\ Sifted(T, DOMAIN Index(x.db), seen, a, x.ties)

\* It comes to one more.
LEMMA ComeOn ==
  ASSUME NEW T, Stamped(T), NEW a, a.min \in Nat, NEW seen, NEW x, Come(T, a, seen, x),
         NEW o \in DOMAIN T \ seen, NEW e, e = DropOld(x, o)
  PROVE  Come(T, a, seen \cup {o}, e)
<1>1. PICK U, D, t, left : U = Index(x.db) /\ D = DOMAIN U /\ t = U[o].val.time /\ left = x.ties
  OBVIOUS
<1>2. /\ Sound(x.db, Storable) /\ x.min = a.min /\ SomeOf(T, U) /\ Sifted(T, D, seen, a, left)
  BY <1>1 DEF Come
<1>3. o \in D /\ t = Stamp(T, o)
  <2>1. o \in D
    BY <1>2 DEF Sifted
  <2> QED
    BY <1>1, <1>2, <2>1 DEF SomeOf, Stamp
<1>4. Sound(e.db, Storable) /\ StaysOrGoes(x, U, o, t, e)
  BY <1>1, <1>2, <1>3, DropOldIs
<1>5. CASE Stays(x, t)
  <2>1. Stamp(T, o) > a.min \/ (Stamp(T, o) = a.min /\ left = 0)
    BY <1>1, <1>2, <1>3, <1>5 DEF Stays
  <2>2. Sifted(T, D, seen \cup {o}, a, left)
    BY <1>2, <1>3, <2>1, SiftStays
  <2> QED
    BY <1>1, <1>2, <1>4, <1>5, <2>2 DEF Come, StaysOrGoes
<1>6. CASE ~Stays(x, t)
  <2>1. ~(Stamp(T, o) > a.min \/ (Stamp(T, o) = a.min /\ left = 0))
    BY <1>1, <1>2, <1>3, <1>6 DEF Stays
  <2>2. Sifted(T, D \ {o}, seen \cup {o}, a, left - (IF Stamp(T, o) = a.min THEN 1 ELSE 0))
    BY <1>2, <1>3, <2>1, SiftGoes
  <2>3. PICK W : W = Index(e.db)
    OBVIOUS
  <2>4. DOMAIN W = D \ {o} /\ SomeOf(T, W)
    <3>1. SameButChildren(Without(U, o), W)
      BY <1>4, <1>6, <2>3 DEF StaysOrGoes
    <3>2. DOMAIN W = D \ {o} /\ \A p \in DOMAIN W : W[p].key = U[p].key /\ W[p].val = U[p].val
      BY <1>1, <3>1 DEF SameButChildren, Without
    <3> QED
      BY <1>1, <1>2, <3>2 DEF SomeOf
  <2>5. e.min = a.min /\ e.ties = left - (IF Stamp(T, o) = a.min THEN 1 ELSE 0)
    BY <1>1, <1>2, <1>3, <1>4, <1>6 DEF StaysOrGoes, Counted
  <2> QED
    BY <1>4, <2>2, <2>3, <2>4, <2>5 DEF Come
<1> QED
  BY <1>5, <1>6

\* It comes to all of them.
LEMMA ComesToAll ==
  ASSUME NEW d, Sound(d, Storable), NEW T, T = Index(d), NEW s, ListsRecords(d, s), NEW n, n = Len(s),
         NEW a, a.db = d, a.min \in Nat, a.ties \in Nat, NEW f, DropsInTurn(s, a, n, f)
  PROVE  Come(T, a, DOMAIN T, f[n])
<1>1. /\ n \in Nat /\ \A i \in 1 .. n : s[i] \in DOMAIN T
      /\ \A o \in DOMAIN T : \E i \in 1 .. n : s[i] = o
      /\ \A i, j \in 1 .. n : i # j => s[i] # s[j]
  BY DEF ListsRecords
<1>2. Stamped(T)
  BY StampedIs
<1> DEFINE Seen(i) == {s[j] : j \in 1 .. i}
<1> DEFINE P == {i \in 0 .. n : Come(T, a, Seen(i), f[i])}
<1>3. 0 \in P
  <2>1. f[0] = a
    BY DEF DropsInTurn
  <2>2. Seen(0) = {}
    OBVIOUS
  <2>3. Sifted(T, DOMAIN T, {}, a, a.ties)
    <3>1. Tied(T, DOMAIN T, a.min) = {}
      BY DEF Tied
    <3>2. Cardinality(Tied(T, DOMAIN T, a.min)) = 0
      BY <3>1, FS_EmptySet
    <3>3. Cardinality(Tied(T, DOMAIN T, a.min)) + a.ties = a.ties
      BY <3>2
    <3> QED
      BY <3>3 DEF Sifted
  <2>4. SomeOf(T, T)
    BY DEF SomeOf
  <2>5. Come(T, a, {}, a)
    BY <2>3, <2>4 DEF Come
  <2> QED
    BY <1>1, <2>1, <2>2, <2>5
<1>4. ASSUME NEW i \in 1 .. n, i - 1 \in P
      PROVE  i \in P
  <2>1. PICK x, o, e, seen : x = f[i - 1] /\ o = s[i] /\ e = f[i] /\ seen = Seen(i - 1)
    OBVIOUS
  <2>2. Come(T, a, seen, x)
    BY <1>4, <2>1
  <2>3. o \in DOMAIN T \ seen
    <3>1. \A j \in 1 .. i - 1 : j \in 1 .. n /\ j # i
      BY <1>1
    <3> QED
      BY <1>1, <2>1, <3>1
  <2>4. e = DropOld(x, o)
    BY <2>1 DEF DropsInTurn
  <2>5. Come(T, a, seen \cup {o}, e)
    BY <1>2, <2>2, <2>3, <2>4, ComeOn
  <2>6. Seen(i) = seen \cup {o}
    <3>1. \A j \in 1 .. i : j \in 1 .. i - 1 \/ j = i
      OBVIOUS
    <3>2. i \in 1 .. i /\ \A j \in 1 .. i - 1 : j \in 1 .. i
      OBVIOUS
    <3> QED
      BY <2>1, <3>1, <3>2
  <2>7. Come(T, a, Seen(i), f[i]) /\ i \in 0 .. n
    <3> HIDE DEF Seen
    <3> QED
      BY <1>1, <2>1, <2>5, <2>6
  <2> HIDE DEF Seen
  <2> QED
    BY <2>7
<1>5. Come(T, a, Seen(n), f[n])
  <2>1. \A i \in 0 .. n : i \in P
    <3> HIDE DEF P
    <3> QED
      BY <1>1, <1>3, <1>4, Reached
  <2>2. n \in P
    <3>1. n \in 0 .. n
      BY <1>1
    <3> HIDE DEF P
    <3> QED
      BY <2>1, <3>1
  <2> HIDE DEF Seen
  <2> QED
    BY <2>2
<1>6. Seen(n) = DOMAIN T
  <2>1. Seen(n) \subseteq DOMAIN T
    BY <1>1
  <2>2. \A o \in DOMAIN T : o \in Seen(n)
    BY <1>1
  <2> QED
    BY <2>1, <2>2
<1> QED
  <2> HIDE DEF Seen
  <2> QED
    BY <1>5, <1>6

\* e holds some of what d held, and nothing that it held longer than what has
\* gone.
Younger(d, e) ==
  /\ Sound(e, Storable) /\ Contents(e) \subseteq Contents(d)
  /\ \A p \in Contents(d) \ Contents(e), q \in Contents(e) : p[2].time <= q[2].time

\* So it is with itself,
LEMMA YoungerSelf ==
  ASSUME NEW d, Sound(d, Storable)
  PROVE  Younger(d, d)
BY DEF Younger

\* ... and in turn.
LEMMA YoungerTrans ==
  ASSUME NEW d, NEW e, Younger(d, e), NEW f, Younger(e, f)
  PROVE  Younger(d, f)
BY DEF Younger

\* What holds the same has as many records.
LEMMA SameCount ==
  ASSUME NEW d, Sound(d, Storable), NEW e, Sound(e, Storable), Contents(e) = Contents(d)
  PROVE  e.rnum = d.rnum
<1>1. \A k \in Keys : Has(d, k) <=> \E p \in Contents(d) : p[1] = k
  BY HoldsIs
<1>2. \A k \in Keys : Has(e, k) <=> \E p \in Contents(e) : p[1] = k
  BY HoldsIs
<1>3. KeysOf(e) = KeysOf(d)
  BY <1>1, <1>2 DEF KeysOf
<1> QED
  BY <1>3, KeysOfIs

\* An eviction of n records takes the n oldest.
LEMMA EvictsThem ==
  ASSUME NEW d, Sound(d, Storable), NEW n \in Nat, n = 0 \/ n < d.rnum, NEW e, e = Evicted(d, n)
  PROVE  Younger(d, e) /\ e.rnum = d.rnum - n
<1>1. PICK s, m, a, f : /\ s = RecOffsets(d) /\ m = Len(s) /\ a = Cut(d, n) /\ m \in Nat
                        /\ ListsRecords(d, s) /\ DropsInTurn(s, a, m, f)
                        /\ Evicted(d, n) = Optimize(IF n = 0 THEN d ELSE f[m].db)
  BY EvictionTurns
<1>2. PICK c : c = IF n = 0 THEN d ELSE f[m].db
  OBVIOUS
<1>3. Younger(d, c) /\ c.rnum = d.rnum - n
  <2>1. CASE n = 0
    <3>1. d.rnum \in Nat
      BY KeysOfIs, FS_CardinalityType
    <3> QED
      BY <1>2, <2>1, <3>1, YoungerSelf
  <2>2. CASE n # 0
    <3>1. PICK T, U : T = Index(d) /\ U = Index(c)
      OBVIOUS
    <3>2. /\ a.db = d /\ CutAt(T, n, a.min)
          /\ a.ties \in Nat /\ a.ties = n - Cardinality(Before(T, a.min))
      BY <1>1, <2>2, <3>1, CutIs
    <3>3. a.min \in Nat
      BY <3>2 DEF CutAt
    <3>4. Come(T, a, DOMAIN T, f[m])
      BY <1>1, <3>1, <3>2, <3>3, ComesToAll
    <3>5. PICK left : left = f[m].ties
      OBVIOUS
    <3>6. Sound(c, Storable) /\ SomeOf(T, U) /\ Sifted(T, DOMAIN U, DOMAIN T, a, left)
      BY <1>2, <2>2, <3>1, <3>4, <3>5 DEF Come
    <3>7. Stamped(T) /\ Cardinality(DOMAIN T) = d.rnum /\ Cardinality(DOMAIN U) = c.rnum
      BY <3>1, <3>6, StampedIs
    <3>8. PICK D : D = DOMAIN U
      OBVIOUS
    <3>9. /\ \A o \in DOMAIN T \ D, p \in D : Stamp(T, o) <= Stamp(T, p)
          /\ Cardinality(D) = Cardinality(DOMAIN T) - n
      BY <3>2, <3>6, <3>7, <3>8, SiftEnds
    <3>10. \A o \in DOMAIN U : o \in DOMAIN T /\ <<U[o].key, U[o].val>> = <<T[o].key, T[o].val>>
      BY <3>6 DEF SomeOf
    <3>11. Contents(c) = Pairs(U) /\ Contents(d) = Pairs(T)
      BY <3>1 DEF Contents
    <3>12. Pairs(U) \subseteq Pairs(T)
      BY <3>10 DEF Pairs
    <3>13. ASSUME NEW p \in Pairs(T) \ Pairs(U), NEW q \in Pairs(U)
           PROVE  p[2].time <= q[2].time
      <4>1. PICK o \in DOMAIN T : p = <<T[o].key, T[o].val>>
        BY DEF Pairs
      <4>2. PICK r \in DOMAIN U : q = <<U[r].key, U[r].val>>
        BY DEF Pairs
      <4>3. o \notin DOMAIN U
        <5>1. SUFFICES ASSUME o \in DOMAIN U
                       PROVE  p \in Pairs(U)
          OBVIOUS
        <5> QED
          BY <3>10, <4>1, <5>1 DEF Pairs
      <4>4. Stamp(T, o) <= Stamp(T, r)
        BY <3>8, <3>9, <4>3
      <4>5. p[2].time = Stamp(T, o) /\ q[2].time = Stamp(T, r)
        BY <3>10, <4>1, <4>2 DEF Stamp
      <4> QED
        BY <4>4, <4>5
    <3> QED
      BY <3>6, <3>7, <3>8, <3>9, <3>11, <3>12, <3>13 DEF Younger
  <2> QED
    BY <2>1, <2>2
<1>4. Sound(c, Storable)
  BY <1>3 DEF Younger
<1>5. PICK o : o = Optimize(c)
  OBVIOUS
<1>6. Sound(o, Storable) /\ Contents(o) = Contents(c)
  BY <1>4, <1>5, StorableSized, OptimizeIs, OptimizeHolds
<1>7. o.rnum = c.rnum /\ e = o
  BY <1>1, <1>2, <1>4, <1>5, <1>6, SameCount
<1>8. Younger(d, o)
  BY <1>3, <1>6 DEF Younger
<1> QED
  BY <1>3, <1>7, <1>8
---------------------------------------------------------------------------
(* How many records an eviction takes *)

\* A product grows with its factors, and a quotient is less than what it is of.
LEMMA PartLess ==
  ASSUME NEW n \in Nat \ {0}, NEW a \in Nat, NEW b \in Nat, a < b
  PROVE  (n * a) \div b \in Nat /\ (n * a) \div b < n
<1>1. PICK c \in Nat \ {0} : b = a + c
  <2>1. b - a \in Nat \ {0} /\ b = a + (b - a)
    OBVIOUS
  <2> QED
    BY <2>1
<1>2. PICK x, y : x = n * a /\ y = n * b
  OBVIOUS
<1>3. x \in Nat /\ y \in Nat /\ x < y
  <2>1. y = x + n * c
    BY <1>1, <1>2
  <2>2. n * c \in Nat /\ n * c > 0
    BY <1>1
  <2>3. x \in Nat
    BY <1>2
  <2> QED
    BY <2>1, <2>2, <2>3
<1>4. PICK q : q = x \div b
  OBVIOUS
<1>5. q \in Nat /\ b * q <= x
  BY <1>1, <1>3, <1>4
<1>6. q < n
  <2>1. SUFFICES ASSUME ~(q < n)
                 PROVE  FALSE
    OBVIOUS
  <2>2. PICK e \in Nat : q = n + e
    <3>1. q - n \in Nat /\ q = n + (q - n)
      BY <1>5, <2>1
    <3> QED
      BY <3>1
  <2>3. b * q = y + b * e /\ b * e \in Nat
    BY <1>1, <1>2, <2>2
  <2> QED
    BY <1>3, <1>5, <2>3
<1> QED
  BY <1>2, <1>4, <1>5, <1>6

\* The share of a file's records that goes is not all of them.
LEMMA ShareLess ==
  ASSUME NEW n \in Nat
  PROVE  Share(n) \in Nat /\ (Share(n) = 0 \/ Share(n) < n)
<1>1. RateNum \in Nat /\ RateDen \in Nat /\ RateNum < RateDen
  BY StoreAssumption
<1>2. CASE n = 0
  <2>1. n * RateNum = 0
    BY <1>1, <1>2
  <2>2. 0 \div RateDen = 0
    BY <1>1
  <2> QED
    BY <2>1, <2>2 DEF Share
<1>3. CASE n # 0
  BY <1>1, <1>3, PartLess DEF Share
<1> QED
  BY <1>2, <1>3

\* What is no younger is counted.
LEMMA YoungerCounts ==
  ASSUME NEW d, Sound(d, Storable)
  PROVE  d.rnum \in Nat
BY KeysOfIs, FS_CardinalityType

\* The keys that are gone are at most those whose records went.
LEMMA GoneCounted ==
  ASSUME NEW d, Sound(d, Storable), NEW c, Younger(d, c), NEW G, G \subseteq KeysOf(d) \ KeysOf(c)
  PROVE  Cardinality(G) \in Nat /\ Cardinality(G) <= d.rnum - c.rnum
<1>1. Sound(c, Storable) /\ Contents(c) \subseteq Contents(d)
  BY DEF Younger
<1>2. PICK A, B : A = KeysOf(d) /\ B = KeysOf(c)
  OBVIOUS
<1>3. /\ IsFiniteSet(A) /\ IsFiniteSet(B)
      /\ d.rnum = Cardinality(A) /\ c.rnum = Cardinality(B)
  BY <1>1, <1>2, KeysOfIs
<1>4. B \subseteq A
  <2>1. \A k \in Keys : Has(d, k) <=> \E p \in Contents(d) : p[1] = k
    BY HoldsIs
  <2>2. \A k \in Keys : Has(c, k) <=> \E p \in Contents(c) : p[1] = k
    BY <1>1, HoldsIs
  <2> QED
    BY <1>1, <1>2, <2>1, <2>2 DEF KeysOf
<1>5. Cardinality(A \ B) = Cardinality(A) - Cardinality(B) /\ IsFiniteSet(A \ B)
  <2>1. IsFiniteSet(A \ B) /\ Cardinality(A \ B) = Cardinality(A) - Cardinality(A \cap B)
    BY <1>3, FS_Difference
  <2>2. A \cap B = B
    BY <1>4
  <2> QED
    BY <2>1, <2>2
<1>6. Cardinality(G) <= Cardinality(A \ B) /\ IsFiniteSet(G)
  BY <1>2, <1>5, FS_Subset
<1> QED
  BY <1>3, <1>5, <1>6, FS_CardinalityType

\* What a call makes of c when it stores v under k, or fails.
Stored(c, k, v, ok, g) ==
  /\ Sound(g, Storable)
  /\ IF ok THEN Contents(g) = With(Contents(c), k, v) ELSE Contents(g) = Contents(c)

\* A key is gone only if its record went before,
LEMMA GoneBefore ==
  ASSUME NEW c, Sound(c, Storable), NEW k \in Keys, NEW v, NEW ok, NEW g, Stored(c, k, v, ok, g),
         NEW x \in Keys, ~Has(g, x)
  PROVE  ~Has(c, x)
<1>1. Has(c, x) <=> \E p \in Contents(c) : p[1] = x
  BY HoldsIs
<1>2. Has(g, x) <=> \E p \in Contents(g) : p[1] = x
  BY HoldsIs DEF Stored
<1>3. SUFFICES ASSUME NEW p \in Contents(c), p[1] = x
               PROVE  \E q \in Contents(g) : q[1] = x
  BY <1>1, <1>2
<1>4. CASE Contents(g) = Contents(c)
  BY <1>3, <1>4
<1>5. CASE Contents(g) = With(Contents(c), k, v) /\ x = k
  <2>1. <<k, v>> \in Contents(g) /\ <<k, v>>[1] = x
    BY <1>5 DEF With
  <2> QED
    BY <2>1
<1>6. CASE Contents(g) = With(Contents(c), k, v) /\ x # k
  BY <1>3, <1>6 DEF With, Besides
<1> QED
  BY <1>4, <1>5, <1>6 DEF Stored

\* ... and is then no younger than one that is kept.
LEMMA GoneOlder ==
  ASSUME NEW d, Sound(d, Storable), NEW c, Younger(d, c), NEW k \in Keys, NEW v, NEW ok,
         NEW g, Stored(c, k, v, ok, g),
         NEW x \in Keys, Has(d, x), ~Has(g, x), NEW l \in Keys, Has(d, l), Has(g, l),
         l # k \/ ~ok
  PROVE  TimeOf(d, x) <= TimeOf(d, l)
<1>1. PICK p, q : p = <<x, d.seg[Find(d, x).off].val>> /\ q = <<l, d.seg[Find(d, l).off].val>>
  OBVIOUS
<1>2. Sound(c, Storable) /\ Contents(c) \subseteq Contents(d)
  BY DEF Younger
<1>3. p \in Contents(d) /\ q \in Contents(d)
  BY <1>1, HoldsIs
<1>4. p \notin Contents(c)
  <2>1. ~Has(c, x)
    BY <1>2, GoneBefore
  <2>2. Has(c, x) <=> \E r \in Contents(c) : r[1] = x
    BY <1>2, HoldsIs
  <2> QED
    BY <1>1, <2>1, <2>2
<1>5. q \in Contents(c)
  <2>1. PICK r \in Contents(g) : r[1] = l
    BY HoldsIs DEF Stored
  <2>2. r \in Contents(c)
    BY <2>1 DEF Stored, With, Besides
  <2>3. r \in Contents(d) /\ r[1] = q[1]
    BY <1>1, <1>2, <2>1, <2>2
  <2>4. r = q
    BY <1>3, <2>3, HoldsIs
  <2> QED
    BY <2>2, <2>4
<1>6. p[2].time <= q[2].time
  BY <1>3, <1>4, <1>5 DEF Younger
<1> QED
  BY <1>1, <1>6 DEF TimeOf
---------------------------------------------------------------------------
(* First in, first out *)

\* An eviction, perhaps.
LEMMA PerhapsYounger ==
  ASSUME NEW d, Sound(d, Storable), NEW n \in Nat, n = 0 \/ n < d.rnum, NEW e,
         e = d \/ e = Evicted(d, n)
  PROVE  Younger(d, e)
<1>1. CASE e = d
  BY <1>1, YoungerSelf
<1>2. CASE e = Evicted(d, n)
  BY <1>2, EvictsThem
<1> QED
  BY <1>1, <1>2

\* e is what d is after an insert has evicted its share, or nothing.
Shared(d, e) == Younger(d, e) /\ (e.rnum = d.rnum \/ e.rnum = d.rnum - Share(d.rnum))

\* mStore::insert evicts a share, or nothing, and then stores or fails.
Attempted(d, e, k, v, r) ==
  /\ Shared(d, e) /\ r.ok \in BOOLEAN /\ Stored(e, k, v, r.ok, r.db)
  /\ ~r.ok => r.db = e

LEMMA AttemptEvicts ==
  ASSUME NEW d, Sound(d, Storable), NEW k \in Keys, NEW v, Given(v), NEW isreplace,
         NEW r, r = Attempt(d, k, v, isreplace)
  PROVE  \E e : Attempted(d, e, k, v, r)
<1>1. PICK n : n = Share(d.rnum)
  OBVIOUS
<1>2. n \in Nat /\ (n = 0 \/ n < d.rnum)
  BY <1>1, YoungerCounts, ShareLess
<1>3. PICK e : e = IF OverQuota(d, v) THEN Evicted(d, n) ELSE d
  OBVIOUS
<1>4. Shared(d, e)
  <2>1. CASE e = d
    BY <2>1, YoungerSelf DEF Shared
  <2>2. CASE e = Evicted(d, n)
    BY <1>1, <1>2, <2>2, EvictsThem DEF Shared
  <2> QED
    BY <1>3, <2>1, <2>2
<1>5. Sound(e, Storable)
  BY <1>4 DEF Shared, Younger
<1>6. PICK g : g = Store(e, k, v, isreplace)
  OBVIOUS
<1>7. r = IF OverQuota(e, v) THEN [ok |-> FALSE, db |-> e] ELSE g
  BY <1>1, <1>3, <1>6, Zenon DEF Attempt, StoreOrRefuse
<1>8. \/ r = [ok |-> FALSE, db |-> e]
      \/ r = [ok |-> TRUE, db |-> PutRec(e, Find(e, k), k, v)] /\ v \in Storable
  <2>1. g = IF v.len = 0 \/ (~isreplace /\ Has(e, k)) THEN [ok |-> FALSE, db |-> e]
            ELSE [ok |-> TRUE, db |-> PutRec(e, Find(e, k), k, v)]
    BY <1>6 DEF Store
  <2>2. v.len = 0 \/ v \in Storable
    BY DEF Given
  <2> QED
    BY <1>7, <2>1, <2>2, Zenon
<1>9. CASE r = [ok |-> FALSE, db |-> e]
  <2>1. r.ok = FALSE /\ r.db = e
    BY <1>9
  <2>2. Stored(e, k, v, r.ok, r.db)
    BY <1>5, <2>1 DEF Stored
  <2> QED
    BY <1>4, <2>1, <2>2 DEF Attempted
<1>10. CASE r = [ok |-> TRUE, db |-> PutRec(e, Find(e, k), k, v)] /\ v \in Storable
  <2>1. PICK h : h = PutRec(e, Find(e, k), k, v)
    OBVIOUS
  <2>2. Sound(h, Storable) /\ Contents(h) = With(Contents(e), k, v)
    BY <1>5, <1>10, <2>1, StorableSized, PutIs
  <2>3. r.ok = TRUE /\ r.db = h
    BY <1>10, <2>1
  <2>4. Stored(e, k, v, r.ok, r.db)
    BY <2>2, <2>3 DEF Stored
  <2> QED
    BY <1>4, <2>3, <2>4 DEF Attempted
<1> QED
  BY <1>8, <1>9, <1>10

\* The records that two evictions of a share take.
TwoShares(n) == Share(n) + Share(n - Share(n))

\* No more go in two.
LEMMA TwoAtMost ==
  ASSUME NEW d, Sound(d, Storable), NEW e, Shared(d, e), NEW c, Shared(e, c)
  PROVE  /\ d.rnum - e.rnum <= TwoShares(d.rnum) /\ d.rnum - c.rnum <= TwoShares(d.rnum)
         /\ Younger(d, c)
<1>1. Sound(e, Storable) /\ Sound(c, Storable) /\ Younger(d, c)
  BY YoungerTrans DEF Shared, Younger
<1>2. PICK n, m, l : n = d.rnum /\ m = e.rnum /\ l = c.rnum
  OBVIOUS
<1>3. n \in Nat /\ m \in Nat /\ l \in Nat
  BY <1>1, <1>2, YoungerCounts
<1>4. (m = n \/ m = n - Share(n)) /\ (l = m \/ l = m - Share(m))
  BY <1>2 DEF Shared
<1>5. Share(n) \in Nat /\ Share(m) \in Nat
  BY <1>3, ShareLess
<1>6. n - Share(n) \in Nat
  BY <1>3, ShareLess
<1>7. Share(n - Share(n)) \in Nat
  BY <1>6, ShareLess
<1>8. n - m <= TwoShares(n)
  BY <1>3, <1>4, <1>5, <1>7 DEF TwoShares
<1>9. n - l <= TwoShares(n)
  <2>1. CASE m = n
    BY <1>3, <1>4, <1>5, <1>7, <2>1 DEF TwoShares
  <2>2. CASE m = n - Share(n)
    <3>1. Share(m) = Share(n - Share(n))
      BY <2>2
    <3> QED
      BY <1>3, <1>4, <1>5, <1>7, <2>2, <3>1 DEF TwoShares
  <2> QED
    BY <1>4, <2>1, <2>2
<1> QED
  BY <1>1, <1>2, <1>8, <1>9

\* What the two attempts of an insert come to.
Inserted(d, k, v, ok, g) ==
  \E c : Younger(d, c) /\ d.rnum - c.rnum <= TwoShares(d.rnum) /\ Stored(c, k, v, ok, g)

LEMMA InsertEvicts ==
  ASSUME StoreInv, NEW k \in Keys, NEW v, Given(v), NEW isreplace, Insert(k, v, isreplace)
  PROVE  /\ \E d, g, ok : d = db /\ g = db' /\ ok = did'.ok /\ ok \in BOOLEAN /\ Inserted(d, k, v, ok, g)
         /\ did'.op = "insert" /\ did'.key = k
<1>1. PICK d : d = db
  OBVIOUS
<1>2. PICK r : r = Attempt(d, k, v, isreplace)
  OBVIOUS
<1>3. PICK s : /\ s = IF r.ok THEN r ELSE Attempt(r.db, k, v, isreplace)
               /\ db' = s.db /\ did' = [op |-> "insert", ok |-> s.ok, key |-> k]
  BY <1>1, <1>2 DEF Insert
<1>4. Sound(d, Storable)
  BY <1>1 DEF StoreInv
<1>5. PICK e : Attempted(d, e, k, v, r)
  BY <1>2, <1>4, AttemptEvicts
<1>6. Shared(d, e) /\ Sound(e, Storable)
  BY <1>5 DEF Attempted, Shared, Younger
<1>7. PICK g : g = s.db
  OBVIOUS
<1>8. Inserted(d, k, v, s.ok, g) /\ s.ok \in BOOLEAN
  <2>1. CASE r.ok
    <3>1. g = r.db /\ s = r /\ Shared(e, e)
      BY <1>3, <1>6, <1>7, <2>1, YoungerSelf DEF Shared
    <3>2. d.rnum - e.rnum <= TwoShares(d.rnum)
      BY <1>4, <1>6, <3>1, TwoAtMost
    <3> QED
      BY <1>5, <3>1, <3>2 DEF Inserted, Attempted, Shared
  <2>2. CASE ~r.ok
    <3>1. s = Attempt(e, k, v, isreplace)
      BY <1>3, <1>5, <2>2 DEF Attempted
    <3>2. PICK c : Attempted(e, c, k, v, s)
      BY <1>6, <3>1, AttemptEvicts
    <3>3. Shared(e, c) /\ Stored(c, k, v, s.ok, g) /\ s.ok \in BOOLEAN
      BY <1>7, <3>2 DEF Attempted
    <3>4. Younger(d, c) /\ d.rnum - c.rnum <= TwoShares(d.rnum)
      BY <1>4, <1>6, <3>3, TwoAtMost
    <3> QED
      BY <3>3, <3>4 DEF Inserted
  <2> QED
    BY <2>1, <2>2
<1>9. did'.op = "insert" /\ did'.key = k /\ did'.ok = s.ok
  BY <1>3
<1>10. d = db /\ g = db'
  BY <1>1, <1>3, <1>7
<1> QED
  BY <1>8, <1>9, <1>10

\* A turn of the loop of reMaxSize evicts the oldest.
LEMMA TurnEvicts ==
  ASSUME NEW d, NEW s, Younger(d, s.db), NEW m \in Nat \ {0}, NEW cur \in Nat, m < cur, NEW turn,
         NEW t, t = Turn(s, m, cur, turn)
  PROVE  Younger(d, t.db)
<1>1. PICK n, c : n = (c.rnum * (cur - m)) \div cur /\ c = s.db
  OBVIOUS
<1>2. Sound(c, Storable)
  BY <1>1 DEF Younger
<1>3. n \in Nat /\ (n = 0 \/ n < c.rnum)
  <2>1. c.rnum \in Nat /\ cur - m \in Nat /\ cur - m < cur
    BY <1>2, YoungerCounts
  <2>2. CASE c.rnum = 0
    <3>1. c.rnum * (cur - m) = 0 /\ 0 \div cur = 0
      BY <2>1, <2>2
    <3> QED
      BY <1>1, <3>1
  <2>3. CASE c.rnum # 0
    BY <1>1, <2>1, <2>3, PartLess
  <2> QED
    BY <2>2, <2>3
<1>4. PICK e : e = IF n = 0 THEN c ELSE Evicted(c, n)
  OBVIOUS
<1>5. Younger(c, e)
  BY <1>2, <1>3, <1>4, PerhapsYounger
<1>6. t = IF s.res # "more" THEN s
          ELSE IF s.db.fsiz <= m THEN [s EXCEPT !.res = "ok"] ELSE Judged(e, turn)
  BY <1>1, <1>4, Zenon DEF Turn
<1>7. [s EXCEPT !.res = "ok"].db = s.db
  OBVIOUS
<1>8. Judged(e, turn).db = e
  BY DEF Judged
<1>9. t.db = c \/ t.db = e
  BY <1>1, <1>6, <1>7, <1>8
<1>10. Younger(d, e)
  BY <1>1, <1>5, YoungerTrans
<1> QED
  BY <1>1, <1>9, <1>10

\* So does reMaxSize.
LEMMA ResizedEvicts ==
  ASSUME NEW d, Sound(d, Storable), NEW old, NEW m \in Nat
  PROVE  Younger(d, Resized(d, old, m).db)
<1>1. CASE m < MinLen
  <2>1. Resized(d, old, m).db = d
    BY <1>1 DEF Resized
  <2> QED
    BY <2>1, YoungerSelf
<1>2. CASE ~(m < MinLen) /\ (m >= old \/ m >= d.fsiz)
  <2>1. Resized(d, old, m).db = d
    BY <1>2 DEF Resized
  <2> QED
    BY <2>1, YoungerSelf
<1>3. CASE ~(m < MinLen) /\ ~(m >= old \/ m >= d.fsiz)
  <2>1. PICK cur : cur = d.fsiz
    OBVIOUS
  <2>2. cur \in Nat /\ m \in Nat \ {0} /\ m < cur
    <3>1. Clean(d, Storable)
      BY SoundIs
    <3>2. cur \in Nat
      BY <2>1, <3>1, IndexIs
    <3>3. MinLen \in Nat \ {0}
      BY StoreAssumption
    <3> QED
      BY <1>3, <2>1, <3>2, <3>3
  <2>3. PICK s0, s1, s2, s3, s4 : Turns(d, m, s0, s1, s2, s3, s4)
    BY DEF Turns
  <2>4. Younger(d, s0.db)
    BY <2>3, YoungerSelf DEF Turns
  <2>5. Younger(d, s1.db)
    BY <2>1, <2>2, <2>3, <2>4, TurnEvicts DEF Turns
  <2>6. Younger(d, s2.db)
    BY <2>1, <2>2, <2>3, <2>5, TurnEvicts DEF Turns
  <2>7. Younger(d, s3.db)
    BY <2>1, <2>2, <2>3, <2>6, TurnEvicts DEF Turns
  <2>8. Younger(d, s4.db)
    BY <2>1, <2>2, <2>3, <2>7, TurnEvicts DEF Turns
  <2>9. Shrunken(d, m) = s4
    BY <2>3, ShrunkenTurns
  <2>10. Resized(d, old, m).db = s4.db
    BY <1>3, <2>9 DEF Resized, Settled
  <2> QED
    BY <2>8, <2>10
<1> QED
  BY <1>1, <1>2, <1>3

\* ... and open.
LEMMA OpenEvicts ==
  ASSUME StoreInv, NEW m \in Sizes, Open(m)
  PROVE  Younger(db, db')
<1>1. PICK e, old, marked : e = db /\ old = saved /\ marked = (status = "dead")
  OBVIOUS
<1>2. PICK d : d = Opened(e, marked)
  OBVIOUS
<1>3. PICK r : /\ r = Reopened(d, old, m)
               /\ db' \in {r.db} \cup (IF status = "dead" /\ r.ok THEN {Optimize(r.db)} ELSE {})
  BY <1>1, <1>2 DEF Open, Reopened
<1>4. Sound(e, Storable) /\ marked \in BOOLEAN /\ m \in Nat
  BY <1>1, StoreAssumption DEF StoreInv
<1>5. Younger(e, d)
  <2>1. Sound(d, Storable)
    BY <1>2, <1>4, ClosedIs
  <2>2. IsDB(e)
    BY <1>4, SoundIs DEF Clean, Kept
  <2>3. Contents(d) = Contents(e)
    BY <1>2, <2>2, OpenedEnds DEF SameFile
  <2> QED
    BY <2>1, <2>3 DEF Younger
<1>6. Sound(d, Storable)
  BY <1>5 DEF Younger
<1>7. PICK x, y : x = r.db /\ y = db'
  OBVIOUS
<1>8. Younger(d, x)
  <2>1. CASE m = old
    <3>1. x = d
      BY <1>3, <1>7, <2>1 DEF Reopened
    <3> QED
      BY <1>6, <3>1, YoungerSelf
  <2>2. CASE m # old
    BY <1>3, <1>4, <1>6, <1>7, <2>2, ResizedEvicts DEF Reopened
  <2> QED
    BY <2>1, <2>2
<1>9. Younger(x, y)
  <2>1. Sound(x, Storable)
    BY <1>8 DEF Younger
  <2>2. y = x \/ y = Optimize(x)
    BY <1>3, <1>7
  <2>3. Sound(Optimize(x), Storable) /\ Contents(Optimize(x)) = Contents(x)
    BY <2>1, StorableSized, OptimizeIs, OptimizeHolds
  <2> QED
    BY <2>1, <2>2, <2>3 DEF Younger
<1>10. Younger(e, y)
  BY <1>5, <1>8, <1>9, YoungerTrans
<1> QED
  BY <1>1, <1>7, <1>10

\* So does reMaxSize's step.
LEMMA ReMaxSizeEvicts ==
  ASSUME StoreInv, NEW m \in Sizes, ReMaxSize(m)
  PROVE  Younger(db, db')
<1>1. PICK d, old, r : d = db /\ old = maxlen /\ r = Resized(d, old, m)
  OBVIOUS
<1>2. db' = r.db
  BY <1>1 DEF ReMaxSize
<1>3. Sound(d, Storable) /\ m \in Nat
  BY <1>1, StoreAssumption DEF StoreInv
<1>4. PICK g : g = r.db
  OBVIOUS
<1>5. Younger(d, g)
  BY <1>1, <1>3, <1>4, ResizedEvicts
<1> QED
  BY <1>1, <1>2, <1>4, <1>5

\* What an insert of the given or the compressed value does.
Inserts(k, v) ==
  /\ \E d, g, ok : d = db /\ g = db' /\ ok = did'.ok /\ ok \in BOOLEAN /\ Inserted(d, k, v, ok, g)
  /\ did'.op = "insert" /\ did'.key = k /\ v.time = now

\* Each call of insert is one.
LEMMA InsertingSteps ==
  ASSUME StoreInv, NEW k \in Keys, NEW len \in Lens, NEW isreplace \in BOOLEAN,
         \/ Insert(k, Value(now, FALSE, len, len), isreplace)
         \/ \E size \in Packed(len) : Insert(k, Value(now, TRUE, len, size), isreplace)
  PROVE  \E v : Inserts(k, v)
<1>1. PICK t : t = now
  OBVIOUS
<1>2. t \in 0 .. MaxTime /\ len \in Lengths
  BY <1>1 DEF StoreInv, Lengths
<1>3. ASSUME NEW zip \in BOOLEAN, NEW size \in Lengths, NEW v, v = Value(t, zip, len, size),
             Insert(k, v, isreplace)
      PROVE  Inserts(k, v)
  <2>1. Given(v)
    BY <1>2, <1>3, ValueIs
  <2>2. v.time = now
    BY <1>1, <1>3 DEF Value
  <2> QED
    BY <1>3, <2>1, <2>2, InsertEvicts DEF Inserts
<1>4. CASE Insert(k, Value(now, FALSE, len, len), isreplace)
  <2>1. PICK v : v = Value(t, FALSE, len, len)
    OBVIOUS
  <2>2. Insert(k, v, isreplace)
    BY <1>1, <1>4, <2>1
  <2> QED
    BY <1>2, <1>3, <2>1, <2>2
<1>5. CASE \E size \in Packed(len) : Insert(k, Value(now, TRUE, len, size), isreplace)
  <2>1. PICK size \in Packed(len) : Insert(k, Value(now, TRUE, len, size), isreplace)
    BY <1>5
  <2>2. PICK v : v = Value(t, TRUE, len, size)
    OBVIOUS
  <2>3. Insert(k, v, isreplace) /\ size \in Lengths
    BY <1>1, <2>1, <2>2 DEF Lengths
  <2> QED
    BY <1>3, <2>2, <2>3
<1> QED
  BY <1>4, <1>5

\* The calls that do not insert.
LEMMA OtherSteps ==
  ASSUME StoreInv, Next
  PROVE  \/ \E k \in Keys : \E v : Inserts(k, v)
         \/ \E k \in Keys : Delete(k)
         \/ ClearAll \/ Close \/ Die
         \/ did'.op \in {"resize", "open"} /\ Younger(db, db')
         \/ \E t \in 0 .. MaxTime : Tick(t)
<1>1. ASSUME NEW m \in Sizes, ReMaxSize(m)
      PROVE  did'.op \in {"resize", "open"} /\ Younger(db, db')
  <2>1. did'.op = "resize"
    BY <1>1 DEF ReMaxSize, Did
  <2> QED
    BY <1>1, <2>1, ReMaxSizeEvicts
<1>2. ASSUME NEW m \in Sizes, Open(m)
      PROVE  did'.op \in {"resize", "open"} /\ Younger(db, db')
  <2>1. did'.op = "open"
    BY <1>2 DEF Open, Did
  <2> QED
    BY <1>2, <2>1, OpenEvicts
<1>3. ASSUME NEW k \in Keys, NEW len \in Lens, NEW isreplace \in BOOLEAN,
             \/ Insert(k, Value(now, FALSE, len, len), isreplace)
             \/ \E size \in Packed(len) : Insert(k, Value(now, TRUE, len, size), isreplace)
      PROVE  \E v : Inserts(k, v)
  BY <1>3, InsertingSteps
<1> QED
  BY <1>1, <1>2, <1>3 DEF Next

\* Those that evict.
LEMMA EvictingSteps ==
  ASSUME StoreInv, Next, did'.op \in {"insert", "resize", "open"}
  PROVE  \/ did'.op \in {"resize", "open"} /\ Younger(db, db')
         \/ \E k \in Keys : \E v : Inserts(k, v)
<1>1. ASSUME NEW k, Delete(k)
      PROVE  FALSE
  BY <1>1 DEF Delete, Did
<1>2. ~ClearAll /\ ~Close /\ ~Die
  BY DEF ClearAll, Close, Die, Did
<1>3. ASSUME NEW t, Tick(t)
      PROVE  FALSE
  BY <1>3 DEF Tick, Did
<1> QED
  BY <1>1, <1>2, <1>3, OtherSteps

\* First in, first out: whatever evicts, the youngest record that goes is not
\* younger than the oldest that was there and stays (removeByFIFO).
THEOREM EvictsTheOldest == Spec => EvictsOldest
<1>1. Init => StoreInv
  BY InitSound
<1>2. StoreInv /\ [Next]_vars => StoreInv'
  BY NextSound
<1>3. StoreInv /\ [Next]_vars =>
        [did'.op \in {"insert", "resize", "open"} =>
           \A k, l \in Keys : Gone(k) /\ Spared(l) => TimeOf(db, k) <= TimeOf(db, l)]_vars
  <2>1. SUFFICES ASSUME StoreInv, Next, did'.op \in {"insert", "resize", "open"},
                        NEW x \in Keys, NEW l \in Keys, Gone(x), Spared(l)
                 PROVE  TimeOf(db, x) <= TimeOf(db, l)
    OBVIOUS
  <2>2. PICK d, g : d = db /\ g = db'
    OBVIOUS
  <2>3. /\ Has(d, x) /\ ~Has(g, x) /\ Has(d, l) /\ Has(g, l)
        /\ ~(did'.op = "insert" /\ did'.key = l)
    BY <2>1, <2>2 DEF Gone, Spared
  <2>4. Sound(d, Storable)
    BY <2>1, <2>2 DEF StoreInv
  <2>5. CASE did'.op \in {"resize", "open"} /\ Younger(db, db')
    <3>1. Younger(d, g)
      BY <2>2, <2>5
    <3>2. Stored(g, x, 0, FALSE, g)
      BY <3>1 DEF Stored, Younger
    <3>3. TimeOf(d, x) <= TimeOf(d, l)
      BY <2>3, <2>4, <3>1, <3>2, GoneOlder
    <3> QED
      BY <2>2, <3>3
  <2>6. ASSUME NEW k \in Keys, NEW v, Inserts(k, v)
        PROVE  TimeOf(db, x) <= TimeOf(db, l)
    <3>1. PICK ok : Inserted(d, k, v, ok, g) /\ did'.op = "insert" /\ did'.key = k
      BY <2>2, <2>6 DEF Inserts
    <3>2. PICK c : Younger(d, c) /\ Stored(c, k, v, ok, g)
      BY <3>1 DEF Inserted
    <3>3. l # k
      BY <2>3, <3>1
    <3>4. TimeOf(d, x) <= TimeOf(d, l)
      BY <2>3, <2>4, <3>2, <3>3, GoneOlder
    <3> QED
      BY <2>2, <3>4
  <2> QED
    BY <2>1, <2>5, <2>6, EvictingSteps
<1> QED
  BY <1>1, <1>2, <1>3, PTL DEF Spec, EvictsOldest

\* An insert evicts a share of the records, and once more a share of what is
\* left, but no more: of the records written in one second only as many go as
\* the share asks for (crivnum in removeByFIFO).
THEOREM EvictsAShare == Spec => EvictsItsShare
<1>1. Init => StoreInv
  BY InitSound
<1>2. StoreInv /\ [Next]_vars => StoreInv'
  BY NextSound
<1>3. StoreInv /\ [Next]_vars =>
        [did'.op = "insert" =>
           LET n == Num({k \in Keys : Gone(k)})
           IN n <= Share(db.rnum) + Share(db.rnum - Share(db.rnum))]_vars
  <2>1. SUFFICES ASSUME StoreInv, Next, did'.op = "insert"
                 PROVE  Num({k \in Keys : Gone(k)}) <= Share(db.rnum) + Share(db.rnum - Share(db.rnum))
    OBVIOUS
  <2>2. PICK k, v, d, g, ok : k \in Keys /\ d = db /\ g = db' /\ Inserted(d, k, v, ok, g)
    <3>1. PICK k \in Keys : \E v : Inserts(k, v)
      BY <2>1, EvictingSteps
    <3> QED
      BY <3>1 DEF Inserts
  <2>3. Sound(d, Storable)
    BY <2>1, <2>2 DEF StoreInv
  <2>4. PICK c : Younger(d, c) /\ d.rnum - c.rnum <= TwoShares(d.rnum) /\ Stored(c, k, v, ok, g)
    BY <2>2 DEF Inserted
  <2>5. Sound(c, Storable)
    BY <2>4 DEF Younger
  <2>6. PICK G : G = {x \in Keys : Has(d, x) /\ ~Has(g, x)}
    OBVIOUS
  <2>7. G \subseteq KeysOf(d) \ KeysOf(c)
    <3>1. \A x \in G : x \in Keys /\ Has(d, x) /\ ~Has(c, x)
      BY <2>2, <2>4, <2>5, <2>6, GoneBefore
    <3> QED
      BY <3>1 DEF KeysOf
  <2>8. Cardinality(G) \in Nat /\ Cardinality(G) <= d.rnum - c.rnum
    BY <2>3, <2>4, <2>7, GoneCounted
  <2>9. d.rnum \in Nat /\ c.rnum \in Nat
    BY <2>3, <2>5, YoungerCounts
  <2>10. TwoShares(d.rnum) \in Nat
    <3>1. Share(d.rnum) \in Nat /\ d.rnum - Share(d.rnum) \in Nat
      BY <2>9, ShareLess
    <3>2. Share(d.rnum - Share(d.rnum)) \in Nat
      BY <3>1, ShareLess
    <3> QED
      BY <3>1, <3>2 DEF TwoShares
  <2>11. Cardinality(G) <= TwoShares(d.rnum)
    BY <2>4, <2>8, <2>9, <2>10
  <2>12. {x \in Keys : Gone(x)} = G
    BY <2>2, <2>6 DEF Gone
  <2> QED
    BY <2>2, <2>11, <2>12 DEF Num, TwoShares
<1> QED
  BY <1>1, <1>2, <1>3, PTL DEF Spec, EvictsItsShare
---------------------------------------------------------------------------
(* What a store holds *)

\* What a reader finds: keys and values.
Found(d) == {<<k, d.seg[Find(d, k).off].val>> : k \in {l \in Keys : Has(d, l)}}

\* That is what the file holds.
LEMMA FoundContents ==
  ASSUME NEW d, Sound(d, Storable)
  PROVE  Found(d) = Contents(d)
<1>1. /\ \A p, q \in Contents(d) : p[1] = q[1] => p = q
      /\ \A p \in Contents(d) : p[1] \in Keys /\ p[2] \in Storable /\ p = <<p[1], p[2]>>
      /\ \A k \in Keys : Has(d, k) <=> \E p \in Contents(d) : p[1] = k
      /\ \A k \in Keys : Has(d, k) => <<k, d.seg[Find(d, k).off].val>> \in Contents(d)
  BY HoldsIs
<1>2. Found(d) \subseteq Contents(d)
  BY <1>1 DEF Found
<1>3. ASSUME NEW p \in Contents(d)
      PROVE  p \in Found(d)
  <2>1. PICK k \in Keys : k = p[1]
    BY <1>1
  <2>2. Has(d, k)
    BY <1>1, <2>1
  <2>3. PICK q : q = <<k, d.seg[Find(d, k).off].val>>
    OBVIOUS
  <2>4. q \in Contents(d) /\ q[1] = p[1]
    BY <1>1, <2>1, <2>2, <2>3
  <2>5. p = q
    BY <1>1, <2>4
  <2> QED
    BY <2>2, <2>3, <2>5 DEF Found
<1> QED
  BY <1>2, <1>3

\* What each call leaves of what was found: of an insert,
InsertLeaves(F, G, k, ok, t) ==
  /\ \A p \in G : p \in F \/ (ok /\ p[1] = k /\ p[2].time = t)
  /\ ok => \E p \in G : p[1] = k /\ p[2].time = t

LEMMA InsertedLeaves ==
  ASSUME NEW d, NEW k, NEW v, NEW ok \in BOOLEAN, NEW g, Inserted(d, k, v, ok, g)
  PROVE  InsertLeaves(Contents(d), Contents(g), k, ok, v.time)
<1>1. PICK c : Younger(d, c) /\ Stored(c, k, v, ok, g)
  BY DEF Inserted
<1>2. PICK F, C, G, p : F = Contents(d) /\ C = Contents(c) /\ G = Contents(g) /\ p = <<k, v>>
  OBVIOUS
<1>3. C \subseteq F
  BY <1>1, <1>2 DEF Younger
<1>4. G = IF ok THEN {q \in C : q[1] # k} \cup {p} ELSE C
  BY <1>1, <1>2 DEF Stored, With, Besides
<1>5. p[1] = k /\ p[2].time = v.time
  BY <1>2
<1>6. InsertLeaves(F, G, k, ok, v.time)
  <2>1. CASE ok
    BY <1>3, <1>4, <1>5, <2>1 DEF InsertLeaves
  <2>2. CASE ~ok
    BY <1>3, <1>4, <2>2 DEF InsertLeaves
  <2> QED
    BY <2>1, <2>2
<1> QED
  BY <1>2, <1>6

\* ... of a removal,
RemoveLeaves(F, G, ok) == IF ok THEN \E p \in F : G = F \ {p} ELSE G = F

LEMMA DeleteLeaves ==
  ASSUME StoreInv, NEW k \in Keys, Delete(k)
  PROVE  did'.op = "remove" /\ RemoveLeaves(Contents(db), Contents(db'), did'.ok)
<1>1. PICK d, g : d = db /\ g = db'
  OBVIOUS
<1>2. Sound(d, Storable)
  BY <1>1 DEF StoreInv
<1>3. g = IF Has(d, k) THEN RemoveRec(d, Find(d, k)) ELSE d
  BY <1>1 DEF Delete
<1>4. did'.op = "remove" /\ did'.ok = Has(d, k)
  BY <1>1 DEF Delete, Did
<1>5. RemoveLeaves(Contents(d), Contents(g), Has(d, k))
  <2>1. CASE Has(d, k)
    <3>1. PICK F, G : F = Contents(d) /\ G = Contents(g)
      OBVIOUS
    <3>2. G = {q \in F : q[1] # k}
      <4>1. g = RemoveRec(d, Find(d, k))
        BY <1>3, <2>1
      <4>2. Contents(g) = Besides(Contents(d), k)
        BY <1>2, <2>1, <4>1, DeletedIs
      <4> QED
        BY <3>1, <4>2 DEF Besides
    <3>3. /\ \A p, q \in F : p[1] = q[1] => p = q
          /\ \E p \in F : p[1] = k
      BY <1>2, <2>1, <3>1, HoldsIs
    <3>4. PICK p \in F : p[1] = k
      BY <3>3
    <3>5. G = F \ {p}
      BY <3>2, <3>3, <3>4
    <3> QED
      BY <2>1, <3>1, <3>5 DEF RemoveLeaves
  <2>2. CASE ~Has(d, k)
    BY <1>3, <2>2 DEF RemoveLeaves
  <2> QED
    BY <2>1, <2>2
<1> QED
  BY <1>1, <1>4, <1>5

\* ... of a reset,
LEMMA EmptyHolds == Contents(EmptyDB) = {}
<1>1. PICK d, T : d = EmptyDB /\ T = Index(d)
  OBVIOUS
<1>2. Clean(d, Storable) /\ DOMAIN d.seg = {}
  BY <1>1, EmptySound, SoundIs DEF EmptyDB
<1>3. DOMAIN T = {}
  BY <1>1, <1>2, IndexIs
<1>4. Pairs(T) = {}
  BY <1>3 DEF Pairs
<1> QED
  BY <1>1, <1>4 DEF Contents

\* ... of closing the store, or the death of its process.
LEMMA CloseLeaves ==
  ASSUME StoreInv, Close \/ Die
  PROVE  did'.op = "close" /\ Contents(db') = Contents(db)
<1>1. PICK d, g : d = db /\ g = db'
  OBVIOUS
<1>2. g = Closed(d) \/ g = Volatile(d)
  BY <1>1 DEF Close, Die
<1>3. IsDB(d)
  <2>1. Clean(d, Storable)
    BY <1>1, SoundIs DEF StoreInv
  <2> QED
    BY <2>1 DEF Clean, Kept
<1>4. SameFile(d, Volatile(d)) /\ SameFile(d, Closed(d))
  BY <1>3, ClosedEnds
<1>5. SameFile(d, g)
  BY <1>2, <1>4
<1>6. Contents(g) = Contents(d)
  BY <1>5 DEF SameFile
<1>7. did'.op = "close"
  BY DEF Close, Die, Did
<1> QED
  BY <1>1, <1>6, <1>7

\* What a step may do to what is found.
StepLeaves(F, G, e, t) ==
  /\ e.op = "insert" => InsertLeaves(F, G, e.key, e.ok, t)
  /\ e.op = "remove" => RemoveLeaves(F, G, e.ok)
  /\ e.op = "clear" => G = {}
  /\ e.op \in {"close", "tick"} => G = F
  /\ e.op \in {"resize", "open"} => G \subseteq F

LEMMA NextLeaves ==
  ASSUME StoreInv, Next
  PROVE  StepLeaves(Contents(db), Contents(db'), did', now)
<1>1. PICK d, g, F, G, t, e :
        /\ d = db /\ g = db' /\ F = Contents(d) /\ G = Contents(g) /\ t = now /\ e = did'
  OBVIOUS
<1>2. ASSUME NEW k \in Keys, NEW v, Inserts(k, v)
      PROVE  StepLeaves(F, G, e, t)
  <2>1. PICK ok \in BOOLEAN : ok = e.ok /\ Inserted(d, k, v, ok, g)
    BY <1>1, <1>2 DEF Inserts
  <2>2. e.op = "insert" /\ e.key = k /\ v.time = t
    BY <1>1, <1>2 DEF Inserts
  <2>3. InsertLeaves(F, G, k, ok, v.time)
    BY <1>1, <2>1, InsertedLeaves
  <2> QED
    BY <2>1, <2>2, <2>3 DEF StepLeaves
<1>3. ASSUME NEW k \in Keys, Delete(k)
      PROVE  StepLeaves(F, G, e, t)
  <2>1. e.op = "remove" /\ RemoveLeaves(F, G, e.ok)
    BY <1>1, <1>3, DeleteLeaves
  <2> QED
    BY <2>1 DEF StepLeaves
<1>4. CASE ClearAll
  <2>1. e.op = "clear" /\ g = EmptyDB
    BY <1>1, <1>4 DEF ClearAll, Did
  <2>2. G = {}
    BY <1>1, <2>1, EmptyHolds
  <2> QED
    <3>1. StepLeaves(F, G, e, t)
      BY <2>1, <2>2 DEF StepLeaves
    <3> QED
      BY <1>1, <3>1
<1>5. CASE Close \/ Die
  <2>1. e.op = "close" /\ G = F
    BY <1>1, <1>5, CloseLeaves
  <2>2. StepLeaves(F, G, e, t)
    BY <2>1 DEF StepLeaves
  <2> QED
    BY <1>1, <2>2
<1>6. CASE did'.op \in {"resize", "open"} /\ Younger(db, db')
  <2>1. e.op \in {"resize", "open"} /\ G \subseteq F
    BY <1>1, <1>6 DEF Younger
  <2>2. StepLeaves(F, G, e, t)
    BY <2>1 DEF StepLeaves
  <2> QED
    BY <1>1, <2>2
<1>7. ASSUME NEW u, Tick(u)
      PROVE  StepLeaves(F, G, e, t)
  <2>1. e.op = "tick" /\ g = d
    BY <1>1, <1>7 DEF Tick, Did
  <2> QED
    BY <1>1, <2>1 DEF StepLeaves
<1> QED
  BY <1>1, <1>2, <1>3, <1>4, <1>5, <1>6, <1>7, OtherSteps

\* A store is a map that loses what it evicts, whatever the table, the trees
\* and the pool of free blocks are like.  An insert that succeeds leaves a value
\* of the clock's time under its key, and of the other keys' values at most
\* loses some; one that fails adds and changes nothing.  A removal takes one
\* key's value, a reset all.  Closing, the death of the process and the clock
\* change nothing; a new quota and opening, although they evict and rewrite the
\* file, change no value (mStore.cpp over tchdb.c).
MapSteps == [][StepLeaves(Found(db), Found(db'), did', now)]_vars

\* Every step of the store is one of a map that may lose entries.
THEOREM StoreIsAMap == Spec => MapSteps
<1>1. Init => StoreInv
  BY InitSound
<1>2. StoreInv /\ [Next]_vars => StoreInv'
  BY NextSound
<1>3. StoreInv /\ StoreInv' /\ [Next]_vars => [StepLeaves(Found(db), Found(db'), did', now)]_vars
  <2>1. SUFFICES ASSUME StoreInv, StoreInv', Next
                 PROVE  StepLeaves(Found(db), Found(db'), did', now)
    OBVIOUS
  <2>2. PICK d, g : d = db /\ g = db'
    OBVIOUS
  <2>3. Sound(d, Storable) /\ Sound(g, Storable)
    BY <2>1, <2>2 DEF StoreInv
  <2>4. Found(d) = Contents(d) /\ Found(g) = Contents(g)
    BY <2>3, FoundContents
  <2>5. StepLeaves(Contents(d), Contents(g), did', now)
    BY <2>1, <2>2, NextLeaves
  <2> QED
    BY <2>2, <2>4, <2>5
<1> QED
  BY <1>1, <1>2, <1>3, PTL DEF Spec, MapSteps
==============================================================================
