----------------------------- MODULE HashLogProofs -----------------------------
(***************************************************************************)
(* What HashLog guarantees for every size of the file and of the log: its  *)
(* types, that the log is sound, that the object and the header of the     *)
(* file agree on its end, and that the pool of free blocks never offers a  *)
(* record.  At last, transactions are atomic: HashLog implements           *)
(* AtomicFile, to which a reader sees the bucket and the segments of the   *)
(* file or, when a rollback is due, what its log brings back; that is also *)
(* what lasts.                                                             *)
(***************************************************************************)
EXTENDS HashLog, SequenceTheorems, WellFoundedInduction, TLAPS

---------------------------------------------------------------------------
(* The inductive invariant: types *)

\* What the cell c may hold.
Fits(c, v) ==
  /\ v \in Nat
  /\ c \in {Flags, Bucket} \/ c >= Frec => v \in {0, 1}
  /\ c = Fsiz => v \in Frec .. MaxFsiz
  /\ c = Msiz => v = 0 \/ v \in Frec .. MaxFsiz - 1

FileOK(f) ==
  f \in [0 .. MaxFsiz - 1 -> Nat] /\ \A c \in 0 .. MaxFsiz - 1 : Fits(c, f[c])

\* What may be written at `off'.
Fitting(off, buf) ==
  off \in Nat /\ buf \in Seq(Nat) /\ \A i \in 1 .. Len(buf) : Fits(off + i - 1, buf[i])

Records == [off : Nat, was : Seq(Nat)]

RecordOK(r, base) == Fitting(r.off, r.was) /\ r.off + Len(r.was) <= base

\* The header's record: the file was closed, and as long as the log says.
IsHeader(r, base) ==
  r.off = 0 /\ Len(r.was) = HeadSize /\ r.was[1] = 0 /\ r.was[2] = base

RecsOK(recs, base) ==
  /\ recs \in Seq(Records)
  /\ \A i \in 1 .. Len(recs) : RecordOK(recs[i], base) /\ (i > 1 => recs[i].off >= Bucket)
  /\ recs # <<>> => base >= Frec /\ IsHeader(recs[1], base)

LogOK ==
  /\ log \in [base : -1 .. MaxFsiz, recs : Seq(Records), torn : BOOLEAN]
  /\ RecsOK(log.recs, log.base)

HdbOK ==
  /\ hdb \in [flags : {0, 1}, fsiz : 0 .. MaxFsiz, tran : BOOLEAN, fatal : BOOLEAN,
              walfd : BOOLEAN, walend : 0 .. MaxFsiz, fbpool : {0} \cup Frec .. MaxFsiz - 1]
  /\ IF At("down") THEN hdb = NoDB ELSE hdb.fsiz >= Frec

\* A write of PutRecord, of FreeRecord, of SetBucket, of Copy or Close.
StoreOK(s) ==
  /\ s.at = "store" /\ Fitting(s.off, s.buf) /\ Len(s.buf) > 0
  /\ s.off + Len(s.buf) <= MaxFsiz /\ s.off >= Bucket
  /\ s.off < hdb.fsiz => Len(s.buf) = 1
  /\ \/ s.off \in Frec .. hdb.fsiz /\ s.next.at = "idle"
     \/ /\ s.off \in Frec .. hdb.fsiz - 1 /\ s.next.at = "insert" /\ s.next.off = s.off
        /\ s.buf[1] = Free
     \/ s.off = Bucket /\ s.next.at = "idle"
     \/ s.off = Msiz /\ s.next.at \in {"copy", "closing"}

\* The end of the file moves behind a record, or before the last block.
ResizeOK(s) == s.at = "resize" /\ s.fsiz \in Frec .. MaxFsiz /\ s.fsiz >= hdb.fsiz - 1

LogStepOK ==
  /\ hdb.tran /\ pc.off \in Nat /\ pc.n \in Nat \ {0} /\ pc.off >= Bucket
  /\ \/ StoreOK(pc.done) /\ pc.off = pc.done.off /\ pc.n = Len(pc.done.buf)
     \/ ResizeOK(pc.done) /\ pc.off = pc.done.fsiz /\ pc.n = 1 /\ pc.off = hdb.fsiz - 1
  /\ IF pc.off = Bucket THEN pc.failed = pc.done ELSE pc.failed.at \in {"idle", "copy", "closing"}

UndoOK ==
  /\ pc = [at |-> "undo", n |-> pc.n, next |-> pc.next]
  /\ pc.n \in 0 .. Len(log.recs) /\ Applicable(log)
  /\ pc.next.at \in IF hdb.tran THEN {"aborted", "unlink"} ELSE {"reload", "loadfbp"}

PcOK ==
  /\ pc.at \in Labels
  /\ At("log") => LogStepOK
  /\ At("store") => StoreOK(pc)
  /\ At("resize") => ResizeOK(pc)
  /\ At("insert") => pc.off \in Frec .. hdb.fsiz - 1
  /\ At("undo") => UndoOK

Shapes == FileOK(file) /\ LogOK /\ HdbOK /\ PcOK

---------------------------------------------------------------------------
(* The inductive invariant: transactions *)

\* The log has a record of the cell c.
HeldBy(recs, c) == \E i \in 1 .. Len(recs) : Holds(recs[i], c)

Held(c) == HeldBy(log.recs, c)

\* What the file had at the beginning of the transaction is logged from a to b.
Logged(a, b) == \A c \in a .. b : c < log.base => Held(c)

\* An open transaction: its log is there, and what is past the end of the file
\* or about to be written is in it.
TranOK ==
  hdb.tran =>
    /\ Applicable(log) /\ hdb.walend = log.base /\ hdb.walfd
    /\ pc.at \in {"idle", "log", "store", "resize", "insert", "copy", "copied",
                  "closing", "cut", "undo", "aborted", "unlink"}
    /\ InTransaction => file[Fsiz] = hdb.fsiz /\ Logged(hdb.fsiz, MaxFsiz)
    /\ At("store") /\ (pc.off = Bucket => "bucket" \notin LogFails)
         => Logged(pc.off, pc.off + Len(pc.buf) - 1)
    /\ At("resize") => Logged(pc.fsiz, MaxFsiz)

\* The log of a transaction that begins.
BeginOK ==
  /\ pc.at \in {"unflag", "waltrunc", "walsize", "walhead", "begun"} => file[Fsiz] = hdb.fsiz
  /\ pc.at \in {"waltrunc", "walsize", "walhead"} => file[Flags] = 0
  /\ pc.at \in {"walsize", "walhead"} => log.recs = <<>>
  /\ pc.at \in {"walhead", "begun"} => log.base = hdb.fsiz /\ hdb.walend = hdb.fsiz
  /\ pc.at \in {"unflag", "waltrunc", "walsize", "walhead", "begun"} => hdb.walfd
  /\ At("begun") => Len(log.recs) = 1

\* A restoration: what only the records before the n-th still have to bring
\* back is back; the flag, which the first one holds, is the last.
RestoreOK ==
  /\ At("undo") =>
       \A c \in 0 .. MaxFsiz - 1 :
         Held(c) /\ (\A i \in 1 .. pc.n : ~Holds(log.recs[i], c)) => file[c] = UndoneFile[c]
  /\ At("undo") /\ ~hdb.tran => hdb.flags = 1 /\ (pc.n > 0 => file[Flags] = 1)
  /\ hdb.tran /\ pc.at \in {"aborted", "unlink"} => file = UndoneFile
  /\ At("aborted") => hdb.tran
  /\ pc.at \in {"cut", "unlink"} => file[Flags] = 0
  /\ At("cut") => file[Fsiz] = hdb.fsiz

Inv == Shapes /\ TranOK /\ BeginOK /\ RestoreOK

---------------------------------------------------------------------------
(* The inductive invariant: the end of the file *)

\* Unless a log is cut short, every opening reloads what the log restored.
EndsInv ==
  /\ ~log.torn /\ (At("undo") => pc.next.at # "loadfbp")
  /\ pc.at \notin {"down", "undo", "aborted", "unlink", "reload"} => hdb.fsiz = file[Fsiz]

---------------------------------------------------------------------------
(* Lemmas: files *)

\* A write of what fits leaves a file in type.
LEMMA WrittenTypes ==
  ASSUME NEW f, FileOK(f), NEW off, NEW buf, Fitting(off, buf)
  PROVE  FileOK(Written(f, off, buf))
<1> DEFINE g == Written(f, off, buf)
<1>1. \A c \in 0 .. MaxFsiz - 1 : Fits(c, g[c])
  <2> TAKE c \in 0 .. MaxFsiz - 1
  <2>1. CASE c \in off .. off + Len(buf) - 1
    <3>1. c - off + 1 \in 1 .. Len(buf) /\ g[c] = buf[c - off + 1]
      BY <2>1, LogAssumption DEF Fitting, FileOK, Written
    <3>2. Fits(off + (c - off + 1) - 1, buf[c - off + 1])
      BY <3>1 DEF Fitting
    <3>3. off + (c - off + 1) - 1 = c
      BY LogAssumption DEF Fitting
    <3> QED
      BY <3>1, <3>2, <3>3
  <2>2. CASE c \notin off .. off + Len(buf) - 1
    BY <2>2 DEF FileOK, Written
  <2> QED
    BY <2>1, <2>2
<1>2. g = [c \in 0 .. MaxFsiz - 1 |-> g[c]]
  BY DEF FileOK, Written
<1>3. \A c \in 0 .. MaxFsiz - 1 : g[c] \in Nat
  BY <1>1 DEF Fits
<1> QED
  BY <1>1, <1>2, <1>3 DEF FileOK

\* So does a change of its header, clearing the pool in it, cutting it short.
LEMMA FlagTypes ==
  ASSUME NEW f, FileOK(f), NEW flag \in {0, 1}
  PROVE  FileOK([f EXCEPT ![Flags] = flag]) /\ FileOK([f EXCEPT ![Msiz] = 0])
BY LogAssumption DEF FileOK, Fits, Flags, Fsiz, Bucket, Msiz, Frec

LEMMA HeaderTypes ==
  ASSUME NEW f, FileOK(f), NEW flag \in {0, 1}, NEW size \in Frec .. MaxFsiz
  PROVE  /\ FileOK([f EXCEPT ![Fsiz] = size]) /\ FileOK(Truncated(f, size))
         /\ FileOK([f EXCEPT ![Flags] = flag, ![Fsiz] = size])
BY LogAssumption DEF FileOK, Fits, Flags, Fsiz, Bucket, Msiz, Frec, Truncated

LEMMA EmptyTypes == FileOK(EmptyFile)
BY LogAssumption DEF EmptyFile, FileOK, Fits, Flags, Fsiz, Bucket, Msiz, Frec

\* Two files that hold the same are the same.
LEMMA FilesEqual ==
  ASSUME NEW f, NEW g, FileOK(f), FileOK(g), \A c \in 0 .. MaxFsiz - 1 : f[c] = g[c]
  PROVE  f = g
<1>1. f = [c \in 0 .. MaxFsiz - 1 |-> f[c]] /\ g = [c \in 0 .. MaxFsiz - 1 |-> g[c]]
  BY DEF FileOK
<1> QED
  BY <1>1

---------------------------------------------------------------------------
(* Lemmas: logs *)

\* A nonempty set of numbers has a least one.
LEMMA Least ==
  ASSUME NEW S, S \subseteq Nat, S # {}
  PROVE  \E i \in S : \A j \in S : i <= j
<1> DEFINE R == {ss \in Nat \X Nat : ss[1] < ss[2]}
<1>1. IsWellFoundedOn(R, Nat)
  <2>1. R = OpToRel(<, Nat)
    BY Zenon DEF OpToRel
  <2> QED
    BY <2>1, NatLessThanWellFounded, Zenon
<1>2. PICK i \in S : \A j \in S : ~(<<j, i>> \in R)
  BY <1>1, WFMin, Zenon
<1>3. ASSUME NEW j \in S, ~(i <= j)
      PROVE  FALSE
  <2>1. <<j, i>> \in Nat \X Nat /\ j < i
    BY <1>3
  <2>2. <<j, i>> \in R
    BY <2>1
  <2> QED
    BY <1>2, <2>2
<1> QED
  BY <1>3

\* A cell that no record holds keeps what it has; another gets what the oldest
\* of the records that hold it says.
LEMMA UndoneAt ==
  ASSUME NEW f, FileOK(f), NEW recs \in Seq(Records), NEW c \in 0 .. MaxFsiz - 1
  PROVE  /\ ~HeldBy(recs, c) => Undone(f, recs)[c] = f[c]
         /\ HeldBy(recs, c) =>
              \E i \in 1 .. Len(recs) :
                /\ Holds(recs[i], c) /\ \A j \in 1 .. i - 1 : ~Holds(recs[j], c)
                /\ Undone(f, recs)[c] = recs[i].was[c - recs[i].off + 1]
<1> DEFINE rs == {i \in DOMAIN recs : Holds(recs[i], c)}
           least == CHOOSE i \in rs : \A j \in rs : i <= j
<1>1. DOMAIN recs = 1 .. Len(recs) /\ Len(recs) \in Nat
  BY LenProperties
<1>2. Undone(f, recs)[c] = IF rs = {} THEN f[c] ELSE recs[least].was[c - recs[least].off + 1]
  BY DEF Undone, FileOK
<1>3. HeldBy(recs, c) <=> rs # {}
  BY <1>1 DEF HeldBy
<1>4. ASSUME rs # {}
      PROVE  least \in 1 .. Len(recs) /\ Holds(recs[least], c)
             /\ \A j \in 1 .. least - 1 : ~Holds(recs[j], c)
  <2>1. rs \subseteq Nat
    BY <1>1
  <2>2. \E i \in rs : \A j \in rs : i <= j
    BY <1>4, <2>1, Least
  <2>3. least \in rs /\ \A j \in rs : least <= j
    BY <2>2
  <2> HIDE DEF least
  <2> QED
    BY <1>1, <2>3
<1> QED
  BY <1>2, <1>3, <1>4

\* What the log makes of a file is a file.
LEMMA UndoneTypes ==
  ASSUME NEW f, FileOK(f), NEW recs, NEW base, RecsOK(recs, base)
  PROVE  FileOK(Undone(f, recs))
<1> DEFINE u == Undone(f, recs)
<1>1. \A c \in 0 .. MaxFsiz - 1 : Fits(c, u[c])
  <2> TAKE c \in 0 .. MaxFsiz - 1
  <2>1. CASE ~HeldBy(recs, c)
    BY <2>1, UndoneAt, ZenonT(40) DEF RecsOK, FileOK
  <2>2. CASE HeldBy(recs, c)
    <3>1. PICK i \in 1 .. Len(recs) :
                 Holds(recs[i], c) /\ u[c] = recs[i].was[c - recs[i].off + 1]
      BY <2>2, UndoneAt DEF RecsOK
    <3>2. Fitting(recs[i].off, recs[i].was)
      BY DEF RecsOK, RecordOK
    <3>3. c - recs[i].off + 1 \in 1 .. Len(recs[i].was) /\ recs[i].off \in Nat
      BY <3>1, <3>2, LogAssumption, LenProperties DEF Holds, Fitting
    <3>4. Fits(recs[i].off + (c - recs[i].off + 1) - 1, u[c])
      BY <3>1, <3>2, <3>3 DEF Fitting
    <3>5. recs[i].off + (c - recs[i].off + 1) - 1 = c
      BY <3>3, LogAssumption
    <3> QED
      BY <3>4, <3>5
  <2> QED
    BY <2>1, <2>2
<1>2. u = [c \in 0 .. MaxFsiz - 1 |-> u[c]]
  BY DEF FileOK, Undone
<1>3. \A c \in 0 .. MaxFsiz - 1 : u[c] \in Nat
  BY <1>1 DEF Fits
<1> QED
  BY <1>1, <1>2, <1>3 DEF FileOK

\* It depends on the cells that no record holds only.
LEMMA UndoneAgree ==
  ASSUME NEW f, NEW g, FileOK(f), FileOK(g), NEW recs \in Seq(Records),
         NEW c \in 0 .. MaxFsiz - 1, ~HeldBy(recs, c) => f[c] = g[c]
  PROVE  Undone(f, recs)[c] = Undone(g, recs)[c]
<1>1. CASE ~HeldBy(recs, c)
  BY <1>1, UndoneAt
<1>2. CASE HeldBy(recs, c)
  <2>1. PICK i \in 1 .. Len(recs) :
               /\ Holds(recs[i], c) /\ \A k \in 1 .. i - 1 : ~Holds(recs[k], c)
               /\ Undone(f, recs)[c] = recs[i].was[c - recs[i].off + 1]
    BY <1>2, UndoneAt
  <2>2. PICK j \in 1 .. Len(recs) :
               /\ Holds(recs[j], c) /\ \A k \in 1 .. j - 1 : ~Holds(recs[k], c)
               /\ Undone(g, recs)[c] = recs[j].was[c - recs[j].off + 1]
    BY <1>2, UndoneAt
  <2>3. i = j
    <3>1. ~(i < j)
      BY <2>1, <2>2, LenProperties
    <3>2. ~(j < i)
      BY <2>1, <2>2, LenProperties
    <3> QED
      BY <3>1, <3>2, LenProperties
  <2> QED
    BY <2>1, <2>2, <2>3
<1> QED
  BY <1>1, <1>2

\* The header that the log brings back.
LEMMA UndoneHeader ==
  ASSUME NEW f, FileOK(f), NEW recs, NEW base, RecsOK(recs, base), recs # <<>>
  PROVE  /\ Undone(f, recs)[Flags] = 0 /\ Undone(f, recs)[Fsiz] = base
         /\ HeldBy(recs, Flags) /\ HeldBy(recs, Fsiz)
<1>1. Len(recs) \in Nat \ {0} /\ recs \in Seq(Records)
  BY EmptySeq DEF RecsOK
<1>2. recs[1].off = 0 /\ Len(recs[1].was) = 2 /\ recs[1].was[1] = 0 /\ recs[1].was[2] = base
  BY DEF RecsOK, IsHeader, HeadSize
<1>3. Holds(recs[1], Flags) /\ Holds(recs[1], Fsiz) /\ 1 \in 1 .. Len(recs)
  BY <1>1, <1>2 DEF Holds, Flags, Fsiz
<1>4. HeldBy(recs, Flags) /\ HeldBy(recs, Fsiz)
  BY <1>3 DEF HeldBy
<1>5. ASSUME NEW c \in {Flags, Fsiz}
      PROVE  Undone(f, recs)[c] = recs[1].was[c + 1]
  <2>1. c \in 0 .. MaxFsiz - 1 /\ Holds(recs[1], c) /\ HeldBy(recs, c)
    BY <1>3, <1>4, LogAssumption DEF Flags, Fsiz
  <2>2. PICK i \in 1 .. Len(recs) :
               /\ Holds(recs[i], c) /\ \A k \in 1 .. i - 1 : ~Holds(recs[k], c)
               /\ Undone(f, recs)[c] = recs[i].was[c - recs[i].off + 1]
    BY <1>1, <2>1, UndoneAt
  <2>3. i = 1
    BY <1>1, <2>1, <2>2
  <2> QED
    BY <1>2, <2>1, <2>2, <2>3
<1> QED
  BY <1>2, <1>4, <1>5 DEF Flags, Fsiz

\* A record of what cells hold now.
LEMMA KeptTypes ==
  ASSUME NEW f, FileOK(f), NEW off \in Nat, NEW n \in Nat, off + n <= MaxFsiz
  PROVE  /\ Kept(f, off, n) \in Records /\ Kept(f, off, n).off = off
         /\ Len(Kept(f, off, n).was) = n /\ Fitting(off, Kept(f, off, n).was)
         /\ \A i \in 1 .. n : Kept(f, off, n).was[i] = f[off + i - 1]
<1> DEFINE was == [i \in 1 .. n |-> f[off + i - 1]]
<1>1. \A i \in 1 .. n : off + i - 1 \in 0 .. MaxFsiz - 1
  BY LogAssumption
<1>2. was \in [1 .. n -> Nat]
  BY <1>1 DEF FileOK
<1>3. was \in Seq(Nat)
  BY <1>2, SeqDef
<1>4. Len(was) = n
  BY <1>2, <1>3, LenProperties
<1>5. \A i \in 1 .. n : Fits(off + i - 1, was[i])
  BY <1>1 DEF FileOK
<1>6. Kept(f, off, n) = [off |-> off, was |-> was]
  BY DEF Kept
<1> HIDE DEF was
<1>7. Kept(f, off, n).was = was /\ Kept(f, off, n).off = off /\ Kept(f, off, n) \in Records
  BY <1>3, <1>6 DEF Records
<1> QED
  BY <1>3, <1>4, <1>5, <1>7 DEF Fitting, was

\* Logging more of the file changes nothing that the log brings back.
LEMMA UndoneAppend ==
  ASSUME NEW f, FileOK(f), NEW recs \in Seq(Records),
         NEW off \in Nat, NEW n \in Nat, off + n <= MaxFsiz
  PROVE  Undone(f, Append(recs, Kept(f, off, n))) = Undone(f, recs)
<1> DEFINE r == Kept(f, off, n)
           more == Append(recs, r)
<1>1. /\ r \in Records /\ r.off = off /\ Len(r.was) = n
      /\ \A i \in 1 .. n : r.was[i] = f[off + i - 1]
  BY KeptTypes
<1> HIDE DEF r
<1>2. /\ more \in Seq(Records) /\ Len(more) = Len(recs) + 1 /\ Len(recs) \in Nat
      /\ more[Len(recs) + 1] = r /\ \A i \in 1 .. Len(recs) : more[i] = recs[i]
  BY <1>1, AppendProperties, LenProperties
<1> HIDE DEF more
<1>3. ASSUME NEW c \in 0 .. MaxFsiz - 1
      PROVE  Undone(f, more)[c] = Undone(f, recs)[c]
  <2>1. CASE HeldBy(recs, c)
    <3>1. PICK i \in 1 .. Len(recs) :
                 /\ Holds(recs[i], c) /\ \A k \in 1 .. i - 1 : ~Holds(recs[k], c)
                 /\ Undone(f, recs)[c] = recs[i].was[c - recs[i].off + 1]
      BY <2>1, UndoneAt
    <3>2. i \in 1 .. Len(more) /\ more[i] = recs[i]
      BY <1>2
    <3>3. HeldBy(more, c)
      BY <3>1, <3>2 DEF HeldBy
    <3>4. PICK j \in 1 .. Len(more) :
                 /\ Holds(more[j], c) /\ \A k \in 1 .. j - 1 : ~Holds(more[k], c)
                 /\ Undone(f, more)[c] = more[j].was[c - more[j].off + 1]
      BY <1>2, <3>3, UndoneAt
    <3>5. ~(j > i)
      BY <1>2, <3>1, <3>2, <3>4
    <3>6. more[j] = recs[j] /\ j \in 1 .. Len(recs)
      BY <1>2, <3>5
    <3>7. ~(j < i)
      BY <1>2, <3>1, <3>4, <3>6
    <3>8. i = j
      BY <1>2, <3>5, <3>7
    <3> QED
      BY <3>1, <3>4, <3>6, <3>8
  <2>2. CASE ~HeldBy(recs, c) /\ ~HeldBy(more, c)
    BY <1>2, <2>2, UndoneAt
  <2>3. CASE ~HeldBy(recs, c) /\ HeldBy(more, c)
    <3>1. PICK j \in 1 .. Len(more) :
                 /\ Holds(more[j], c)
                 /\ Undone(f, more)[c] = more[j].was[c - more[j].off + 1]
      BY <1>2, <2>3, UndoneAt
    <3>2. more[j] = r
      BY <1>2, <2>3, <3>1 DEF HeldBy
    <3>3. c - off + 1 \in 1 .. n
      BY <1>1, <3>1, <3>2 DEF Holds
    <3>4. r.was[c - off + 1] = f[off + (c - off + 1) - 1]
      BY <1>1, <3>3
    <3>5. off + (c - off + 1) - 1 = c
      BY LogAssumption
    <3> QED
      BY <1>1, <2>3, <3>1, <3>2, <3>4, <3>5, UndoneAt
  <2> QED
    BY <2>1, <2>2, <2>3
<1>4. /\ Undone(f, more) = [c \in 0 .. MaxFsiz - 1 |-> Undone(f, more)[c]]
      /\ Undone(f, recs) = [c \in 0 .. MaxFsiz - 1 |-> Undone(f, recs)[c]]
  BY DEF Undone, FileOK
<1> QED
  BY <1>3, <1>4 DEF more, r

\* A log stays in type when a record of cells that the file had is appended.
LEMMA AppendTypes ==
  ASSUME NEW f, FileOK(f), NEW recs, NEW base \in 0 .. MaxFsiz, RecsOK(recs, base), recs # <<>>,
         NEW off \in Nat, NEW n \in Nat, off >= Bucket, off + n <= base
  PROVE  RecsOK(Append(recs, Kept(f, off, n)), base)
<1> DEFINE r == Kept(f, off, n)
           more == Append(recs, r)
<1>1. r \in Records /\ r.off = off /\ Len(r.was) = n /\ Fitting(r.off, r.was)
  BY KeptTypes, LogAssumption
<1> HIDE DEF r
<1>2. /\ more \in Seq(Records) /\ Len(more) = Len(recs) + 1 /\ Len(recs) \in Nat \ {0}
      /\ more[Len(recs) + 1] = r /\ \A i \in 1 .. Len(recs) : more[i] = recs[i]
  BY <1>1, AppendProperties, EmptySeq DEF RecsOK
<1> HIDE DEF more
<1>3. RecordOK(r, base)
  BY <1>1 DEF RecordOK
<1>4. more[1] = recs[1] /\ more # <<>>
  BY <1>2
<1>5. \A i \in 1 .. Len(more) : RecordOK(more[i], base) /\ (i > 1 => more[i].off >= Bucket)
  BY <1>1, <1>2, <1>3 DEF RecsOK
<1>6. RecsOK(more, base)
  BY <1>2, <1>4, <1>5 DEF RecsOK
<1> QED
  BY <1>6 DEF more, r

\* What is logged stays logged.
LEMMA AppendHeld ==
  ASSUME NEW recs \in Seq(Records), NEW r \in Records, NEW c
  PROVE  HeldBy(Append(recs, r), c) <=> HeldBy(recs, c) \/ Holds(r, c)
<1>1. /\ Len(Append(recs, r)) = Len(recs) + 1 /\ Len(recs) \in Nat
      /\ Append(recs, r)[Len(recs) + 1] = r /\ \A i \in 1 .. Len(recs) : Append(recs, r)[i] = recs[i]
  BY AppendProperties, LenProperties
<1> QED
  BY <1>1 DEF HeldBy

---------------------------------------------------------------------------
(* The invariant holds at first, and every step keeps it *)

LEMMA Initially == Init => Inv
<1> SUFFICES ASSUME Init PROVE Inv
  OBVIOUS
<1> USE DEF Init, NoLog, NoDB, Go
<1>1. FileOK(file)
  BY EmptyTypes
<1>2. LogOK
  BY LogAssumption, EmptySeq DEF LogOK, RecsOK
<1>3. HdbOK /\ PcOK
  BY LogAssumption DEF HdbOK, PcOK, At, Labels
<1>4. TranOK /\ BeginOK /\ RestoreOK
  BY DEF TranOK, BeginOK, RestoreOK, At
<1> QED
  BY <1>1, <1>2, <1>3, <1>4 DEF Inv, Shapes

\* A caller's write begins.
LEMMA WriteInv ==
  ASSUME Inv, At("idle"), UNCHANGED <<file, log>>,
         NEW pool \in {0} \cup Frec .. MaxFsiz - 1, hdb' = [hdb EXCEPT !.fbpool = pool],
         NEW off, NEW buf, NEW next, NEW failed, pc' = Write(off, buf, next, failed),
         StoreOK([at |-> "store", off |-> off, buf |-> buf, next |-> next]),
         off # Bucket => failed.at \in {"idle", "copy", "closing"}
  PROVE  Inv'
<1> DEFINE store == [at |-> "store", off |-> off, buf |-> buf, next |-> next]
<1> USE LogAssumption DEF Inv, Shapes, At
<1>1. FileOK(file)' /\ LogOK' /\ BeginOK' /\ RestoreOK' /\ HdbOK'
  BY DEF LogOK, BeginOK, RestoreOK, Write, HdbOK
<1>2. StoreOK(store)'
  BY DEF StoreOK, HdbOK
<1>3. off \in Nat /\ Len(buf) \in Nat \ {0} /\ off >= Bucket
  BY DEF StoreOK, Fitting, Bucket
<1>4. CASE hdb.tran
  <2>1. pc' = [at |-> "log", off |-> off, n |-> Len(buf), done |-> store,
               failed |-> IF off = Bucket THEN store ELSE failed]
    BY <1>4 DEF Write
  <2>2. LogStepOK'
    BY <1>2, <1>3, <1>4, <2>1 DEF LogStepOK, HdbOK
  <2>3. PcOK' /\ TranOK'
    BY <1>4, <2>1, <2>2 DEF PcOK, Labels, TranOK, InTransaction, Held, Logged, HdbOK
  <2> QED
    BY <1>1, <2>3
<1>5. CASE ~hdb.tran
  <2>1. pc' = store /\ ~hdb'.tran
    BY <1>5 DEF Write, HdbOK
  <2>2. PcOK' /\ TranOK'
    BY <1>2, <2>1 DEF PcOK, Labels, TranOK
  <2> QED
    BY <1>1, <2>2
<1> QED
  BY <1>4, <1>5

LEMMA PutRecordInv == ASSUME Inv, PutRecord PROVE Inv'
<1>1. PICK n \in Lens, off \in Frec .. hdb.fsiz :
        /\ off + n <= MaxFsiz /\ (off < hdb.fsiz => n = 1)
        /\ pc' = Write(off, [i \in 1 .. n |-> 1], Idle, Idle)
        /\ hdb' = [hdb EXCEPT !.fbpool = IF @ = off THEN 0 ELSE @]
  BY DEF PutRecord
<1> DEFINE buf == [i \in 1 .. n |-> 1]
<1>2. n \in Nat \ {0} /\ off \in Nat /\ off >= Frec
  BY LogAssumption DEF Inv, Shapes, HdbOK, Frec
<1>3. buf \in Seq(Nat) /\ Len(buf) = n
  <2>1. buf \in [1 .. n -> Nat]
    OBVIOUS
  <2> QED
    BY <1>2, <2>1, SeqDef, LenProperties
<1>4. Fitting(off, buf)
  BY <1>2, <1>3 DEF Fitting, Fits, Frec, Fsiz, Msiz, Bucket, Flags
<1> HIDE DEF buf
<1>5. StoreOK([at |-> "store", off |-> off, buf |-> buf, next |-> Idle])
  BY <1>1, <1>2, <1>3, <1>4 DEF StoreOK, Bucket, Frec, Idle, Go
<1> DEFINE pool == IF hdb.fbpool = off THEN 0 ELSE hdb.fbpool
<1>6. pool \in {0} \cup Frec .. MaxFsiz - 1
  BY DEF Inv, Shapes, HdbOK
<1>7. hdb' = [hdb EXCEPT !.fbpool = pool] /\ pc' = Write(off, buf, Idle, Idle)
  BY <1>1 DEF buf
<1>8. At("idle") /\ UNCHANGED <<file, log>> /\ Idle.at = "idle"
  BY DEF PutRecord, CanWrite, Idle, Go
<1> HIDE DEF pool
<1> QED
  BY <1>5, <1>6, <1>7, <1>8, WriteInv

LEMMA FreeRecordInv == ASSUME Inv, FreeRecord PROVE Inv'
<1>1. PICK off \in Frec .. hdb.fsiz - 1 :
        pc' = Write(off, <<Free>>, [at |-> "insert", off |-> off], Idle)
  BY DEF FreeRecord
<1>2. StoreOK([at |-> "store", off |-> off, buf |-> <<Free>>, next |-> [at |-> "insert", off |-> off]])
  BY LogAssumption DEF StoreOK, Fitting, Fits, Free, Frec, Fsiz, Msiz, Bucket, Flags, Inv, Shapes, HdbOK
<1> QED
  BY <1>1, <1>2, WriteInv DEF FreeRecord, CanWrite, Idle, Go, Inv, Shapes, HdbOK

LEMMA SetBucketInv == ASSUME Inv, SetBucket PROVE Inv'
<1>1. 1 - file[Bucket] \in {0, 1}
  BY LogAssumption DEF Inv, Shapes, FileOK, Fits, Bucket, Flags
<1>2. hdb.fsiz \in Nat /\ hdb.fsiz > Bucket
  BY LogAssumption DEF Inv, Shapes, HdbOK, Bucket, Frec, SetBucket, CanWrite, At
<1>3. StoreOK([at |-> "store", off |-> Bucket, buf |-> <<1 - file[Bucket]>>, next |-> Idle])
  BY <1>1, <1>2, LogAssumption DEF StoreOK, Fitting, Fits, Frec, Fsiz, Msiz, Bucket, Flags, Idle, Go
<1> QED
  BY <1>3, WriteInv DEF SetBucket, CanWrite, Inv, Shapes, HdbOK

LEMMA CopyInv == ASSUME Inv, Copy PROVE Inv'
<1>1. StoreOK([at |-> "store", off |-> Msiz, buf |-> <<hdb.fbpool>>, next |-> Go("copy")])
  BY LogAssumption DEF StoreOK, Fitting, Fits, Frec, Fsiz, Msiz, Bucket, Flags, Idle, Go, Inv, Shapes, HdbOK
<1> QED
  BY <1>1, WriteInv DEF Copy, CanWrite, Inv, Shapes, HdbOK, Go, Msiz, Bucket

LEMMA CloseInv == ASSUME Inv, Close PROVE Inv'
<1> DEFINE pool == IF hdb.tran THEN 0 ELSE hdb.fbpool
<1>1. pool \in {0} \cup Frec .. MaxFsiz - 1
  BY DEF Inv, Shapes, HdbOK
<1>2. hdb' = [hdb EXCEPT !.fbpool = pool] /\ pc' = Write(Msiz, <<pool>>, Go("closing"), Go("closing"))
  BY DEF Close
<1> HIDE DEF pool
<1>3. StoreOK([at |-> "store", off |-> Msiz, buf |-> <<pool>>, next |-> Go("closing")])
  BY <1>1, LogAssumption DEF StoreOK, Fitting, Fits, Frec, Fsiz, Msiz, Bucket, Flags, Idle, Go, Inv, Shapes, HdbOK
<1> QED
  BY <1>1, <1>2, <1>3, WriteInv DEF Close, Go, Msiz, Bucket

\* The pool in memory changes.
LEMMA InsertBlockInv == ASSUME Inv, InsertBlock PROVE Inv'
<1> USE LogAssumption DEF InsertBlock, Inv, Shapes, At, Idle, Go
<1>1. FileOK(file)' /\ LogOK'
  BY DEF LogOK
<1>2. HdbOK'
  BY DEF HdbOK, PcOK
<1>3. PcOK' /\ TranOK' /\ BeginOK' /\ RestoreOK'
  BY DEF PcOK, TranOK, BeginOK, RestoreOK, Labels, InTransaction, Held, Logged
<1> QED
  BY <1>1, <1>2, <1>3 DEF Inv, Shapes

\* The fields of the object that other lemmas use.
LEMMA HdbTypes ==
  ASSUME HdbOK
  PROVE  /\ hdb.fsiz \in 0 .. MaxFsiz /\ hdb.walend \in 0 .. MaxFsiz /\ hdb.tran \in BOOLEAN
         /\ hdb.flags \in {0, 1} /\ hdb.fbpool \in {0} \cup Frec .. MaxFsiz - 1
BY DEF HdbOK

\* Cells are logged as far as the file reached when the transaction began; what
\* the log brings back stays the same.
LEMMA LogGrown ==
  ASSUME FileOK(file), LogOK, HdbOK, Applicable(log), hdb.walend = log.base, file' = file,
         NEW off \in Nat, NEW n \in Nat, off >= Bucket, log' = WalWritten(off, n)
  PROVE  /\ LogOK' /\ Applicable(log)' /\ log'.base = log.base /\ log'.torn = log.torn
         /\ Logged(off, off + n - 1)' /\ (\A c : Held(c) => Held(c)')
         /\ UndoneFile' = UndoneFile
<1> DEFINE clip == Clip(off, n)
<1> USE LogAssumption
<1>1. /\ log.base \in Frec .. MaxFsiz /\ log.recs # <<>> /\ log.recs \in Seq(Records)
      /\ RecsOK(log.recs, log.base)
  BY DEF LogOK, RecsOK, Applicable
<1>2. clip \in Int /\ clip <= n /\ off + clip <= log.base /\ (clip < n => off + clip = log.base)
  BY <1>1, HdbTypes DEF Clip, Lesser
<1>3. CASE clip < 1
  <2>1. log' = log
    BY <1>3 DEF WalWritten
  <2>2. \A c \in off .. off + n - 1 : ~(c < log.base)
    BY <1>1, <1>2, <1>3
  <2> QED
    BY <1>1, <2>1, <2>2 DEF LogOK, Applicable, Logged, Held, UndoneFile
<1>4. CASE clip >= 1
  <2> DEFINE r == Kept(file, off, clip)
  <2>1. log' = [log EXCEPT !.recs = Append(@, r)]
    BY <1>2, <1>4 DEF WalWritten
  <2>2. /\ r \in Records /\ r.off = off /\ Len(r.was) = clip
    BY <1>1, <1>2, <1>4, KeptTypes
  <2>3. RecsOK(Append(log.recs, r), log.base)
    BY <1>1, <1>2, <1>4, AppendTypes DEF Frec
  <2>4. Undone(file, Append(log.recs, r)) = Undone(file, log.recs)
    BY <1>1, <1>2, <1>4, UndoneAppend
  <2>5. \A c : HeldBy(Append(log.recs, r), c) <=> HeldBy(log.recs, c) \/ Holds(r, c)
    BY <1>1, <2>2, AppendHeld
  <2>6. Append(log.recs, r) # <<>> /\ Append(log.recs, r) \in Seq(Records)
    BY <1>1, <2>2, AppendProperties
  <2> HIDE DEF r, clip
  <2>7. log'.recs = Append(log.recs, r) /\ log'.base = log.base /\ log'.torn = log.torn /\ LogOK'
    BY <2>1, <2>3, <2>6 DEF LogOK
  <2>8. Logged(off, off + n - 1)'
    BY <1>1, <1>2, <2>2, <2>5, <2>7 DEF Logged, Held, Holds
  <2> QED
    BY <2>4, <2>5, <2>6, <2>7, <2>8 DEF Applicable, Held, UndoneFile
<1> QED
  BY <1>2, <1>3, <1>4

\* A write is logged, or its log record fails.
LEMMA LogWriteInv == ASSUME Inv, LogWrite PROVE Inv'
<1> USE LogAssumption DEF At
<1>1. LogStepOK /\ pc.at = "log" /\ file' = file /\ FileOK(file) /\ LogOK /\ HdbOK
  BY DEF LogWrite, Inv, Shapes, PcOK
<1>2. /\ hdb.tran /\ Applicable(log) /\ hdb.walend = log.base /\ hdb.walfd
      /\ file[Fsiz] = hdb.fsiz /\ Logged(hdb.fsiz, MaxFsiz)
  BY <1>1 DEF Inv, TranOK, LogStepOK, InTransaction
<1>3. ASSUME log' = WalWritten(pc.off, pc.n), pc' = pc.done, hdb' = hdb
      PROVE  Inv'
  <2>1. PICK a, m : a = pc.off /\ m = pc.n
    OBVIOUS
  <2>2. /\ LogOK' /\ Applicable(log)' /\ log'.base = log.base
        /\ Logged(a, a + m - 1)' /\ (\A c : Held(c) => Held(c)')
    BY <1>1, <1>2, <1>3, <2>1, LogGrown DEF LogStepOK
  <2>3. Logged(hdb.fsiz, MaxFsiz)'
    BY <1>2, <1>3, <2>2 DEF Logged, Held
  <2>4. CASE StoreOK(pc.done) /\ pc.off = pc.done.off /\ pc.n = Len(pc.done.buf)
    <3>1. StoreOK(pc)' /\ pc'.at = "store" /\ Logged(pc.off, pc.off + Len(pc.buf) - 1)'
      BY <1>3, <2>1, <2>2, <2>4 DEF StoreOK, Logged
    <3>2. HdbOK' /\ TranOK'
      BY <1>1, <1>2, <1>3, <2>2, <2>3, <3>1 DEF HdbOK, TranOK, InTransaction
    <3> QED
      BY <1>1, <1>2, <1>3, <2>2, <2>3, <3>1, <3>2
      DEF Inv, Shapes, PcOK, HdbOK, Labels, TranOK, InTransaction, BeginOK, RestoreOK
  <2>5. CASE ResizeOK(pc.done) /\ pc.off = pc.done.fsiz /\ pc.n = 1 /\ pc.off = hdb.fsiz - 1
    <3>1. ResizeOK(pc)' /\ pc'.at = "resize" /\ Logged(pc.fsiz, MaxFsiz)'
      BY <1>1, <1>3, <2>1, <2>2, <2>3, <2>5, HdbTypes DEF ResizeOK, Logged
    <3>2. HdbOK' /\ TranOK'
      BY <1>1, <1>2, <1>3, <2>2, <2>3, <3>1 DEF HdbOK, TranOK, InTransaction
    <3> QED
      BY <1>1, <1>2, <1>3, <2>2, <2>3, <3>1, <3>2
      DEF Inv, Shapes, PcOK, HdbOK, Labels, TranOK, InTransaction, BeginOK, RestoreOK
  <2> QED
    BY <1>1, <2>4, <2>5 DEF LogStepOK
<1>4. ASSUME (IF pc.off = Bucket THEN "bucket" ELSE "file") \in LogFails,
             hdb' = [hdb EXCEPT !.fatal = TRUE], pc' = pc.failed, log' = log
      PROVE  Inv'
  <2>1. pc'.at # "down"
    BY <1>1, <1>4 DEF LogStepOK, StoreOK, ResizeOK
  <2>2. HdbOK' /\ LogOK' /\ hdb'.tran = hdb.tran /\ hdb'.fsiz = hdb.fsiz /\ hdb'.walend = hdb.walend
        /\ hdb'.walfd = hdb.walfd
    BY <1>1, <1>4, <2>1 DEF HdbOK, LogOK
  <2>3. CASE pc.off # Bucket
    <3>1. pc'.at \in {"idle", "copy", "closing"}
      BY <1>1, <1>4, <2>3 DEF LogStepOK
    <3> QED
      BY <1>1, <1>2, <1>4, <2>2, <3>1
      DEF Inv, Shapes, PcOK, Labels, TranOK, InTransaction, BeginOK, RestoreOK, Logged, Held, Applicable
  <2>4. CASE pc.off = Bucket
    <3>1. pc' = pc.done /\ StoreOK(pc.done) /\ pc.done.off = Bucket /\ "bucket" \in LogFails
      BY <1>1, <1>4, <2>4, HdbTypes DEF LogStepOK, ResizeOK, Bucket, Frec
    <3>2. pc'.at = "store" /\ pc'.off = Bucket /\ StoreOK(pc)'
      BY <2>2, <3>1 DEF StoreOK
    <3> QED
      BY <1>1, <1>2, <1>4, <2>2, <3>1, <3>2
      DEF Inv, Shapes, PcOK, Labels, TranOK, InTransaction, BeginOK, RestoreOK, Logged, Held, Applicable
  <2> QED
    BY <2>3, <2>4
<1> QED
  BY <1>3, <1>4 DEF LogWrite

\* The file is written.
LEMMA StoreInv == ASSUME Inv, Store PROVE Inv'
<1> USE LogAssumption DEF At
<1>1. /\ StoreOK(pc) /\ pc.at = "store" /\ log' = log /\ hdb' = hdb /\ FileOK(file) /\ LogOK /\ HdbOK
      /\ file' = Written(file, pc.off, pc.buf) /\ Fitting(pc.off, pc.buf)
  BY DEF Store, Inv, Shapes, PcOK, StoreOK
<1>2. FileOK(file)'
  BY <1>1, WrittenTypes
<1>3. file'[Fsiz] = file[Fsiz]
  BY <1>1 DEF Written, FileOK, StoreOK, Fitting, Fsiz, Bucket
<1>4. hdb.tran => /\ Applicable(log) /\ hdb.walend = log.base /\ hdb.walfd
                  /\ file[Fsiz] = hdb.fsiz /\ Logged(hdb.fsiz, MaxFsiz)
  BY <1>1 DEF Inv, TranOK, InTransaction
<1>5. LogOK' /\ Applicable(log)' = Applicable(log)
  BY <1>1 DEF LogOK, Applicable
<1>6. CASE pc.off + Len(pc.buf) > hdb.fsiz
  <2>1. pc' = [at |-> "resize", fsiz |-> pc.off + Len(pc.buf)]
    BY <1>6 DEF Store
  <2>2. ResizeOK(pc)' /\ (hdb.tran => Logged(pc.fsiz, MaxFsiz)')
    BY <1>1, <1>4, <1>6, <2>1, HdbTypes DEF ResizeOK, StoreOK, Fitting, Logged, Held, Bucket, Frec, HdbOK
  <2> QED
    BY <1>1, <1>2, <1>3, <1>4, <1>5, <2>1, <2>2
    DEF Inv, Shapes, HdbOK, PcOK, Labels, TranOK, InTransaction, BeginOK, RestoreOK, Logged, Held
<1>7. CASE ~(pc.off + Len(pc.buf) > hdb.fsiz)
  <2>1. pc' = pc.next
    BY <1>7 DEF Store
  <2>2. pc'.at \in {"idle", "insert", "copy", "closing"} /\ (pc'.at = "insert" => pc'.off \in Frec .. hdb.fsiz - 1)
    BY <1>1, <2>1 DEF StoreOK
  <2> QED
    BY <1>1, <1>2, <1>3, <1>4, <1>5, <2>2
    DEF Inv, Shapes, HdbOK, PcOK, Labels, TranOK, InTransaction, BeginOK, RestoreOK, Logged, Held
<1> QED
  BY <1>6, <1>7

\* The end of the file moves.
LEMMA ResizeInv == ASSUME Inv, Resize PROVE Inv'
<1> USE LogAssumption DEF At
<1>1. /\ ResizeOK(pc) /\ pc.at = "resize" /\ log' = log /\ pc' = Idle /\ FileOK(file) /\ LogOK /\ HdbOK
      /\ hdb' = [hdb EXCEPT !.fsiz = pc.fsiz] /\ pc.fsiz \in Frec .. MaxFsiz
  BY DEF Resize, Inv, Shapes, PcOK, ResizeOK
<1> DEFINE f == [file EXCEPT ![Fsiz] = pc.fsiz]
<1>2. FileOK(f) /\ FileOK(Truncated(f, pc.fsiz))
  BY <1>1, HeaderTypes
<1>3. FileOK(file)' /\ file'[Fsiz] = pc.fsiz
  <2>1. f[Fsiz] = pc.fsiz /\ Truncated(f, pc.fsiz)[Fsiz] = pc.fsiz
    BY <1>1 DEF FileOK, Truncated, Fsiz, Frec
  <2>2. file' = f \/ file' = Truncated(f, pc.fsiz)
    BY DEF Resize
  <2> HIDE DEF f
  <2> QED
    BY <1>2, <2>1, <2>2
<1> HIDE DEF f
<1>4. HdbOK' /\ hdb'.tran = hdb.tran /\ hdb'.walend = hdb.walend /\ hdb'.walfd = hdb.walfd /\ hdb'.fsiz = pc.fsiz
  BY <1>1 DEF HdbOK, Idle, Go, Frec
<1>5. hdb.tran => Applicable(log) /\ hdb.walend = log.base /\ hdb.walfd /\ Logged(pc.fsiz, MaxFsiz)
  BY <1>1 DEF Inv, TranOK
<1>6. TranOK'
  BY <1>1, <1>3, <1>4, <1>5 DEF TranOK, Idle, Go, Applicable, Logged, Held
<1> QED
  BY <1>1, <1>3, <1>4, <1>6 DEF Inv, Shapes, LogOK, PcOK, Labels, BeginOK, RestoreOK, Idle, Go

\* The last block of the file is about to be cut off.
LEMMA CutTailInv == ASSUME Inv, CutTail PROVE Inv'
<1> USE LogAssumption DEF At
<1> DEFINE dest == hdb.fsiz - 1
           cut == [at |-> "resize", fsiz |-> dest]
<1>1. /\ pc.at = "idle" /\ dest >= Frec /\ file' = file /\ log' = log /\ FileOK(file) /\ LogOK /\ HdbOK
      /\ hdb' = [hdb EXCEPT !.fbpool = IF @ = dest THEN 0 ELSE @]
      /\ pc' = IF hdb.tran
               THEN [at |-> "log", off |-> dest, n |-> 1, done |-> cut, failed |-> Idle]
               ELSE cut
  BY DEF CutTail, CanWrite, Inv, Shapes
<1>2. HdbOK' /\ hdb'.tran = hdb.tran /\ hdb'.walend = hdb.walend /\ hdb'.walfd = hdb.walfd /\ hdb'.fsiz = hdb.fsiz
  BY <1>1 DEF HdbOK
<1>3. ResizeOK(cut)'
  BY <1>1, <1>2, HdbTypes DEF ResizeOK, Frec
<1>4. CASE hdb.tran
  <2>1. pc' = [at |-> "log", off |-> dest, n |-> 1, done |-> cut, failed |-> Idle]
    BY <1>1, <1>4
  <2>2. LogStepOK'
    BY <1>1, <1>2, <1>3, <1>4, <2>1, HdbTypes DEF LogStepOK, Idle, Go, Bucket, Frec
  <2> QED
    BY <1>1, <1>2, <2>1, <2>2
    DEF Inv, Shapes, LogOK, PcOK, Labels, TranOK, InTransaction, BeginOK, RestoreOK, Applicable, Logged, Held
<1>5. CASE ~hdb.tran
  BY <1>1, <1>2, <1>3, <1>5
  DEF Inv, Shapes, LogOK, PcOK, Labels, TranOK, BeginOK, RestoreOK
<1> QED
  BY <1>4, <1>5

\* The header is written out of memory.
LEMMA MemSyncedTypes ==
  ASSUME FileOK(file), HdbOK, ~At("down"), NEW flag \in {0, 1}
  PROVE  /\ FileOK(MemSynced(flag)) /\ MemSynced(flag)[Fsiz] = hdb.fsiz /\ MemSynced(flag)[Flags] = flag
         /\ \A c \in 0 .. MaxFsiz - 1 : c >= Bucket => MemSynced(flag)[c] = file[c]
<1>1. hdb.fsiz \in Frec .. MaxFsiz
  BY HdbTypes DEF HdbOK, Frec
<1>2. FileOK(MemSynced(flag))
  BY <1>1, HeaderTypes DEF MemSynced
<1> QED
  BY <1>2, LogAssumption DEF MemSynced, FileOK, Flags, Fsiz, Bucket

LEMMA NoLogTypes == ASSUME log' = NoLog PROVE LogOK' /\ ~Applicable(log)'
BY LogAssumption, EmptySeq DEF LogOK, NoLog, RecsOK, Applicable

\* A transaction begins.
LEMMA TranBeginInv == ASSUME Inv, TranBegin PROVE Inv'
<1> USE LogAssumption DEF At, Idle, Go, Labels
<1>1. /\ pc.at = "idle" /\ ~hdb.tran /\ pc' = Go("unflag") /\ FileOK(file) /\ LogOK /\ HdbOK
      /\ file' = MemSynced(hdb.flags) /\ log' \in {log, NoLog} /\ hdb' = [hdb EXCEPT !.walfd = TRUE]
  BY DEF TranBegin, Inv, Shapes
<1>2. FileOK(file)' /\ file'[Fsiz] = hdb.fsiz
  BY <1>1, MemSyncedTypes, HdbTypes
<1>3. HdbOK' /\ hdb'.walfd /\ ~hdb'.tran /\ hdb'.fsiz = hdb.fsiz
  BY <1>1 DEF HdbOK
<1>4. LogOK'
  BY <1>1, NoLogTypes DEF LogOK
<1> QED
  BY <1>1, <1>2, <1>3, <1>4 DEF Inv, Shapes, PcOK, TranOK, BeginOK, RestoreOK

LEMMA BeginUnflagInv == ASSUME Inv, BeginUnflag PROVE Inv'
<1> USE LogAssumption DEF At, Idle, Go, Labels
<1>1. /\ pc.at = "unflag" /\ ~hdb.tran /\ pc' = Go("waltrunc") /\ FileOK(file) /\ LogOK /\ HdbOK
      /\ file' = [file EXCEPT ![Flags] = 0] /\ log' = log /\ hdb' = [hdb EXCEPT !.flags = 0]
      /\ file[Fsiz] = hdb.fsiz /\ hdb.walfd
  BY DEF BeginUnflag, SetFlag, Inv, Shapes, TranOK, BeginOK
<1>2. FileOK(file)'
  BY <1>1, FlagTypes
<1>3. file'[Fsiz] = hdb.fsiz /\ file'[Flags] = 0
  BY <1>1 DEF FileOK, Fsiz, Flags
<1>4. HdbOK' /\ hdb'.walfd /\ ~hdb'.tran /\ hdb'.fsiz = hdb.fsiz
  BY <1>1 DEF HdbOK
<1> QED
  BY <1>1, <1>2, <1>3, <1>4 DEF Inv, Shapes, LogOK, PcOK, TranOK, BeginOK, RestoreOK

LEMMA WalTruncateInv == ASSUME Inv, WalTruncate PROVE Inv'
<1> USE LogAssumption DEF At, Idle, Go, Labels
<1>1. LogOK'
  BY NoLogTypes DEF WalTruncate
<1> QED
  BY <1>1 DEF WalTruncate, NoLog, Inv, Shapes, HdbOK, PcOK, TranOK, BeginOK, RestoreOK

LEMMA WalSizeInv == ASSUME Inv, WalSize PROVE Inv'
<1> USE LogAssumption DEF At, Idle, Go, Labels
<1>1. /\ pc.at = "walsize" /\ ~hdb.tran /\ file' = file /\ FileOK(file) /\ LogOK /\ HdbOK
      /\ log.recs = <<>> /\ file[Fsiz] = hdb.fsiz /\ hdb.walfd /\ file[Flags] = 0
  BY DEF WalSize, Inv, Shapes, TranOK, BeginOK
<1>2. CASE /\ log' = [log EXCEPT !.base = hdb.fsiz]
           /\ hdb' = [hdb EXCEPT !.walend = hdb.fsiz] /\ pc' = Go("walhead")
  <2>1. LogOK' /\ log'.recs = <<>> /\ log'.base = hdb.fsiz
    BY <1>1, <1>2, HdbTypes, EmptySeq DEF LogOK, RecsOK
  <2>2. HdbOK' /\ hdb'.walend = hdb.fsiz /\ hdb'.fsiz = hdb.fsiz /\ hdb'.walfd /\ ~hdb'.tran
    BY <1>1, <1>2 DEF HdbOK
  <2> QED
    BY <1>1, <1>2, <2>1, <2>2 DEF Inv, Shapes, PcOK, TranOK, BeginOK, RestoreOK
<1>3. CASE pc' = Go("notbegun") /\ hdb' = [hdb EXCEPT !.fatal = TRUE] /\ UNCHANGED log
  <2>1. HdbOK' /\ ~hdb'.tran
    BY <1>1, <1>3 DEF HdbOK
  <2> QED
    BY <1>1, <1>3, <2>1 DEF Inv, Shapes, LogOK, PcOK, TranOK, BeginOK, RestoreOK
<1> QED
  BY <1>2, <1>3 DEF WalSize

\* The record of the header is the first one.
LEMMA WalHeadInv == ASSUME Inv, WalHead PROVE Inv'
<1> USE LogAssumption DEF At, Idle, Go, Labels
<1>1. /\ pc.at = "walhead" /\ ~hdb.tran /\ file' = file /\ FileOK(file) /\ LogOK /\ HdbOK
      /\ log.recs = <<>> /\ file[Fsiz] = hdb.fsiz /\ hdb.walfd /\ file[Flags] = 0
      /\ log.base = hdb.fsiz /\ hdb.walend = hdb.fsiz
  BY DEF WalHead, Inv, Shapes, TranOK, BeginOK
<1>2. CASE log' = HeadLogged(log) /\ pc' = Go("begun") /\ UNCHANGED hdb
  <2> DEFINE r == Kept(file, 0, HeadSize)
  <2>1. /\ r \in Records /\ r.off = 0 /\ Len(r.was) = HeadSize /\ Fitting(r.off, r.was)
        /\ r.was[1] = file[0 + 1 - 1] /\ r.was[2] = file[0 + 2 - 1]
    <3>1. PICK off \in Nat, n \in Nat : off = 0 /\ n = HeadSize /\ off + n <= MaxFsiz
      BY DEF HeadSize
    <3>2. /\ r \in Records /\ r.off = off /\ Len(r.was) = n /\ Fitting(off, r.was)
          /\ \A i \in 1 .. n : r.was[i] = file[off + i - 1]
      BY <1>1, <3>1, KeptTypes
    <3> HIDE DEF r
    <3> QED
      BY <3>1, <3>2 DEF HeadSize
  <2> HIDE DEF r
  <2>2. /\ log.recs \in Seq(Records) /\ Len(log.recs) = 0
    BY <1>1, EmptySeq
  <2>3. Append(log.recs, r) \in Seq(Records) /\ Len(Append(log.recs, r)) = 1 /\ Append(log.recs, r)[1] = r
        /\ Append(log.recs, r) # <<>>
    BY <2>1, <2>2, AppendProperties
  <2>4. IsHeader(r, log.base) /\ RecordOK(r, log.base) /\ log.base >= Frec
    BY <1>1, <2>1, HdbTypes DEF IsHeader, RecordOK, HdbOK, HeadSize, Flags, Fsiz, Frec
  <2>5. log' = [log EXCEPT !.recs = Append(@, r)]
    BY <1>2 DEF HeadLogged, r
  <2>6. LogOK' /\ Len(log'.recs) = 1 /\ log'.base = log.base
    <3>1. RecsOK(Append(log.recs, r), log.base)
      BY <2>3, <2>4 DEF RecsOK
    <3>2. log'.recs = Append(log.recs, r) /\ log'.base = log.base /\ log'.torn = log.torn
          /\ log' \in [base : -1 .. MaxFsiz, recs : Seq(Records), torn : BOOLEAN]
      BY <1>1, <2>3, <2>5 DEF LogOK
    <3> QED
      BY <2>3, <3>1, <3>2 DEF LogOK
  <2> QED
    BY <1>1, <1>2, <2>6 DEF Inv, Shapes, HdbOK, PcOK, TranOK, BeginOK, RestoreOK
<1>3. CASE pc' = Go("notbegun") /\ hdb' = [hdb EXCEPT !.fatal = TRUE] /\ UNCHANGED log
  <2>1. HdbOK' /\ ~hdb'.tran
    BY <1>1, <1>3 DEF HdbOK
  <2> QED
    BY <1>1, <1>3, <2>1 DEF Inv, Shapes, LogOK, PcOK, TranOK, BeginOK, RestoreOK
<1> QED
  BY <1>2, <1>3 DEF WalHead

LEMMA BeginDoneInv == ASSUME Inv, BeginDone PROVE Inv'
<1> USE LogAssumption DEF At, Idle, Go, Labels
<1>1. /\ pc.at \in {"begun", "notbegun"} /\ ~hdb.tran /\ pc' = Idle /\ FileOK(file) /\ LogOK /\ HdbOK
      /\ file' = [file EXCEPT ![Flags] = 1] /\ log' = log
      /\ hdb' = [hdb EXCEPT !.flags = 1, !.tran = (pc.at = "begun")]
  BY DEF BeginDone, Inv, Shapes, TranOK
<1>2. FileOK(file)'
  BY <1>1, FlagTypes
<1>3. file'[Fsiz] = file[Fsiz]
  BY <1>1 DEF FileOK, Fsiz, Flags
<1>4. HdbOK' /\ hdb'.walfd = hdb.walfd /\ hdb'.fsiz = hdb.fsiz /\ hdb'.walend = hdb.walend /\ hdb'.tran = (pc.at = "begun")
  BY <1>1 DEF HdbOK
<1>5. TranOK'
  <2>1. CASE pc.at = "begun"
    <3>1. Applicable(log) /\ hdb.walend = log.base /\ hdb.walfd /\ file[Fsiz] = hdb.fsiz /\ log.base = hdb.fsiz
      BY <2>1, EmptySeq DEF Inv, BeginOK, Applicable
    <3>2. Logged(hdb.fsiz, MaxFsiz)'
      BY <1>1, <1>4, <3>1, HdbTypes DEF Logged
    <3> QED
      BY <1>1, <1>3, <1>4, <3>1, <3>2 DEF TranOK, Applicable, InTransaction
  <2>2. CASE pc.at # "begun"
    BY <1>4, <2>2 DEF TranOK
  <2> QED
    BY <2>1, <2>2
<1> QED
  BY <1>1, <1>2, <1>4, <1>5 DEF Inv, Shapes, LogOK, PcOK, BeginOK, RestoreOK

LEMMA TranCommitInv == ASSUME Inv, TranCommit PROVE Inv'
<1> USE LogAssumption DEF At, Idle, Go, Labels
<1>1. /\ pc.at = "idle" /\ pc' = pc /\ FileOK(file) /\ LogOK /\ HdbOK /\ file' = MemSynced(hdb.flags)
      /\ log' \in {log, NoLog} /\ hdb' \in {[hdb EXCEPT !.tran = FALSE], [hdb EXCEPT !.tran = FALSE, !.fatal = TRUE]}
  BY DEF TranCommit, Inv, Shapes
<1>2. FileOK(file)'
  BY <1>1, MemSyncedTypes, HdbTypes
<1>3. HdbOK' /\ ~hdb'.tran
  BY <1>1 DEF HdbOK
<1>4. LogOK'
  BY <1>1, NoLogTypes DEF LogOK
<1> QED
  BY <1>1, <1>2, <1>3, <1>4 DEF Inv, Shapes, PcOK, TranOK, BeginOK, RestoreOK

LEMMA TranVoidInv == ASSUME Inv, TranVoid PROVE Inv'
<1> USE LogAssumption DEF At, Idle, Go, Labels
<1>1. /\ pc.at = "idle" /\ UNCHANGED <<file, log, pc>> /\ FileOK(file) /\ LogOK /\ HdbOK
      /\ hdb' = [hdb EXCEPT !.tran = FALSE]
  BY DEF TranVoid, Inv, Shapes
<1>2. HdbOK' /\ ~hdb'.tran
  BY <1>1 DEF HdbOK
<1> QED
  BY <1>1, <1>2 DEF Inv, Shapes, LogOK, PcOK, TranOK, BeginOK, RestoreOK

\* A restoration begins with the last record.
LEMMA UndoBegun ==
  ASSUME LogOK, Applicable(log), log' = log, NEW at, pc' = Undo(Go(at)),
         at \in IF hdb'.tran THEN {"aborted", "unlink"} ELSE {"reload", "loadfbp"}
  PROVE  /\ pc'.at = "undo" /\ UndoOK' /\ pc'.n = Len(log.recs) /\ pc'.next.at = at
         /\ \A c \in 0 .. MaxFsiz - 1 :
              Held(c)' /\ (\A i \in 1 .. pc'.n : ~Holds(log'.recs[i], c)) => file'[c] = UndoneFile'[c]
BY LenProperties DEF LogOK, RecsOK, Undo, Go, UndoOK, Applicable, Held, HeldBy

LEMMA TranAbortInv == ASSUME Inv, TranAbort PROVE Inv'
<1> USE LogAssumption DEF At, Idle, Labels
<1>1. /\ pc.at = "idle" /\ pc' = Undo(Go("aborted")) /\ FileOK(file) /\ LogOK /\ HdbOK
      /\ file' = MemSynced(hdb.flags) /\ log' = log /\ hdb' = hdb /\ hdb.tran
      /\ Applicable(log) /\ hdb.walend = log.base /\ hdb.walfd
  BY DEF TranAbort, Inv, Shapes, TranOK
<1>2. FileOK(file)'
  BY <1>1, MemSyncedTypes, HdbTypes
<1>3. /\ pc'.at = "undo" /\ UndoOK'
      /\ \A c \in 0 .. MaxFsiz - 1 :
              Held(c)' /\ (\A i \in 1 .. pc'.n : ~Holds(log'.recs[i], c)) => file'[c] = UndoneFile'[c]
  BY <1>1, UndoBegun
<1>4. HdbOK' /\ LogOK' /\ PcOK'
  BY <1>1, <1>3 DEF HdbOK, LogOK, PcOK
<1>5. TranOK' /\ BeginOK' /\ RestoreOK'
  BY <1>1, <1>3 DEF TranOK, BeginOK, RestoreOK, InTransaction, Applicable
<1> QED
  BY <1>2, <1>4, <1>5 DEF Inv, Shapes

LEMMA AbortDoneInv == ASSUME Inv, AbortDone PROVE Inv'
<1> USE LogAssumption DEF At, Idle, Go, Labels
<1>1. /\ pc.at = "aborted" /\ pc' = Idle /\ FileOK(file) /\ LogOK /\ HdbOK /\ UNCHANGED <<file, log>>
      /\ hdb' = [hdb EXCEPT !.flags = file[Flags], !.fsiz = file[Fsiz], !.fbpool = 0, !.tran = FALSE]
  BY DEF AbortDone, Reloaded, LoadMeta, Inv, Shapes
<1>2. file[Flags] \in {0, 1} /\ file[Fsiz] \in Frec .. MaxFsiz /\ file[Fsiz] \in 0 .. MaxFsiz
  BY <1>1 DEF FileOK, Fits, Flags, Fsiz, Frec, Bucket
<1>3. HdbOK' /\ ~hdb'.tran
  <2>1. DOMAIN hdb = {"flags", "fsiz", "tran", "fatal", "walfd", "walend", "fbpool"}
    BY <1>1 DEF HdbOK
  <2>2. /\ hdb'.flags = file[Flags] /\ hdb'.fsiz = file[Fsiz] /\ hdb'.fbpool = 0 /\ hdb'.tran = FALSE
        /\ hdb'.fatal = hdb.fatal /\ hdb'.walfd = hdb.walfd /\ hdb'.walend = hdb.walend
    BY <1>1, <2>1
  <2>3. hdb' \in [flags : {0, 1}, fsiz : 0 .. MaxFsiz, tran : BOOLEAN, fatal : BOOLEAN,
              walfd : BOOLEAN, walend : 0 .. MaxFsiz, fbpool : {0} \cup Frec .. MaxFsiz - 1]
    BY <1>1, <1>2 DEF HdbOK, Frec
  <2>4. hdb'.fsiz >= Frec /\ pc'.at # "down"
    BY <1>1, <1>2, <2>2 DEF Frec
  <2> QED
    BY <2>2, <2>3, <2>4 DEF HdbOK
<1> QED
  BY <1>1, <1>3 DEF Inv, Shapes, LogOK, PcOK, TranOK, BeginOK, RestoreOK

LEMMA CopyUnflagInv == ASSUME Inv, CopyUnflag PROVE Inv'
<1> USE LogAssumption DEF At, Idle, Go, Labels
<1>1. /\ pc.at = "copy" /\ pc' = Go("copied") /\ FileOK(file) /\ LogOK /\ HdbOK /\ log' = log
      /\ file' = [MemSynced(hdb.flags) EXCEPT ![Flags] = 0] /\ hdb' = [hdb EXCEPT !.flags = 0]
  BY DEF CopyUnflag, Inv, Shapes
<1>2. FileOK(MemSynced(hdb.flags)) /\ MemSynced(hdb.flags)[Fsiz] = hdb.fsiz
  BY <1>1, MemSyncedTypes, HdbTypes
<1>3. FileOK(file)'
  BY <1>1, <1>2, FlagTypes
<1>4. file'[Fsiz] = hdb.fsiz
  BY <1>1, <1>2 DEF FileOK, Fsiz, Flags
<1>5. HdbOK' /\ hdb'.walfd = hdb.walfd /\ hdb'.fsiz = hdb.fsiz /\ hdb'.walend = hdb.walend /\ hdb'.tran = hdb.tran
  BY <1>1 DEF HdbOK
<1>6. TranOK'
  BY <1>1, <1>4, <1>5 DEF Inv, TranOK, InTransaction, Applicable, Logged, Held
<1> QED
  BY <1>1, <1>3, <1>5, <1>6 DEF Inv, Shapes, LogOK, PcOK, BeginOK, RestoreOK

\* The flag alone is set.
LEMMA SetFlagInv ==
  ASSUME Inv, At("copied") \/ At("flag"), SetFlag(TRUE), pc' = Idle, UNCHANGED log
  PROVE  Inv'
<1> USE LogAssumption DEF At, Idle, Go, Labels
<1>1. /\ pc.at \in {"copied", "flag"} /\ FileOK(file) /\ LogOK /\ HdbOK /\ log' = log
      /\ file' = [file EXCEPT ![Flags] = 1] /\ hdb' = [hdb EXCEPT !.flags = 1]
  BY DEF SetFlag, Inv, Shapes
<1>2. FileOK(file)' /\ file'[Fsiz] = file[Fsiz]
  BY <1>1, FlagTypes DEF FileOK, Fsiz, Flags
<1>3. HdbOK' /\ hdb'.walfd = hdb.walfd /\ hdb'.fsiz = hdb.fsiz /\ hdb'.walend = hdb.walend /\ hdb'.tran = hdb.tran
  BY <1>1 DEF HdbOK
<1>4. TranOK'
  BY <1>1, <1>2, <1>3 DEF Inv, TranOK, InTransaction, Applicable, Logged, Held
<1> QED
  BY <1>1, <1>2, <1>3, <1>4 DEF Inv, Shapes, LogOK, PcOK, BeginOK, RestoreOK

LEMMA CloseUnflagInv == ASSUME Inv, CloseUnflag PROVE Inv'
<1> USE LogAssumption DEF At, Idle, Go, Labels
<1>1. /\ pc.at = "closing" /\ pc' = Go("cut") /\ FileOK(file) /\ LogOK /\ HdbOK /\ log' = log
      /\ file' = MemSynced(0) /\ hdb' = [hdb EXCEPT !.flags = 0]
  BY DEF CloseUnflag, Inv, Shapes
<1>2. FileOK(file)' /\ file'[Fsiz] = hdb.fsiz /\ file'[Flags] = 0
  BY <1>1, MemSyncedTypes, HdbTypes
<1>3. HdbOK' /\ hdb'.walfd = hdb.walfd /\ hdb'.fsiz = hdb.fsiz /\ hdb'.walend = hdb.walend /\ hdb'.tran = hdb.tran
  BY <1>1 DEF HdbOK
<1>4. TranOK'
  BY <1>1, <1>2, <1>3 DEF Inv, TranOK, InTransaction, Applicable, Logged, Held
<1> QED
  BY <1>1, <1>2, <1>3, <1>4 DEF Inv, Shapes, LogOK, PcOK, BeginOK, RestoreOK

LEMMA CloseTruncateInv == ASSUME Inv, CloseTruncate PROVE Inv'
<1> USE LogAssumption DEF At, Idle, Labels
<1>1. /\ pc.at = "cut" /\ FileOK(file) /\ LogOK /\ HdbOK /\ log' = log /\ hdb' = hdb
      /\ file' = Truncated(file, hdb.fsiz) /\ file[Flags] = 0 /\ hdb.fsiz \in Frec .. MaxFsiz
      /\ pc' = IF hdb.tran THEN Undo(Go("unlink")) ELSE Go("unlink")
  BY HdbTypes DEF CloseTruncate, Inv, Shapes, RestoreOK, HdbOK
<1>2. FileOK(file)' /\ file'[Flags] = 0
  <2>1. FileOK(file)'
    BY <1>1, HeaderTypes
  <2> QED
    BY <1>1, <2>1 DEF Truncated, FileOK, Flags
<1>3. CASE hdb.tran
  <2>1. Applicable(log) /\ hdb.walend = log.base /\ hdb.walfd
    BY <1>3 DEF Inv, TranOK
  <2>2. /\ pc'.at = "undo" /\ UndoOK'
        /\ \A c \in 0 .. MaxFsiz - 1 :
             Held(c)' /\ (\A i \in 1 .. pc'.n : ~Holds(log'.recs[i], c)) => file'[c] = UndoneFile'[c]
    BY <1>1, <1>3, <2>1, UndoBegun
  <2>3. HdbOK' /\ LogOK' /\ PcOK'
    BY <1>1, <2>2 DEF HdbOK, LogOK, PcOK
  <2>4. TranOK' /\ BeginOK' /\ RestoreOK'
    BY <1>1, <1>3, <2>1, <2>2 DEF TranOK, BeginOK, RestoreOK, InTransaction, Applicable
  <2> QED
    BY <1>2, <2>3, <2>4 DEF Inv, Shapes
<1>4. CASE ~hdb.tran
  BY <1>1, <1>2, <1>4 DEF Go, Inv, Shapes, HdbOK, LogOK, PcOK, TranOK, BeginOK, RestoreOK
<1> QED
  BY <1>3, <1>4

LEMMA CloseDoneInv == ASSUME Inv, CloseDone PROVE Inv'
<1> USE LogAssumption DEF At, Idle, Go, Labels
<1>1. FileOK(file)' /\ LogOK'
  BY NoLogTypes DEF CloseDone, Inv, Shapes, LogOK
<1>2. HdbOK' /\ ~hdb'.tran
  BY DEF HdbOK, NoDB, CloseDone
<1> QED
  BY <1>1, <1>2 DEF CloseDone, Inv, Shapes, PcOK, TranOK, BeginOK, RestoreOK

\* The file after the restoration of the n-th record of the log of f.
Back(f, n) == Written(f, log.recs[n].off, log.recs[n].was)

\* What only the records from the n-th on hold is as the log says.
BackFrom(f, n) ==
  \A c \in 0 .. MaxFsiz - 1 :
    Held(c) /\ (\A i \in 1 .. n - 1 : ~Holds(log.recs[i], c)) => f[c] = Undone(f, log.recs)[c]

\* Restoring a record changes nothing that the log brings back, and brings its
\* own cells nearer to it.
LEMMA RecordBack ==
  ASSUME FileOK(file), LogOK, NEW n \in 1 .. Len(log.recs)
  PROVE  /\ FileOK(Back(file, n)) /\ Undone(Back(file, n), log.recs) = Undone(file, log.recs)
         /\ BackFrom(file, n + 1) => BackFrom(Back(file, n), n)
         /\ n > 1 => Back(file, n)[Flags] = file[Flags]
<1> DEFINE r == log.recs[n]
           g == Back(file, n)
<1>1. /\ log.recs \in Seq(Records) /\ Len(log.recs) \in Nat
      /\ r \in Records /\ RecordOK(r, log.base) /\ (n > 1 => r.off >= Bucket)
  BY LenProperties DEF LogOK, RecsOK
<1>2. r.off \in Nat /\ r.was \in Seq(Nat) /\ Len(r.was) \in Nat /\ Fitting(r.off, r.was)
  BY <1>1, LenProperties DEF RecordOK, Fitting
<1>3. FileOK(g)
  BY <1>2, WrittenTypes DEF Back
<1>4. \A c \in 0 .. MaxFsiz - 1 : g[c] = IF Holds(r, c) THEN r.was[c - r.off + 1] ELSE file[c]
  BY DEF Back, Written, FileOK, Holds
<1> HIDE DEF g
<1>5. ASSUME NEW c \in 0 .. MaxFsiz - 1
      PROVE  Undone(g, log.recs)[c] = Undone(file, log.recs)[c]
  <2>1. ~HeldBy(log.recs, c) => g[c] = file[c]
    BY <1>4 DEF HeldBy
  <2> QED
    BY <1>1, <1>3, <2>1, UndoneAgree
<1>6. FileOK(Undone(g, log.recs)) /\ FileOK(Undone(file, log.recs))
  BY <1>3, UndoneTypes DEF LogOK
<1>7. Undone(g, log.recs) = Undone(file, log.recs)
  BY <1>5, <1>6, FilesEqual
<1>8. ASSUME BackFrom(file, n + 1), NEW c \in 0 .. MaxFsiz - 1,
             Held(c), \A i \in 1 .. n - 1 : ~Holds(log.recs[i], c)
      PROVE  g[c] = Undone(g, log.recs)[c]
  <2>1. CASE Holds(r, c)
    <3>1. PICK i \in 1 .. Len(log.recs) :
                 /\ Holds(log.recs[i], c) /\ \A j \in 1 .. i - 1 : ~Holds(log.recs[j], c)
                 /\ Undone(file, log.recs)[c] = log.recs[i].was[c - log.recs[i].off + 1]
      BY <1>1, <1>8, UndoneAt DEF Held
    <3>2. i = n
      BY <1>1, <1>8, <2>1, <3>1
    <3> QED
      BY <1>4, <1>7, <2>1, <3>1, <3>2
  <2>2. CASE ~Holds(r, c)
    <3>1. \A i \in 1 .. n : ~Holds(log.recs[i], c)
      BY <1>1, <1>8, <2>2
    <3>2. file[c] = Undone(file, log.recs)[c]
      BY <1>1, <1>8, <3>1 DEF BackFrom
    <3> QED
      BY <1>4, <1>7, <2>2, <3>2
  <2> QED
    BY <2>1, <2>2
<1>9. n > 1 => g[Flags] = file[Flags]
  BY <1>1, <1>2, <1>4, LogAssumption DEF Holds, Flags, Bucket
<1> QED
  BY <1>3, <1>7, <1>8, <1>9 DEF g, BackFrom

\* When every record is restored and the file is cut, it is what the log says.
LEMMA AllBack ==
  ASSUME FileOK(file), LogOK, Applicable(log), BackFrom(file, 1), NEW g, g = Truncated(file, log.base)
  PROVE  FileOK(g) /\ g = Undone(g, log.recs) /\ g[Flags] = 0 /\ g[Fsiz] = log.base
<1>1. log.recs \in Seq(Records) /\ log.recs # <<>> /\ RecsOK(log.recs, log.base) /\ log.base \in Frec .. MaxFsiz
  BY LogAssumption DEF LogOK, RecsOK, Applicable
<1>2. FileOK(g)
  BY <1>1, HeaderTypes
<1>3. ASSUME NEW c \in 0 .. MaxFsiz - 1
      PROVE  g[c] = Undone(g, log.recs)[c]
  <2>1. CASE HeldBy(log.recs, c)
    <3>1. PICK i \in 1 .. Len(log.recs) : Holds(log.recs[i], c)
      BY <2>1 DEF HeldBy
    <3>2. RecordOK(log.recs[i], log.base)
      BY <1>1 DEF RecsOK
    <3>3. c < log.base
      BY <1>1, <3>1, <3>2, LenProperties, LogAssumption DEF RecordOK, Fitting, Holds
    <3>4. g[c] = file[c]
      BY <3>3 DEF Truncated, FileOK
    <3>5. file[c] = Undone(file, log.recs)[c]
      BY <2>1 DEF BackFrom, Held
    <3>6. Undone(g, log.recs)[c] = Undone(file, log.recs)[c]
      BY <1>1, <1>2, <2>1, UndoneAgree
    <3> QED
      BY <3>4, <3>5, <3>6
  <2>2. CASE ~HeldBy(log.recs, c)
    BY <1>1, <1>2, <2>2, UndoneAt
  <2> QED
    BY <2>1, <2>2
<1>4. FileOK(Undone(g, log.recs))
  BY <1>1, <1>2, UndoneTypes
<1>5. g = Undone(g, log.recs)
  BY <1>2, <1>3, <1>4, FilesEqual
<1>6. Undone(g, log.recs)[Flags] = 0 /\ Undone(g, log.recs)[Fsiz] = log.base
  BY <1>1, <1>2, UndoneHeader
<1> QED
  BY <1>2, <1>5, <1>6

\* A restoration goes on, or is over.
LEMMA WalRestoreInv == ASSUME Inv, WalRestore PROVE Inv'
<1> USE LogAssumption DEF At, Labels
<1>1. /\ pc.at = "undo" /\ UndoOK /\ FileOK(file) /\ LogOK /\ HdbOK /\ log' = log /\ hdb' = hdb
      /\ pc.n \in 0 .. Len(log.recs) /\ Len(log.recs) \in Nat /\ Applicable(log)
      /\ pc = [at |-> "undo", n |-> pc.n, next |-> pc.next]
  <2>1. UndoOK /\ LogOK
    BY DEF WalRestore, Inv, Shapes, PcOK
  <2>2. Len(log.recs) \in Nat
    BY <2>1, LenProperties DEF LogOK, RecsOK
  <2>3. pc.n \in 0 .. Len(log.recs) /\ Applicable(log) /\ pc = [at |-> "undo", n |-> pc.n, next |-> pc.next]
    BY <2>1 DEF UndoOK
  <2> QED
    BY <2>1, <2>2, <2>3 DEF WalRestore, Inv, Shapes
<1>2. BackFrom(file, pc.n + 1)
  <2>1. (pc.n + 1) - 1 = pc.n
    BY <1>1
  <2> QED
    BY <1>1, <2>1 DEF Inv, RestoreOK, BackFrom, UndoneFile
<1>3. hdb.tran => hdb.walend = log.base /\ hdb.walfd
  BY DEF Inv, TranOK
<1>4. ~hdb.tran => hdb.flags = 1 /\ (pc.n > 0 => file[Flags] = 1)
  BY <1>1 DEF Inv, RestoreOK
<1>5. CASE pc.n > 0
  <2>1. file' = Back(file, pc.n) /\ pc' = [pc EXCEPT !.n = @ - 1]
    BY <1>5 DEF WalRestore, Back, NewestFirst
  <2>2. pc'.at = "undo" /\ pc'.n = pc.n - 1 /\ pc'.next = pc.next /\ UndoOK'
    BY <1>1, <1>5, <2>1 DEF UndoOK, Applicable
  <2>3. /\ FileOK(file)' /\ BackFrom(file', pc.n) /\ (pc.n > 1 => file'[Flags] = file[Flags])
    BY <1>1, <1>5, <1>2, <2>1, RecordBack
  <2>4. \A c \in 0 .. MaxFsiz - 1 :
          Held(c)' /\ (\A i \in 1 .. pc'.n : ~Holds(log'.recs[i], c)) => file'[c] = UndoneFile'[c]
    BY <1>1, <2>2, <2>3 DEF BackFrom, UndoneFile, Held
  <2>5. RestoreOK'
    BY <1>1, <1>4, <1>5, <2>2, <2>3, <2>4 DEF RestoreOK
  <2> QED
    BY <1>1, <1>3, <2>2, <2>3, <2>5
    DEF Inv, Shapes, HdbOK, LogOK, PcOK, TranOK, InTransaction, BeginOK, Applicable
<1>6. CASE ~(pc.n > 0)
  <2>1. file' = Truncated(file, log.base) /\ pc' = pc.next /\ pc.n = 0
    BY <1>1, <1>6 DEF WalRestore
  <2>2. FileOK(file)' /\ file' = UndoneFile' /\ file'[Flags] = 0
    BY <1>1, <1>2, <2>1, AllBack DEF UndoneFile
  <2>3. pc'.at \in IF hdb.tran THEN {"aborted", "unlink"} ELSE {"reload", "loadfbp"}
    BY <1>1, <2>1 DEF UndoOK
  <2> QED
    BY <1>1, <1>3, <2>2, <2>3 DEF Inv, Shapes, HdbOK, LogOK, PcOK, TranOK, InTransaction, BeginOK, RestoreOK, Applicable
<1> QED
  BY <1>5, <1>6

\* The file is opened, or made anew.
LEMMA OpenInv == ASSUME Inv, NEW trunc \in BOOLEAN, Open(trunc) PROVE Inv'
<1> USE LogAssumption DEF At, Labels
<1>1. FileOK(file)' /\ LogOK'
  BY NoLogTypes, EmptyTypes DEF Open, Inv, Shapes, LogOK
<1>2. file'[Flags] \in {0, 1} /\ file'[Fsiz] \in Frec .. MaxFsiz
  BY <1>1 DEF FileOK, Fits, Flags, Fsiz, Frec, Bucket
<1>3. pc.at = "down" /\ hdb' = [NoDB EXCEPT !.flags = file'[Flags], !.fsiz = file'[Fsiz]]
  BY DEF Open, Inv, Shapes, HdbOK
<1>4. /\ ~hdb'.tran /\ hdb'.flags = file'[Flags] /\ hdb'.fsiz >= Frec
      /\ hdb' \in [flags : {0, 1}, fsiz : 0 .. MaxFsiz, tran : BOOLEAN, fatal : BOOLEAN,
              walfd : BOOLEAN, walend : 0 .. MaxFsiz, fbpool : {0} \cup Frec .. MaxFsiz - 1]
  <2>1. hdb' = [flags |-> file'[Flags], fsiz |-> file'[Fsiz], tran |-> FALSE, fatal |-> FALSE,
                walfd |-> FALSE, walend |-> 0, fbpool |-> 0]
    BY <1>3 DEF NoDB
  <2> QED
    BY <1>2, <2>1 DEF Frec
<1>5. CASE file'[Flags] = 1 /\ Applicable(log')
  <2>1. PICK at \in {"reload", "loadfbp"} : pc' = [at |-> "undo", n |-> Len(log.recs), next |-> [at |-> at]]
    <3>1. pc' = Undo(Go(IF log.torn THEN "loadfbp" ELSE "reload"))
      BY <1>5 DEF Open
    <3> QED
      BY <3>1 DEF Undo, Go
  <2>2. log' = log
    BY <1>5 DEF Open, EmptyFile, Flags, Fsiz
  <2>3. pc'.at = "undo" /\ pc'.n = Len(log'.recs) /\ pc'.next.at \in {"reload", "loadfbp"}
        /\ pc' = [at |-> "undo", n |-> pc'.n, next |-> pc'.next]
    BY <2>2, <2>1
  <2>4. Len(log'.recs) \in Nat
    BY <1>1, LenProperties DEF LogOK, RecsOK
  <2>5. UndoOK' /\ HdbOK'
    BY <1>4, <1>5, <2>3, <2>4 DEF UndoOK, HdbOK, Applicable
  <2>6. RestoreOK'
    BY <1>4, <1>5, <2>3, <2>4 DEF RestoreOK, Held, HeldBy
  <2> QED
    BY <1>1, <1>4, <2>3, <2>5, <2>6 DEF Inv, Shapes, PcOK, TranOK, BeginOK
<1>6. CASE ~(file'[Flags] = 1 /\ Applicable(log'))
  <2>1. pc'.at = "loadfbp"
    BY <1>6 DEF Open, Go
  <2> QED
    BY <1>1, <1>4, <2>1 DEF Inv, Shapes, HdbOK, PcOK, TranOK, BeginOK, RestoreOK
<1> QED
  BY <1>5, <1>6

LEMMA OpenReloadInv == ASSUME Inv, OpenReload PROVE Inv'
<1> USE LogAssumption DEF At, Labels, Go
<1>1. FileOK(file) /\ HdbOK /\ ~hdb.tran /\ file' = file /\ pc' = Go("loadfbp") /\ pc.at = "reload"
      /\ hdb' = [hdb EXCEPT !.flags = file[Flags], !.fsiz = file[Fsiz]]
  BY DEF Inv, Shapes, OpenReload, TranOK, LoadMeta
<1>2. file[Flags] \in {0, 1} /\ file[Fsiz] \in Frec .. MaxFsiz /\ file[Fsiz] \in 0 .. MaxFsiz
  BY <1>1 DEF FileOK, Fits, Flags, Fsiz, Frec, Bucket
<1>3. HdbOK' /\ ~hdb'.tran
  <2>1. hdb'.fsiz = file[Fsiz] /\ hdb'.tran = hdb.tran /\ pc'.at # "down"
    BY <1>1 DEF HdbOK
  <2>2. hdb' \in [flags : {0, 1}, fsiz : 0 .. MaxFsiz, tran : BOOLEAN, fatal : BOOLEAN,
              walfd : BOOLEAN, walend : 0 .. MaxFsiz, fbpool : {0} \cup Frec .. MaxFsiz - 1]
    BY <1>1, <1>2 DEF HdbOK, Frec
  <2> QED
    BY <1>1, <1>2, <2>1, <2>2 DEF HdbOK, Frec
<1>4. LogOK'
  BY NoLogTypes DEF OpenReload
<1> QED
  BY <1>1, <1>3, <1>4 DEF Inv, Shapes, PcOK, TranOK, BeginOK, RestoreOK

LEMMA LoadPoolInv == ASSUME Inv, LoadPool PROVE Inv'
<1> USE LogAssumption DEF At, Labels, Go
<1>1. FileOK(file) /\ HdbOK /\ ~hdb.tran /\ log' = log /\ pc' = Go("flag") /\ pc.at = "loadfbp"
      /\ hdb' = [hdb EXCEPT !.fbpool = PoolLoaded] /\ file' = [file EXCEPT ![Msiz] = 0]
  BY DEF Inv, Shapes, LoadPool, TranOK
<1>2. PoolLoaded \in {0} \cup Frec .. MaxFsiz - 1
  BY <1>1 DEF PoolLoaded, FileOK, Fits, Msiz
<1>3. HdbOK' /\ ~hdb'.tran
  BY <1>1, <1>2 DEF HdbOK
<1>4. FileOK(file)'
  BY <1>1, FlagTypes
<1> QED
  BY <1>1, <1>3, <1>4 DEF Inv, Shapes, LogOK, PcOK, TranOK, BeginOK, RestoreOK

\* A death keeps the files; the last record of the log may be cut short.
LEMMA DieInv == ASSUME Inv, Die PROVE Inv'
<1> USE LogAssumption DEF At, Labels, Go
<1>1. FileOK(file)' /\ LogOK'
  BY DEF Inv, Shapes, Die, LogOK
<1>2. HdbOK' /\ ~hdb'.tran
  BY DEF HdbOK, NoDB, Die
<1> QED
  BY <1>1, <1>2 DEF Die, Inv, Shapes, PcOK, TranOK, BeginOK, RestoreOK

\* Every step keeps the invariant.
LEMMA Inductive == Inv /\ [Next]_vars => Inv'
<1> SUFFICES ASSUME Inv, [Next]_vars PROVE Inv'
  OBVIOUS
<1>1. CASE Writes
  BY <1>1, LogWriteInv, StoreInv, ResizeInv, PutRecordInv, FreeRecordInv, InsertBlockInv,
     SetBucketInv, CutTailInv DEF Writes
<1>2. CASE Transactions
  BY <1>2, TranBeginInv, BeginUnflagInv, WalTruncateInv, WalSizeInv, WalHeadInv, BeginDoneInv,
     TranCommitInv, TranVoidInv, TranAbortInv, AbortDoneInv, WalRestoreInv DEF Transactions
<1>3. CASE Copy \/ CopyUnflag \/ CopyDone
  BY <1>3, CopyInv, CopyUnflagInv, SetFlagInv DEF CopyDone
<1>4. CASE Close \/ CloseUnflag \/ CloseTruncate \/ CloseDone
  BY <1>4, CloseInv, CloseUnflagInv, CloseTruncateInv, CloseDoneInv
<1>5. CASE (\E trunc \in BOOLEAN : Open(trunc)) \/ OpenReload \/ LoadPool \/ OpenDone \/ Die
  BY <1>5, OpenInv, OpenReloadInv, LoadPoolInv, SetFlagInv, DieInv DEF OpenDone
<1>6. CASE UNCHANGED vars
  BY <1>6 DEF vars, Inv, Shapes, LogOK, HdbOK, PcOK, LogStepOK, StoreOK, ResizeOK, UndoOK,
     TranOK, BeginOK, RestoreOK, At, InTransaction, Logged, Held, Applicable, UndoneFile
<1> QED
  BY <1>1, <1>2, <1>3, <1>4, <1>5, <1>6 DEF Next

\* Whatever fails and whatever is left behind, the log is sound: it brings back
\* the size that the file had and a closed file, while a transaction is open it
\* holds what that changes, and a restoration comes nearer to it.
THEOREM LogIsSound == Spec => []Inv
BY Initially, Inductive, PTL DEF Spec

---------------------------------------------------------------------------
(* The types, and the end of the file *)

\* The inductive invariant is stronger than the type invariant.
LEMMA TypesFollow == ASSUME Inv PROVE TypeOK
<1> USE LogAssumption
<1>1. FileOK(file) /\ LogOK /\ HdbOK /\ PcOK
  BY DEF Inv, Shapes
<1>2. file \in [0 .. MaxFsiz - 1 -> 0 .. MaxFsiz]
  <2>1. \A c \in 0 .. MaxFsiz - 1 : file[c] \in 0 .. MaxFsiz
    BY <1>1 DEF FileOK, Fits, Flags, Fsiz, Bucket, Msiz, Frec
  <2> QED
    BY <1>1, <2>1 DEF FileOK
<1>3. log.base \in -1 .. MaxFsiz /\ (Applicable(log) => log.base >= Frec)
  BY <1>1 DEF LogOK, RecsOK, Applicable
<1>4. \A i \in DOMAIN log.recs : log.recs[i].off + Len(log.recs[i].was) <= log.base
  BY <1>1, LenProperties DEF LogOK, RecsOK, RecordOK
<1> QED
  BY <1>1, <1>2, <1>3, <1>4 DEF TypeOK, PcOK, HdbOK

LEMMA EndsInductive ==
  ASSUME "torn" \notin Leftovers, Inv, EndsInv, [Next]_vars
  PROVE  EndsInv'
<1> USE LogAssumption DEF At, Go, Idle
<1>1. /\ FileOK(file) /\ HdbOK /\ LogOK /\ PcOK /\ ~log.torn /\ (pc.at = "undo" => pc.next.at # "loadfbp")
      /\ (pc.at \notin {"down", "undo", "aborted", "unlink", "reload"} => hdb.fsiz = file[Fsiz])
  BY DEF Inv, Shapes, EndsInv
<1>2. CASE LogWrite
  <2>1. pc' = pc.done \/ pc' = pc.failed
    BY <1>2 DEF LogWrite
  <2>2. pc'.at # "undo" /\ ~log'.torn
    BY <1>1, <1>2, <2>1 DEF LogWrite, PcOK, LogStepOK, StoreOK, ResizeOK, WalWritten, LogOK
  <2>3. hdb'.fsiz = hdb.fsiz /\ file' = file /\ pc.at = "log"
    BY <1>1, <1>2 DEF LogWrite, HdbOK
  <2> QED
    BY <1>1, <2>2, <2>3 DEF EndsInv
<1>3. CASE Store
  <2>1. StoreOK(pc) /\ pc.at = "store" /\ hdb' = hdb /\ log' = log
    BY <1>1, <1>3 DEF Store, PcOK
  <2>2. file'[Fsiz] = file[Fsiz]
    BY <1>1, <1>3, <2>1 DEF Store, Written, FileOK, StoreOK, Fitting, Fsiz, Bucket
  <2>3. pc'.at # "undo"
    BY <1>3, <2>1 DEF Store, StoreOK
  <2> QED
    BY <1>1, <2>1, <2>2, <2>3 DEF EndsInv
<1>4. CASE Resize
  <2>1. ResizeOK(pc) /\ pc.at = "resize" /\ pc' = Idle /\ log' = log /\ hdb' = [hdb EXCEPT !.fsiz = pc.fsiz]
    BY <1>1, <1>4 DEF Resize, PcOK
  <2> DEFINE f == [file EXCEPT ![Fsiz] = pc.fsiz]
  <2>2. f[Fsiz] = pc.fsiz /\ Truncated(f, pc.fsiz)[Fsiz] = pc.fsiz
    BY <1>1, <2>1 DEF FileOK, Truncated, Fsiz, Frec, ResizeOK
  <2>3. file' = f \/ file' = Truncated(f, pc.fsiz)
    BY <1>4 DEF Resize
  <2> HIDE DEF f
  <2> QED
    BY <1>1, <2>1, <2>2, <2>3 DEF EndsInv, HdbOK
<1>5. CASE PutRecord \/ FreeRecord \/ SetBucket \/ Copy \/ Close
  <2>1. hdb'.fsiz = hdb.fsiz
    BY <1>1, <1>5 DEF PutRecord, FreeRecord, SetBucket, Copy, Close, HdbOK
  <2>2. pc.at = "idle" /\ UNCHANGED <<file, log>>
    BY <1>5 DEF PutRecord, FreeRecord, SetBucket, Copy, Close, CanWrite
  <2>3. pc'.at \in {"log", "store"}
    BY <1>5 DEF PutRecord, FreeRecord, SetBucket, Copy, Close, Write
  <2> QED
    BY <1>1, <2>1, <2>2, <2>3 DEF EndsInv
<1>6. CASE CutTail \/ InsertBlock
  BY <1>1, <1>6 DEF CutTail, CanWrite, InsertBlock, EndsInv, HdbOK
<1>7. CASE TranBegin \/ TranCommit \/ TranAbort \/ CopyUnflag \/ CloseUnflag
  <2>1. hdb.flags \in {0, 1} /\ ~At("down")
    BY <1>1, <1>7, HdbTypes DEF TranBegin, TranCommit, TranAbort, CopyUnflag, CloseUnflag
  <2>2. \A flag \in {0, 1} : MemSynced(flag)[Fsiz] = hdb.fsiz /\ FileOK(MemSynced(flag))
    BY <1>1, <2>1, MemSyncedTypes
  <2>3. [MemSynced(hdb.flags) EXCEPT ![Flags] = 0][Fsiz] = hdb.fsiz
    BY <2>1, <2>2 DEF FileOK, Flags, Fsiz
  <2>4. file'[Fsiz] = hdb.fsiz /\ hdb'.fsiz = hdb.fsiz
    BY <1>1, <1>7, <2>1, <2>2, <2>3 DEF TranBegin, TranCommit, TranAbort, CopyUnflag, CloseUnflag, HdbOK
  <2>5. ~log'.torn
    BY <1>1, <1>7 DEF TranBegin, TranCommit, TranAbort, CopyUnflag, CloseUnflag, NoLog
  <2>6. pc'.at = "undo" => pc'.next.at # "loadfbp"
    BY <1>1, <1>7 DEF TranBegin, TranCommit, TranAbort, CopyUnflag, CloseUnflag, Undo
  <2> QED
    BY <2>4, <2>5, <2>6 DEF EndsInv
<1>8. CASE BeginUnflag \/ WalTruncate \/ WalSize \/ WalHead \/ BeginDone \/ TranVoid
  <2>1. \A flag : [file EXCEPT ![Flags] = flag][Fsiz] = file[Fsiz]
    BY <1>1 DEF FileOK, Flags, Fsiz
  <2>2. file'[Fsiz] = file[Fsiz]
    BY <1>8, <2>1 DEF BeginUnflag, WalTruncate, WalSize, WalHead, BeginDone, TranVoid, SetFlag
  <2>3. hdb'.fsiz = hdb.fsiz
    BY <1>1, <1>8 DEF BeginUnflag, WalTruncate, WalSize, WalHead, BeginDone, TranVoid, SetFlag, HdbOK
  <2>4. ~log'.torn /\ pc'.at # "undo" /\ pc.at \notin {"down", "undo", "aborted", "unlink", "reload"}
    BY <1>1, <1>8 DEF BeginUnflag, WalTruncate, WalSize, WalHead, BeginDone, TranVoid, HeadLogged, NoLog, LogOK, SetFlag
  <2> QED
    BY <1>1, <2>2, <2>4, <2>3 DEF EndsInv
<1>9. CASE AbortDone \/ OpenReload
  <2>1. hdb'.fsiz = file[Fsiz] /\ file' = file
    BY <1>1, <1>9 DEF AbortDone, OpenReload, Reloaded, LoadMeta, HdbOK
  <2> QED
    BY <1>1, <1>9, <2>1 DEF EndsInv, AbortDone, OpenReload, NoLog
<1>10. CASE WalRestore
  <2>1. UndoOK /\ pc.at = "undo" /\ hdb' = hdb /\ log' = log
    BY <1>1, <1>10 DEF PcOK, WalRestore
  <2>2. CASE pc.n > 0
    <3>1. pc'.at = "undo" /\ pc'.next = pc.next
      BY <1>10, <2>1, <2>2 DEF WalRestore, UndoOK
    <3> QED
      BY <1>1, <2>1, <3>1 DEF EndsInv
  <2>3. CASE ~(pc.n > 0)
    <3>1. pc'.at \in {"aborted", "unlink", "reload"}
      BY <1>1, <1>10, <2>1, <2>3 DEF WalRestore, UndoOK
    <3> QED
      BY <1>1, <2>1, <3>1 DEF EndsInv
  <2> QED
    BY <2>2, <2>3
<1>11. CASE CopyDone \/ OpenDone \/ LoadPool
  <2>1. pc.at \in {"copied", "flag", "loadfbp"} /\ pc'.at \in {"idle", "flag"} /\ log' = log
    BY <1>11 DEF CopyDone, OpenDone, LoadPool, SetFlag
  <2>2. file'[Fsiz] = file[Fsiz] /\ hdb'.fsiz = hdb.fsiz
    BY <1>1, <1>11 DEF CopyDone, OpenDone, LoadPool, SetFlag, HdbOK, FileOK, Flags, Fsiz, Msiz
  <2> QED
    BY <1>1, <2>2, <2>1 DEF EndsInv
<1>12. CASE CloseTruncate \/ CloseDone \/ Die
  BY <1>1, <1>12 DEF CloseTruncate, CloseDone, Die, NoLog, Undo, EndsInv
<1>13. CASE \E trunc \in BOOLEAN : Open(trunc)
  <2>1. PICK trunc \in BOOLEAN : Open(trunc)
    BY <1>13
  <2>2. hdb'.fsiz = file'[Fsiz]
    BY <1>1, <2>1 DEF Open, HdbOK, NoDB
  <2> QED
    BY <1>1, <2>1, <2>2 DEF Open, EndsInv, Undo, NoLog
<1>14. CASE UNCHANGED vars
  BY <1>14 DEF vars, EndsInv
<1> QED
  BY <1>2, <1>3, <1>4, <1>5, <1>6, <1>7, <1>8, <1>9, <1>10, <1>11, <1>12, <1>13, <1>14
  DEF Next, Writes, Transactions

\* Where no log is cut short, the object and the header agree on the end of the
\* file between any two calls: the abort, the opening and the commit of every
\* length, whatever else fails and whatever is left behind.
THEOREM EndsAgreeAlways == "torn" \notin Leftovers => (Spec => []EndsAgree)
<1> SUFFICES ASSUME "torn" \notin Leftovers PROVE Spec => []EndsAgree
  OBVIOUS
<1>1. Init => EndsInv
  BY DEF Init, EndsInv, NoLog, Go, At
<1>2. Inv /\ EndsInv /\ [Next]_vars => EndsInv'
  BY EndsInductive
<1>3. Inv /\ EndsInv => EndsAgree
  BY TypesFollow DEF EndsAgree, EndsInv, At
<1> QED
  BY LogIsSound, Initially, Inductive, <1>1, <1>2, <1>3, PTL DEF Spec

---------------------------------------------------------------------------
(* The free block pool never offers a record *)

\* The pool in the file is a free block, if any.
Saved == file[Msiz] # 0 => file[Msiz] < file[Fsiz] /\ file[file[Msiz]] = Free

\* The pool in memory is a free block, if any.
Pooled == hdb.fbpool # 0 => hdb.fbpool < hdb.fsiz /\ file[hdb.fbpool] = Free

\* A write of a record is not to the pool; a write of the pool is of this pool.
StorePool(s) ==
  /\ s.off >= Frec /\ s.next.at = "idle" => hdb.fbpool # s.off
  /\ s.off = Msiz => s.buf[1] = hdb.fbpool

ResizePool(s) == s.fsiz < hdb.fsiz => hdb.fbpool # s.fsiz

\* While the file is written the pool is free, and no write is to it.
PoolKept ==
  /\ pc.at \notin {"down", "undo", "aborted", "cut", "unlink", "reload", "loadfbp"} => Pooled
  /\ At("insert") => file[pc.off] = Free
  /\ At("log") => IF pc.done.at = "store" THEN StorePool(pc.done) ELSE ResizePool(pc.done)
  /\ At("store") => StorePool(pc)
  /\ At("resize") => ResizePool(pc)

\* Where the file may be found closed the pool in it is free.
SavedKept ==
  /\ pc.at \in {"copy", "closing"} /\ ~hdb.tran => file[Msiz] = hdb.fbpool
  /\ file[Flags] = 0 /\ (~Applicable(log) \/ pc.at \in {"down", "unlink", "reload"}
                            \/ (At("cut") /\ ~hdb.tran)) => Saved
  /\ At("loadfbp") /\ hdb.flags = 0 => Saved /\ hdb.fsiz = file[Fsiz]
  /\ At("reload") => file[Flags] = 0

\* A transaction begins with no pool in the file, and a restoration brings that
\* back.
NoPoolUndone ==
  /\ pc.at \in {"unflag", "waltrunc", "walsize", "walhead", "begun", "notbegun", "flag"}
       => file[Msiz] = 0
  /\ RollsBack \/ At("undo") => UndoneFile[Msiz] = 0

\* Between calls the file is found open, but for an abort, which leaves its log.
FlagKept ==
  pc.at \in {"idle", "log", "store", "resize", "insert", "copy", "closing"} =>
    /\ hdb.flags = file[Flags]
    /\ file[Flags] = 1 \/ (~hdb.tran /\ hdb.walfd /\ Applicable(log))

PoolInv == PoolKept /\ SavedKept /\ NoPoolUndone /\ FlagKept

---------------------------------------------------------------------------
(* The pool: writes *)

\* Where the saved pool is logged before it is written, it is brought back.
LEMMA MsizKept ==
  ASSUME FileOK(file), FileOK(file)', LogOK, log'.recs = log.recs,
         ~Held(Msiz) => file'[Msiz] = file[Msiz]
  PROVE  UndoneFile'[Msiz] = UndoneFile[Msiz]
<1>1. log.recs \in Seq(Records) /\ Msiz \in 0 .. MaxFsiz - 1
  BY LogAssumption DEF LogOK, RecsOK, Msiz
<1> QED
  BY <1>1, UndoneAgree DEF UndoneFile, Held

\* A caller's write begins.
LEMMA PoolWrite ==
  ASSUME Inv, PoolInv, At("idle"), UNCHANGED <<file, log>>,
         NEW pool \in {0, hdb.fbpool}, hdb' = [hdb EXCEPT !.fbpool = pool],
         NEW off, NEW buf, NEW next, NEW failed, pc' = Write(off, buf, next, failed),
         off >= Frec /\ next.at = "idle" => pool # off, off = Msiz => buf[1] = pool
  PROVE  PoolInv'
<1> USE LogAssumption DEF At, Inv, Shapes
<1>1. /\ hdb'.fsiz = hdb.fsiz /\ hdb'.tran = hdb.tran /\ hdb'.flags = hdb.flags /\ hdb'.walfd = hdb.walfd
      /\ hdb'.fbpool = pool
  BY DEF HdbOK
<1>2. /\ pc'.at \in {"log", "store"}
      /\ pc'.at = "log" => pc'.done.at = "store" /\ StorePool(pc.done)'
      /\ pc'.at = "store" => StorePool(pc)'
  BY <1>1 DEF Write, StorePool
<1>3. Pooled'
  BY <1>1 DEF PoolInv, PoolKept, Pooled
<1>4. PoolKept'
  BY <1>2, <1>3 DEF PoolKept
<1>5. SavedKept' /\ NoPoolUndone' /\ FlagKept'
  BY <1>1, <1>2
  DEF PoolInv, SavedKept, NoPoolUndone, FlagKept, Saved, RollsBack, Applicable, UndoneFile
<1> QED
  BY <1>4, <1>5 DEF PoolInv

LEMMA PoolWrites ==
  ASSUME Inv, PoolInv, PutRecord \/ FreeRecord \/ SetBucket \/ Copy \/ Close
  PROVE  PoolInv'
<1> USE DEF Idle, Go
<1>1. hdb = [hdb EXCEPT !.fbpool = hdb.fbpool] /\ HdbOK
  BY DEF Inv, Shapes, HdbOK
<1>2. CASE PutRecord
  <2>1. PICK n \in Lens, off \in Frec .. hdb.fsiz :
          /\ pc' = Write(off, [i \in 1 .. n |-> 1], Idle, Idle)
          /\ hdb' = [hdb EXCEPT !.fbpool = IF @ = off THEN 0 ELSE @]
    BY <1>2 DEF PutRecord
  <2> DEFINE pool == IF hdb.fbpool = off THEN 0 ELSE hdb.fbpool
             buf == [i \in 1 .. n |-> 1]
  <2>2. pool \in {0, hdb.fbpool} /\ pool # off /\ off # Msiz
    BY <1>1, HdbTypes DEF Frec, Msiz
  <2>3. pc' = Write(off, buf, Idle, Idle) /\ hdb' = [hdb EXCEPT !.fbpool = pool]
    BY <2>1
  <2>4. At("idle") /\ UNCHANGED <<file, log>>
    BY <1>2 DEF PutRecord, CanWrite
  <2> HIDE DEF pool, buf
  <2> QED
    BY <2>2, <2>3, <2>4, PoolWrite
<1>3. CASE FreeRecord
  <2>1. PICK off \in Frec .. hdb.fsiz - 1 :
          pc' = Write(off, <<Free>>, [at |-> "insert", off |-> off], Idle)
    BY <1>3 DEF FreeRecord
  <2>2. off # Msiz /\ At("idle") /\ UNCHANGED <<file, log, hdb>>
    BY <1>1, <1>3, HdbTypes DEF FreeRecord, CanWrite, Frec, Msiz
  <2> QED
    BY <1>1, <2>1, <2>2, PoolWrite
<1>4. CASE SetBucket
  <2>1. Bucket # Msiz /\ ~(Bucket >= Frec) /\ At("idle") /\ UNCHANGED <<file, log, hdb>>
    BY <1>4 DEF SetBucket, CanWrite, Bucket, Msiz, Frec
  <2> QED
    BY <1>1, <1>4, <2>1, PoolWrite DEF SetBucket
<1>5. CASE Copy
  <2>1. ~(Msiz >= Frec) /\ At("idle") /\ UNCHANGED <<file, log, hdb>>
    BY <1>5 DEF Copy, CanWrite, Msiz, Frec
  <2> QED
    BY <1>1, <1>5, <2>1, PoolWrite DEF Copy
<1>6. CASE Close
  <2> DEFINE pool == IF hdb.tran THEN 0 ELSE hdb.fbpool
  <2>1. ~(Msiz >= Frec) /\ At("idle") /\ UNCHANGED <<file, log>> /\ hdb' = [hdb EXCEPT !.fbpool = pool]
        /\ pc' = Write(Msiz, <<pool>>, Go("closing"), Go("closing")) /\ pool \in {0, hdb.fbpool}
    BY <1>6 DEF Close, Msiz, Frec
  <2> HIDE DEF pool
  <2> QED
    BY <2>1, PoolWrite
<1> QED
  BY <1>2, <1>3, <1>4, <1>5, <1>6

\* A write is logged: what the log brings back stays the same.
LEMMA PoolLogWrite == ASSUME Inv, PoolInv, LogWrite PROVE PoolInv'
<1> USE LogAssumption DEF At
<1>1. LogStepOK /\ pc.at = "log" /\ file' = file /\ FileOK(file) /\ LogOK /\ HdbOK /\ hdb.tran
  BY DEF LogWrite, Inv, Shapes, PcOK, LogStepOK
<1>2. Applicable(log) /\ hdb.walend = log.base
  BY <1>1 DEF Inv, TranOK
<1>3. /\ hdb'.fsiz = hdb.fsiz /\ hdb'.tran = hdb.tran /\ hdb'.flags = hdb.flags /\ hdb'.walfd = hdb.walfd
      /\ hdb'.fbpool = hdb.fbpool
  BY <1>1 DEF LogWrite, HdbOK
<1>4. UndoneFile'[Msiz] = 0
  <2>1. UndoneFile[Msiz] = 0
    BY <1>1 DEF PoolInv, NoPoolUndone, RollsBack
  <2>2. CASE log' = log
    BY <1>1, <2>1, <2>2 DEF UndoneFile
  <2>3. CASE log' = WalWritten(pc.off, pc.n)
    <3>1. PICK a, m : a = pc.off /\ m = pc.n
      OBVIOUS
    <3>2. UndoneFile' = UndoneFile
      BY <1>1, <1>2, <2>3, <3>1, LogGrown DEF LogStepOK
    <3> QED
      BY <2>1, <3>2
  <2> QED
    BY <2>2, <2>3 DEF LogWrite
<1>5. file[Flags] = 1 /\ hdb.flags = 1 /\ Pooled
  BY <1>1 DEF PoolInv, FlagKept, PoolKept
<1>6. pc' = pc.done \/ (pc' = pc.failed /\ pc'.at \in {"idle", "copy", "closing"})
  BY <1>1 DEF LogWrite, LogStepOK
<1>7. /\ pc.done.at \in {"store", "resize"}
      /\ pc.done.at = "store" => StorePool(pc.done)
      /\ pc.done.at = "resize" => ResizePool(pc.done)
  BY <1>1 DEF LogStepOK, StoreOK, ResizeOK, PoolInv, PoolKept
<1>8. Pooled'
  BY <1>1, <1>3, <1>5 DEF Pooled
<1>9. PoolKept'
  BY <1>3, <1>6, <1>7, <1>8 DEF PoolKept, StorePool, ResizePool
<1>10. SavedKept' /\ FlagKept'
  BY <1>1, <1>3, <1>5, <1>6, <1>7 DEF SavedKept, FlagKept
<1>11. NoPoolUndone'
  BY <1>4, <1>6, <1>7 DEF NoPoolUndone
<1> QED
  BY <1>9, <1>10, <1>11 DEF PoolInv

\* The file is written: not over the pool, unless with a free block.
LEMMA PoolStore == ASSUME Inv, PoolInv, Store PROVE PoolInv'
<1> USE LogAssumption DEF At
<1>1. /\ StoreOK(pc) /\ pc.at = "store" /\ log' = log /\ hdb' = hdb /\ FileOK(file) /\ LogOK /\ HdbOK
      /\ file' = Written(file, pc.off, pc.buf) /\ Fitting(pc.off, pc.buf) /\ FileOK(file)'
  BY StoreInv DEF Store, Inv, Shapes, PcOK, StoreOK
<1>2. /\ pc.off \in Nat /\ pc.off >= Bucket /\ Len(pc.buf) \in Nat \ {0} /\ hdb.fsiz \in Frec .. MaxFsiz
      /\ (pc.off < hdb.fsiz => Len(pc.buf) = 1) /\ pc.off + Len(pc.buf) <= MaxFsiz
  BY <1>1, HdbTypes DEF StoreOK, Fitting, Bucket, HdbOK, Frec
<1>3. /\ \A c \in 0 .. MaxFsiz - 1 : ~(pc.off <= c /\ c < pc.off + Len(pc.buf)) => file'[c] = file[c]
      /\ file'[pc.off] = pc.buf[1]
  <2>1. \A c \in 0 .. MaxFsiz - 1 :
          file'[c] = IF c \in pc.off .. pc.off + Len(pc.buf) - 1 THEN pc.buf[c - pc.off + 1] ELSE file[c]
    BY <1>1 DEF Written, FileOK
  <2>2. pc.off \in 0 .. MaxFsiz - 1 /\ pc.off \in pc.off .. pc.off + Len(pc.buf) - 1 /\ pc.off - pc.off + 1 = 1
    BY <1>2
  <2> QED
    BY <1>2, <2>1, <2>2
<1>4. \A c \in Int : c < hdb.fsiz /\ pc.off <= c /\ c < pc.off + Len(pc.buf) => c = pc.off
  <2>1. PICK o \in Nat, n \in Nat, e \in Nat : o = pc.off /\ n = Len(pc.buf) /\ e = hdb.fsiz
    BY <1>2 DEF Frec
  <2>2. o < e => n = 1
    BY <1>2, <2>1
  <2>3. \A c \in Int : c < e /\ o <= c /\ c < o + n => c = o
    BY <2>2
  <2> QED
    BY <2>1, <2>3
<1>5. file'[Flags] = file[Flags]
  BY <1>2, <1>3 DEF Flags, Bucket
<1>6. /\ hdb.flags = file[Flags] /\ (file[Flags] = 1 \/ (~hdb.tran /\ hdb.walfd /\ Applicable(log)))
      /\ Pooled /\ StorePool(pc)
  BY <1>1 DEF PoolInv, FlagKept, PoolKept
<1>7. Pooled'
  <2> SUFFICES ASSUME hdb.fbpool # 0 PROVE hdb.fbpool < hdb.fsiz /\ file'[hdb.fbpool] = Free
    BY <1>1 DEF Pooled
  <2>1. hdb.fbpool < hdb.fsiz /\ file[hdb.fbpool] = Free /\ hdb.fbpool \in Frec .. MaxFsiz - 1
    BY <1>1, <1>6, HdbTypes DEF Pooled
  <2>2. CASE hdb.fbpool = pc.off
    BY <1>1, <1>3, <1>6, <2>1, <2>2 DEF StoreOK, StorePool, Free, Frec, Bucket, Msiz
  <2>3. CASE hdb.fbpool # pc.off
    <3>1. ~(pc.off <= hdb.fbpool /\ hdb.fbpool < pc.off + Len(pc.buf))
      BY <1>4, <2>1, <2>3 DEF Frec
    <3> QED
      BY <1>3, <2>1, <3>1 DEF Frec
  <2> QED
    BY <2>2, <2>3
<1>8. /\ pc'.at \in {"idle", "insert", "copy", "closing", "resize"}
      /\ pc'.at = "insert" => file'[pc'.off] = Free
      /\ pc'.at = "resize" => ResizePool(pc)'
      /\ pc'.at \in {"copy", "closing"} => file'[Msiz] = hdb.fbpool
  <2>1. CASE pc.off + Len(pc.buf) > hdb.fsiz
    <3>1. pc' = [at |-> "resize", fsiz |-> pc.off + Len(pc.buf)]
      BY <2>1 DEF Store
    <3> QED
      BY <1>1, <1>2, <2>1, <3>1 DEF ResizePool
  <2>2. CASE ~(pc.off + Len(pc.buf) > hdb.fsiz)
    <3>1. pc' = pc.next
      BY <2>2 DEF Store
    <3> QED
      BY <1>1, <1>3, <1>6, <3>1 DEF StoreOK, StorePool
  <2> QED
    BY <2>1, <2>2
<1>9. hdb.tran => UndoneFile'[Msiz] = 0
  <2> SUFFICES ASSUME hdb.tran PROVE UndoneFile'[Msiz] = 0
    OBVIOUS
  <2>1. UndoneFile[Msiz] = 0 /\ Applicable(log) /\ log.base >= Frec
    BY <1>1 DEF PoolInv, NoPoolUndone, RollsBack, Inv, TranOK, LogOK, RecsOK, Applicable
  <2>2. CASE pc.off = Msiz
    <3>1. Logged(pc.off, pc.off + Len(pc.buf) - 1) /\ pc.off < log.base
      BY <1>1, <2>1, <2>2 DEF Inv, TranOK, Msiz, Bucket, Frec, LogOK
    <3>2. Held(Msiz)
      BY <1>2, <2>2, <3>1 DEF Logged
    <3> QED
      BY <1>1, <2>1, <3>2, MsizKept
  <2>3. CASE pc.off # Msiz
    <3>1. file'[Msiz] = file[Msiz]
      <4>1. ~(pc.off <= Msiz /\ Msiz < pc.off + Len(pc.buf)) /\ Msiz \in 0 .. MaxFsiz - 1
        BY <1>2, <1>4, <2>3 DEF Msiz, Frec, Bucket
      <4> QED
        BY <1>3, <4>1
    <3> QED
      BY <1>1, <2>1, <3>1, MsizKept
  <2> QED
    BY <2>2, <2>3
<1>10. PoolKept'
  BY <1>7, <1>8 DEF PoolKept
<1>11. SavedKept' /\ FlagKept' /\ NoPoolUndone'
  BY <1>1, <1>5, <1>6, <1>8, <1>9 DEF SavedKept, FlagKept, NoPoolUndone, RollsBack, Applicable
<1> QED
  BY <1>10, <1>11 DEF PoolInv

\* The end of the file moves: not below the pool.
LEMMA PoolResize == ASSUME Inv, PoolInv, Resize PROVE PoolInv'
<1> USE LogAssumption DEF At, Idle, Go
<1>1. /\ ResizeOK(pc) /\ pc.at = "resize" /\ log' = log /\ pc' = Idle /\ FileOK(file) /\ LogOK /\ HdbOK
      /\ hdb' = [hdb EXCEPT !.fsiz = pc.fsiz] /\ FileOK(file)'
  BY ResizeInv DEF Resize, Inv, Shapes, PcOK
<1>2. /\ hdb'.fsiz = pc.fsiz /\ hdb'.tran = hdb.tran /\ hdb'.flags = hdb.flags /\ hdb'.walfd = hdb.walfd
      /\ hdb'.fbpool = hdb.fbpool /\ pc.fsiz \in Frec .. MaxFsiz /\ pc.fsiz >= hdb.fsiz - 1
      /\ hdb.fsiz \in Nat
  BY <1>1, HdbTypes DEF HdbOK, ResizeOK
<1>3. \A c \in 0 .. MaxFsiz - 1 : c < pc.fsiz /\ c # Fsiz => file'[c] = file[c]
  BY <1>1 DEF Resize, Truncated, FileOK
<1>4. file'[Flags] = file[Flags] /\ file'[Msiz] = file[Msiz]
  BY <1>2, <1>3 DEF Flags, Fsiz, Msiz, Frec
<1>5. /\ hdb.flags = file[Flags] /\ (file[Flags] = 1 \/ (~hdb.tran /\ hdb.walfd /\ Applicable(log)))
      /\ Pooled /\ ResizePool(pc)
  BY <1>1 DEF PoolInv, FlagKept, PoolKept
<1>6. Pooled'
  <2> SUFFICES ASSUME hdb.fbpool # 0 PROVE hdb.fbpool < pc.fsiz /\ file'[hdb.fbpool] = Free
    BY <1>2 DEF Pooled
  <2>1. hdb.fbpool < hdb.fsiz /\ file[hdb.fbpool] = Free /\ hdb.fbpool \in Frec .. MaxFsiz - 1
    BY <1>1, <1>5, HdbTypes DEF Pooled
  <2>2. hdb.fbpool < pc.fsiz
    BY <1>2, <1>5, <2>1 DEF ResizePool
  <2> QED
    BY <1>3, <2>1, <2>2 DEF Frec, Fsiz
<1>7. hdb.tran => UndoneFile'[Msiz] = 0
  <2>1. UndoneFile'[Msiz] = UndoneFile[Msiz]
    BY <1>1, <1>4, MsizKept
  <2> QED
    BY <2>1 DEF PoolInv, NoPoolUndone, RollsBack
<1> QED
  BY <1>1, <1>2, <1>4, <1>5, <1>6, <1>7
  DEF PoolInv, PoolKept, SavedKept, FlagKept, NoPoolUndone, RollsBack, Applicable

\* A free block enters the pool; the last block, if it is the pool, leaves it.
LEMMA PoolChanges == ASSUME Inv, PoolInv, InsertBlock \/ CutTail PROVE PoolInv'
<1> USE LogAssumption DEF At, Idle, Go
<1>1. FileOK(file) /\ LogOK /\ HdbOK /\ PcOK /\ file' = file /\ log' = log
  BY DEF Inv, Shapes, InsertBlock, CutTail
<1>2. /\ hdb'.fsiz = hdb.fsiz /\ hdb'.tran = hdb.tran /\ hdb'.flags = hdb.flags /\ hdb'.walfd = hdb.walfd
  BY <1>1 DEF InsertBlock, CutTail, HdbOK
<1>3. pc.at \in {"idle", "insert"} /\ pc'.at \in {"idle", "log", "resize"}
  BY DEF InsertBlock, CutTail, CanWrite
<1>4. SavedKept' /\ NoPoolUndone' /\ FlagKept'
  BY <1>1, <1>2, <1>3
  DEF PoolInv, SavedKept, NoPoolUndone, FlagKept, RollsBack, Applicable, UndoneFile
<1>5. CASE InsertBlock
  <2>1. hdb'.fbpool = pc.off /\ pc.off < hdb.fsiz /\ file[pc.off] = Free /\ pc'.at = "idle"
    BY <1>1, <1>5, HdbTypes DEF InsertBlock, HdbOK, PcOK, PoolInv, PoolKept
  <2> QED
    BY <1>1, <1>2, <1>4, <2>1 DEF PoolInv, PoolKept, Pooled
<1>6. CASE CutTail
  <2> DEFINE dest == hdb.fsiz - 1
  <2>1. /\ hdb'.fbpool = (IF hdb.fbpool = dest THEN 0 ELSE hdb.fbpool) /\ hdb'.fbpool # dest
        /\ IF pc'.at = "log" THEN pc'.done = [at |-> "resize", fsiz |-> dest] ELSE pc'.fsiz = dest
    BY <1>1, <1>6, HdbTypes DEF CutTail, HdbOK, Frec
  <2>2. Pooled
    BY <1>6 DEF CutTail, CanWrite, PoolInv, PoolKept
  <2> HIDE DEF dest
  <2>3. Pooled'
    BY <1>1, <1>2, <2>1, <2>2 DEF Pooled
  <2>4. PoolKept'
    BY <1>2, <1>6, <2>1, <2>3 DEF CutTail, PoolKept, ResizePool
  <2> QED
    BY <1>4, <2>4 DEF PoolInv
<1> QED
  BY <1>5, <1>6

---------------------------------------------------------------------------
(* The pool: transactions *)

\* The header is written out of memory, or its flag: the pool keeps its block.
LEMMA PoolHeader ==
  ASSUME FileOK(file), FileOK(file)', HdbOK, LogOK, PoolInv, log'.recs = log.recs,
         hdb'.fbpool = hdb.fbpool, hdb'.fsiz = hdb.fsiz,
         \A c \in 0 .. MaxFsiz - 1 : c >= Bucket => file'[c] = file[c]
  PROVE  file'[Msiz] = file[Msiz] /\ UndoneFile'[Msiz] = UndoneFile[Msiz] /\ (Pooled => Pooled')
<1>1. file'[Msiz] = file[Msiz]
  BY LogAssumption DEF Msiz, Bucket
<1>2. UndoneFile'[Msiz] = UndoneFile[Msiz]
  BY <1>1, MsizKept
<1>3. Pooled => Pooled'
  BY HdbTypes DEF Pooled, Bucket, Frec
<1> QED
  BY <1>1, <1>2, <1>3

\* A transaction begins: the pool of a copy is not in the file.
LEMMA PoolBegin ==
  ASSUME "pool" \notin Leftovers, Inv, PoolInv, TranBegin \/ BeginUnflag
  PROVE  PoolInv'
<1> USE LogAssumption DEF At, Idle, Go
<1>1. /\ FileOK(file) /\ LogOK /\ HdbOK /\ hdb.flags \in {0, 1} /\ Pooled /\ file[Msiz] = 0 /\ ~hdb.tran
      /\ ~At("down")
  BY HdbTypes DEF Inv, Shapes, TranOK, TranBegin, BeginUnflag, PoolInv, PoolKept, NoPoolUndone
<1>2. FileOK(file)' /\ \A c \in 0 .. MaxFsiz - 1 : c >= Bucket => file'[c] = file[c]
  <2>1. CASE TranBegin
    BY <1>1, <2>1, MemSyncedTypes DEF TranBegin
  <2>2. CASE BeginUnflag
    BY <1>1, <2>2, BeginUnflagInv DEF BeginUnflag, SetFlag, FileOK, Flags, Bucket, Inv, Shapes
  <2> QED
    BY <2>1, <2>2
<1>3. /\ hdb'.fbpool = hdb.fbpool /\ hdb'.fsiz = hdb.fsiz /\ hdb'.tran = hdb.tran
      /\ pc'.at \in {"unflag", "waltrunc"}
  BY <1>1 DEF TranBegin, BeginUnflag, SetFlag, HdbOK
<1>4. file'[Msiz] = 0 /\ Pooled'
  BY <1>1, <1>2, <1>3, HdbTypes DEF Pooled, Bucket, Frec, Msiz
<1>5. PoolKept' /\ SavedKept' /\ NoPoolUndone' /\ FlagKept'
  BY <1>1, <1>3, <1>4 DEF PoolKept, SavedKept, Saved, NoPoolUndone, FlagKept, RollsBack
<1> QED
  BY <1>5 DEF PoolInv

\* Its log is made, whether that fails or not.
LEMMA PoolLogMade ==
  ASSUME Inv, PoolInv, WalTruncate \/ WalSize \/ WalHead
  PROVE  PoolInv'
<1> USE LogAssumption DEF At, Go
<1>1. /\ HdbOK /\ Pooled /\ file[Msiz] = 0 /\ ~hdb.tran /\ file' = file
      /\ hdb'.fbpool = hdb.fbpool /\ hdb'.fsiz = hdb.fsiz /\ hdb'.tran = hdb.tran
      /\ pc'.at \in {"walsize", "walhead", "begun", "notbegun"}
  BY DEF Inv, Shapes, TranOK, WalTruncate, WalSize, WalHead, PoolInv, PoolKept, NoPoolUndone, HdbOK
<1>2. Pooled'
  BY <1>1 DEF Pooled
<1>3. PoolKept' /\ SavedKept' /\ NoPoolUndone' /\ FlagKept'
  BY <1>1, <1>2 DEF PoolKept, SavedKept, Saved, NoPoolUndone, FlagKept, RollsBack
<1> QED
  BY <1>3 DEF PoolInv

\* It is open: its log, which holds the header only, leaves the pool in the file
\* as it is, empty.
LEMMA PoolBegun == ASSUME Inv, PoolInv, BeginDone PROVE PoolInv'
<1> USE LogAssumption DEF At, Idle, Go
<1>1. /\ FileOK(file) /\ LogOK /\ HdbOK /\ Pooled /\ file[Msiz] = 0 /\ ~hdb.tran /\ log' = log
      /\ pc'.at = "idle" /\ file' = [file EXCEPT ![Flags] = 1] /\ FileOK(file)'
      /\ hdb' = [hdb EXCEPT !.flags = 1, !.tran = At("begun")]
  BY BeginDoneInv DEF Inv, Shapes, TranOK, BeginDone, PoolInv, PoolKept, NoPoolUndone
<1>2. /\ hdb'.fbpool = hdb.fbpool /\ hdb'.fsiz = hdb.fsiz /\ hdb'.flags = 1 /\ (hdb'.tran => pc.at = "begun")
      /\ file'[Flags] = 1 /\ \A c \in 0 .. MaxFsiz - 1 : c >= Bucket => file'[c] = file[c]
  BY <1>1 DEF HdbOK, FileOK, Flags, Bucket
<1>3. file'[Msiz] = 0 /\ Pooled'
  BY <1>1, <1>2, PoolHeader
<1>4. ASSUME pc.at = "begun"
      PROVE  UndoneFile'[Msiz] = 0
  <2>1. Len(log.recs) = 1 /\ log.recs \in Seq(Records) /\ RecsOK(log.recs, log.base)
    BY <1>1, <1>4 DEF Inv, BeginOK, LogOK
  <2>2. log.recs # <<>> /\ IsHeader(log.recs[1], log.base)
    BY <2>1, EmptySeq DEF RecsOK
  <2>3. ~HeldBy(log.recs, Msiz)
    <3>1. log.recs[1].off = 0 /\ Len(log.recs[1].was) = 2
      BY <2>2 DEF IsHeader, HeadSize
    <3>2. ~Holds(log.recs[1], Msiz)
      BY <3>1 DEF Holds, Msiz
    <3> QED
      BY <2>1, <3>2 DEF HeldBy
  <2>4. Undone(file', log.recs)[Msiz] = file'[Msiz]
    <3>1. PICK f, recs, c : f = file' /\ recs = log.recs /\ c = Msiz
      OBVIOUS
    <3>2. FileOK(f) /\ recs \in Seq(Records) /\ c \in 0 .. MaxFsiz - 1 /\ ~HeldBy(recs, c)
      BY <1>1, <2>1, <2>3, <3>1 DEF Msiz
    <3>3. Undone(f, recs)[c] = f[c]
      BY <3>2, UndoneAt
    <3> QED
      BY <3>1, <3>3
  <2> QED
    BY <1>1, <1>3, <2>4 DEF UndoneFile
<1>5. PoolKept' /\ SavedKept' /\ NoPoolUndone' /\ FlagKept'
  BY <1>1, <1>2, <1>3, <1>4 DEF PoolKept, SavedKept, NoPoolUndone, FlagKept, RollsBack
<1> QED
  BY <1>5 DEF PoolInv

\* It is over.
LEMMA PoolCommit == ASSUME Inv, PoolInv, TranCommit \/ TranVoid PROVE PoolInv'
<1> USE LogAssumption DEF At
<1>1. /\ FileOK(file) /\ LogOK /\ HdbOK /\ Pooled /\ pc.at = "idle" /\ pc' = pc
      /\ hdb.flags = file[Flags] /\ file[Flags] = 1 /\ ~At("down")
  BY DEF Inv, Shapes, TranCommit, TranVoid, PoolInv, PoolKept, FlagKept
<1>2. /\ hdb'.fbpool = hdb.fbpool /\ hdb'.fsiz = hdb.fsiz /\ hdb'.flags = hdb.flags /\ ~hdb'.tran
  BY <1>1 DEF TranCommit, TranVoid, HdbOK
<1>3. file'[Flags] = 1 /\ \A c \in 0 .. MaxFsiz - 1 : c >= Bucket => file'[c] = file[c]
  BY <1>1, MemSyncedTypes DEF TranCommit, TranVoid
<1>4. Pooled'
  BY <1>1, <1>2, <1>3, HdbTypes DEF Pooled, Bucket, Frec
<1>5. PoolKept' /\ SavedKept' /\ NoPoolUndone' /\ FlagKept'
  BY <1>1, <1>2, <1>3, <1>4 DEF PoolKept, SavedKept, NoPoolUndone, FlagKept, RollsBack
<1> QED
  BY <1>5 DEF PoolInv

\* It is aborted: in the end the pool is empty.
LEMMA PoolAbort == ASSUME Inv, PoolInv, TranAbort \/ AbortDone PROVE PoolInv'
<1> USE LogAssumption DEF At, Idle, Go, Undo
<1>1. FileOK(file) /\ LogOK /\ HdbOK /\ hdb.tran /\ log' = log
  BY DEF Inv, Shapes, RestoreOK, TranAbort, AbortDone
<1>2. CASE TranAbort
  <2>1. /\ pc.at = "idle" /\ pc'.at = "undo" /\ hdb' = hdb /\ file' = MemSynced(hdb.flags)
        /\ hdb.flags = 1 /\ UndoneFile[Msiz] = 0
    BY <1>1, <1>2 DEF TranAbort, PoolInv, FlagKept, NoPoolUndone, RollsBack
  <2>2. FileOK(file)' /\ file'[Flags] = 1 /\ \A c \in 0 .. MaxFsiz - 1 : c >= Bucket => file'[c] = file[c]
    BY <1>1, <2>1, MemSyncedTypes
  <2>3. UndoneFile'[Msiz] = 0
    BY <1>1, <2>1, <2>2, PoolHeader
  <2>4. PoolKept' /\ SavedKept' /\ NoPoolUndone' /\ FlagKept'
    BY <2>1, <2>2, <2>3 DEF PoolKept, SavedKept, NoPoolUndone, FlagKept
  <2> QED
    BY <2>4 DEF PoolInv
<1>3. CASE AbortDone
  <2>1. /\ pc.at = "aborted" /\ pc'.at = "idle" /\ file' = file /\ hdb' = Reloaded(hdb)
        /\ file = UndoneFile /\ Applicable(log) /\ hdb.walfd
    BY <1>1, <1>3 DEF AbortDone, Inv, TranOK, RestoreOK
  <2>2. file[Flags] = 0
    BY <1>1, <2>1, UndoneHeader DEF UndoneFile, LogOK, Applicable
  <2>3. hdb'.flags = 0 /\ hdb'.fbpool = 0 /\ ~hdb'.tran /\ hdb'.walfd /\ Applicable(log)'
    BY <1>1, <2>1, <2>2 DEF Reloaded, LoadMeta, HdbOK, Applicable
  <2>4. PoolKept' /\ SavedKept' /\ NoPoolUndone' /\ FlagKept'
    BY <2>1, <2>2, <2>3 DEF PoolKept, Pooled, SavedKept, NoPoolUndone, FlagKept, RollsBack
  <2> QED
    BY <2>4 DEF PoolInv
<1> QED
  BY <1>2, <1>3

\* A restoration keeps what the log brings back, and ends with that.
LEMMA PoolRestore == ASSUME Inv, PoolInv, WalRestore PROVE PoolInv'
<1> USE LogAssumption DEF At
<1>1. /\ pc.at = "undo" /\ UndoOK /\ FileOK(file) /\ FileOK(file)' /\ LogOK /\ HdbOK /\ log' = log /\ hdb' = hdb
      /\ UndoneFile[Msiz] = 0 /\ Applicable(log) /\ (~hdb.tran => hdb.flags = 1)
  BY WalRestoreInv DEF Inv, Shapes, PcOK, RestoreOK, UndoOK, WalRestore, PoolInv, NoPoolUndone
<1>2. CASE pc.n > 0
  <2>1. PICK n : n = pc.n
    OBVIOUS
  <2>2. n \in 1 .. Len(log.recs)
    BY <1>1, <1>2, <2>1 DEF UndoOK
  <2>3. file' = Back(file, n) /\ pc'.at = "undo"
    BY <1>1, <1>2, <2>1 DEF WalRestore, Back, NewestFirst, UndoOK
  <2>4. UndoneFile' = UndoneFile
    BY <1>1, <2>2, <2>3, RecordBack DEF UndoneFile
  <2>5. PoolKept' /\ SavedKept' /\ NoPoolUndone' /\ FlagKept'
    BY <1>1, <2>3, <2>4 DEF PoolKept, SavedKept, NoPoolUndone, FlagKept, Applicable
  <2> QED
    BY <2>5 DEF PoolInv
<1>3. CASE ~(pc.n > 0)
  <2>1. /\ file' = Truncated(file, log.base) /\ pc' = pc.next /\ pc.n = 0
        /\ pc'.at \in IF hdb.tran THEN {"aborted", "unlink"} ELSE {"reload", "loadfbp"}
    BY <1>1, <1>3, LenProperties DEF WalRestore, UndoOK
  <2>2. BackFrom(file, 1)
    BY <1>1, <2>1 DEF Inv, RestoreOK, BackFrom, UndoneFile
  <2>3. file' = UndoneFile' /\ file'[Flags] = 0
    BY <1>1, <2>1, <2>2, AllBack DEF UndoneFile, Applicable
  <2>4. log.base >= Frec
    BY <1>1 DEF LogOK, RecsOK, Applicable
  <2>5. file'[Msiz] = file[Msiz]
    BY <1>1, <2>1, <2>4 DEF Truncated, FileOK, Msiz, Frec, LogOK
  <2>6. UndoneFile'[Msiz] = UndoneFile[Msiz]
    BY <1>1, <2>5, MsizKept
  <2>7. file'[Msiz] = 0
    BY <1>1, <2>3, <2>6
  <2>8. PoolKept' /\ SavedKept' /\ NoPoolUndone' /\ FlagKept'
    BY <1>1, <2>1, <2>3, <2>7 DEF PoolKept, SavedKept, Saved, NoPoolUndone, FlagKept
  <2> QED
    BY <2>8 DEF PoolInv
<1> QED
  BY <1>2, <1>3

\* The file is copied, or about to be closed: outside of a transaction the pool
\* in it is the one in memory.
LEMMA PoolSaved == ASSUME Inv, PoolInv, CopyUnflag \/ CloseUnflag PROVE PoolInv'
<1> USE LogAssumption DEF At, Go
<1>1. /\ FileOK(file) /\ FileOK(file)' /\ LogOK /\ HdbOK /\ hdb.flags \in {0, 1} /\ Pooled /\ log' = log
      /\ hdb.fsiz \in Nat /\ pc.at \in {"copy", "closing"} /\ ~At("down")
      /\ (~hdb.tran => file[Msiz] = hdb.fbpool) /\ (hdb.tran => Applicable(log))
  BY HdbTypes, CopyUnflagInv, CloseUnflagInv
  DEF Inv, Shapes, TranOK, CopyUnflag, CloseUnflag, PoolInv, PoolKept, SavedKept
<1>2. /\ file'[Fsiz] = hdb.fsiz /\ \A c \in 0 .. MaxFsiz - 1 : c >= Bucket => file'[c] = file[c]
  <2>1. /\ \A flag \in {0, 1} : FileOK(MemSynced(flag)) /\ MemSynced(flag)[Fsiz] = hdb.fsiz
        /\ \A flag \in {0, 1}, c \in 0 .. MaxFsiz - 1 : c >= Bucket => MemSynced(flag)[c] = file[c]
    BY <1>1, MemSyncedTypes
  <2>2. CASE CloseUnflag
    BY <1>1, <2>1, <2>2 DEF CloseUnflag
  <2>3. CASE CopyUnflag
    BY <1>1, <2>1, <2>3 DEF CopyUnflag, FileOK, Flags, Fsiz, Bucket
  <2> QED
    BY <2>2, <2>3
<1>3. /\ hdb'.fbpool = hdb.fbpool /\ hdb'.fsiz = hdb.fsiz /\ hdb'.tran = hdb.tran
      /\ pc'.at \in {"copied", "cut"}
  BY <1>1 DEF CopyUnflag, CloseUnflag, HdbOK
<1>4. file'[Msiz] = file[Msiz] /\ UndoneFile'[Msiz] = UndoneFile[Msiz] /\ Pooled'
  BY <1>1, <1>2, <1>3, PoolHeader
<1>5. ~hdb.tran => Saved'
  BY <1>1, <1>2, <1>3, <1>4 DEF Saved, Pooled
<1>6. PoolKept' /\ SavedKept' /\ NoPoolUndone' /\ FlagKept'
  BY <1>1, <1>3, <1>4, <1>5
  DEF PoolInv, PoolKept, SavedKept, NoPoolUndone, FlagKept, RollsBack, Applicable
<1> QED
  BY <1>6 DEF PoolInv

\* The copy is taken, or the opening done.
LEMMA PoolFlagged == ASSUME Inv, PoolInv, CopyDone \/ OpenDone PROVE PoolInv'
<1> USE LogAssumption DEF At, Idle, Go
<1>1. /\ FileOK(file) /\ FileOK(file)' /\ LogOK /\ HdbOK /\ Pooled /\ log' = log /\ pc'.at = "idle"
      /\ file' = [file EXCEPT ![Flags] = 1] /\ hdb' = [hdb EXCEPT !.flags = 1]
  BY SetFlagInv DEF Inv, Shapes, CopyDone, OpenDone, SetFlag, PoolInv, PoolKept
<1>2. /\ hdb'.fbpool = hdb.fbpool /\ hdb'.fsiz = hdb.fsiz /\ hdb'.flags = 1 /\ hdb'.tran = hdb.tran
      /\ file'[Flags] = 1 /\ \A c \in 0 .. MaxFsiz - 1 : c >= Bucket => file'[c] = file[c]
  BY <1>1 DEF HdbOK, FileOK, Flags, Bucket
<1>3. UndoneFile'[Msiz] = UndoneFile[Msiz] /\ Pooled'
  BY <1>1, <1>2, PoolHeader
<1>4. hdb.tran => UndoneFile[Msiz] = 0
  BY DEF PoolInv, NoPoolUndone, RollsBack
<1>5. PoolKept' /\ SavedKept' /\ NoPoolUndone' /\ FlagKept'
  BY <1>1, <1>2, <1>3, <1>4 DEF PoolKept, SavedKept, NoPoolUndone, FlagKept, RollsBack
<1> QED
  BY <1>5 DEF PoolInv

\* The file is cut to its size, and closed.
LEMMA PoolCut == ASSUME Inv, PoolInv, CloseTruncate PROVE PoolInv'
<1> USE LogAssumption DEF At, Go, Undo
<1>1. /\ pc.at = "cut" /\ FileOK(file) /\ FileOK(file)' /\ LogOK /\ HdbOK /\ log' = log /\ hdb' = hdb
      /\ file' = Truncated(file, hdb.fsiz) /\ file[Flags] = 0 /\ file[Fsiz] = hdb.fsiz
      /\ hdb.fsiz \in Frec .. MaxFsiz
      /\ pc'.at = IF hdb.tran THEN "undo" ELSE "unlink"
      /\ (hdb.tran => Applicable(log))
  BY HdbTypes, CloseTruncateInv DEF Inv, Shapes, HdbOK, TranOK, RestoreOK, CloseTruncate, Frec
<1>2. \A c \in 0 .. MaxFsiz - 1 : file'[c] = IF c < hdb.fsiz THEN file[c] ELSE 0
  BY <1>1 DEF Truncated, FileOK
<1>3. file'[Flags] = 0 /\ file'[Fsiz] = hdb.fsiz /\ file'[Msiz] = file[Msiz]
  BY <1>1, <1>2 DEF Flags, Fsiz, Msiz, Frec
<1>4. hdb.tran => UndoneFile'[Msiz] = 0
  <2>1. UndoneFile'[Msiz] = UndoneFile[Msiz]
    BY <1>1, <1>3, MsizKept
  <2> QED
    BY <2>1 DEF PoolInv, NoPoolUndone, RollsBack
<1>5. ~hdb.tran => Saved'
  <2> SUFFICES ASSUME ~hdb.tran, file[Msiz] # 0
               PROVE  file[Msiz] < hdb.fsiz /\ file'[file[Msiz]] = Free
    BY <1>3 DEF Saved
  <2>1. file[Msiz] < hdb.fsiz /\ file[file[Msiz]] = Free
    BY <1>1 DEF PoolInv, SavedKept, Saved
  <2>2. file[Msiz] \in 0 .. MaxFsiz - 1
    BY <1>1 DEF FileOK, Fits, Msiz, Frec
  <2> QED
    BY <1>2, <2>1, <2>2
<1>6. PoolKept' /\ SavedKept' /\ NoPoolUndone' /\ FlagKept'
  BY <1>1, <1>3, <1>4, <1>5
  DEF PoolKept, SavedKept, NoPoolUndone, FlagKept, RollsBack, Applicable
<1> QED
  BY <1>6 DEF PoolInv

\* Nothing is left behind but the log of an open transaction, or of one that is
\* being rolled back.
LEMMA PoolDown ==
  ASSUME "log" \notin Leftovers, Inv, PoolInv, CloseDone \/ Die
  PROVE  PoolInv'
<1> USE LogAssumption DEF At, Go
<1>1. file' = file /\ pc'.at = "down" /\ ~hdb'.tran
  BY DEF CloseDone, Die, NoDB
<1>2. file[Flags] = 0 => Saved
  BY DEF CloseDone, Die, LogLeft, PoolInv, SavedKept
<1>3. file[Flags] = 1 /\ Applicable(log)' => UndoneFile'[Msiz] = 0
  <2>1. CASE CloseDone
    BY <2>1 DEF CloseDone, Inv, RestoreOK
  <2>2. CASE Die
    <3>1. log'.recs = log.recs
      BY <2>2 DEF Die, Inv, Shapes, LogOK
    <3>2. file[Flags] = 1 /\ Applicable(log) => UndoneFile[Msiz] = 0
      BY <2>2 DEF Die, LogLeft, PoolInv, NoPoolUndone, RollsBack
    <3> QED
      BY <1>1, <3>1, <3>2 DEF Applicable, UndoneFile
  <2> QED
    BY <2>1, <2>2
<1>4. PoolKept' /\ SavedKept' /\ NoPoolUndone' /\ FlagKept'
  BY <1>1, <1>2, <1>3 DEF PoolKept, SavedKept, Saved, NoPoolUndone, FlagKept, RollsBack
<1> QED
  BY <1>4 DEF PoolInv

\* The file is opened: it was closed, with a pool that is free, or its log
\* brings one back that is empty.
LEMMA PoolOpen ==
  ASSUME Inv, PoolInv, NEW trunc \in BOOLEAN, Open(trunc)
  PROVE  PoolInv'
<1> USE LogAssumption DEF At, Go, Undo
<1>1. /\ pc.at = "down" /\ hdb'.flags = file'[Flags] /\ hdb'.fsiz = file'[Fsiz] /\ ~hdb'.tran
      /\ pc'.at = IF file'[Flags] = 1 /\ Applicable(log)' THEN "undo" ELSE "loadfbp"
  BY DEF Inv, Shapes, HdbOK, NoDB, Open, Applicable
<1>2. file'[Flags] = 0 => Saved'
  <2>1. CASE trunc
    BY <2>1 DEF Open, Saved, EmptyFile, Msiz, Fsiz
  <2>2. CASE ~trunc
    BY <1>1, <2>2 DEF Open, Saved, PoolInv, SavedKept
  <2> QED
    BY <2>1, <2>2
<1>3. pc'.at = "undo" => UndoneFile'[Msiz] = 0
  <2>1. CASE trunc
    BY <1>1, <2>1 DEF Open, EmptyFile, Flags, Fsiz
  <2>2. CASE ~trunc
    BY <1>1, <2>2 DEF Open, PoolInv, NoPoolUndone, RollsBack, UndoneFile, Applicable
  <2> QED
    BY <2>1, <2>2
<1>4. PoolKept' /\ SavedKept' /\ NoPoolUndone' /\ FlagKept'
  BY <1>1, <1>2, <1>3 DEF PoolKept, SavedKept, NoPoolUndone, FlagKept, RollsBack
<1> QED
  BY <1>4 DEF PoolInv

LEMMA PoolLoad == ASSUME Inv, PoolInv, OpenReload \/ LoadPool PROVE PoolInv'
<1> USE LogAssumption DEF At, Go
<1>1. FileOK(file) /\ HdbOK /\ ~hdb.tran
  BY DEF Inv, Shapes, TranOK, OpenReload, LoadPool
<1>2. CASE OpenReload
  <2>1. /\ pc.at = "reload" /\ pc'.at = "loadfbp" /\ file' = file /\ hdb'.flags = 0 /\ hdb'.fsiz = file[Fsiz]
        /\ ~hdb'.tran /\ file[Flags] = 0 /\ Saved
    BY <1>1, <1>2 DEF OpenReload, LoadMeta, HdbOK, PoolInv, SavedKept
  <2>2. PoolKept' /\ SavedKept' /\ NoPoolUndone' /\ FlagKept'
    BY <2>1 DEF PoolKept, SavedKept, Saved, NoPoolUndone, FlagKept, RollsBack
  <2> QED
    BY <2>2 DEF PoolInv
<1>3. CASE LoadPool
  <2>1. /\ pc.at = "loadfbp" /\ pc'.at = "flag" /\ file' = [file EXCEPT ![Msiz] = 0] /\ hdb'.fbpool = PoolLoaded
        /\ hdb'.fsiz = hdb.fsiz /\ ~hdb'.tran
    BY <1>1, <1>3 DEF LoadPool, HdbOK
  <2>2. file'[Msiz] = 0 /\ \A c \in 0 .. MaxFsiz - 1 : c # Msiz => file'[c] = file[c]
    BY <1>1, <2>1 DEF FileOK, Msiz
  <2>3. Pooled'
    <3>1. PoolLoaded # 0 => /\ PoolLoaded = file[Msiz] /\ file[Msiz] \in Frec .. MaxFsiz - 1
                            /\ file[Msiz] < hdb.fsiz /\ file[file[Msiz]] = Free
      BY <1>1, <2>1 DEF PoolLoaded, PoolInv, SavedKept, Saved, FileOK, Fits, Msiz
    <3> QED
      BY <2>1, <2>2, <3>1 DEF Pooled, Frec, Msiz
  <2>4. PoolKept' /\ SavedKept' /\ NoPoolUndone' /\ FlagKept'
    BY <2>1, <2>2, <2>3 DEF PoolKept, SavedKept, Saved, NoPoolUndone, FlagKept, RollsBack
  <2> QED
    BY <2>4 DEF PoolInv
<1> QED
  BY <1>2, <1>3

---------------------------------------------------------------------------
(* The pool: the theorem *)

LEMMA PoolInductive ==
  ASSUME "log" \notin Leftovers, "pool" \notin Leftovers, Inv, PoolInv, [Next]_vars
  PROVE  PoolInv'
<1>1. CASE Writes
  BY <1>1, PoolLogWrite, PoolStore, PoolResize, PoolWrites, PoolChanges DEF Writes
<1>2. CASE Transactions
  BY <1>2, PoolBegin, PoolLogMade, PoolBegun, PoolCommit, PoolAbort, PoolRestore DEF Transactions
<1>3. CASE Copy \/ CopyUnflag \/ CopyDone \/ Close \/ CloseUnflag \/ CloseTruncate
  BY <1>3, PoolWrites, PoolSaved, PoolFlagged, PoolCut
<1>4. CASE \/ CloseDone \/ (\E trunc \in BOOLEAN : Open(trunc))
           \/ OpenReload \/ LoadPool \/ OpenDone \/ Die
  BY <1>4, PoolDown, PoolOpen, PoolLoad, PoolFlagged
<1>5. CASE UNCHANGED vars
  BY <1>5 DEF vars, PoolInv, PoolKept, Pooled, StorePool, ResizePool, SavedKept, Saved, NoPoolUndone,
     FlagKept, RollsBack, UndoneFile, Applicable, At
<1> QED
  BY <1>1, <1>2, <1>3, <1>4, <1>5 DEF Next

\* Where no log and no saved pool outlive what they were written for, the pool
\* never offers a block that is not free, whatever fails and wherever the process
\* dies: a rollback empties it, and an opening takes it out of a closed file only.
THEOREM PoolIsFreeAlways ==
  "log" \notin Leftovers /\ "pool" \notin Leftovers => (Spec => []PoolIsFree)
<1> SUFFICES ASSUME "log" \notin Leftovers, "pool" \notin Leftovers
             PROVE  Spec => []PoolIsFree
  OBVIOUS
<1>1. Init => PoolInv
  BY LogAssumption
  DEF Init, PoolInv, PoolKept, SavedKept, Saved, NoPoolUndone, FlagKept, RollsBack, NoDB, Go, At,
      EmptyFile, Flags, Fsiz, Msiz
<1>2. Inv /\ PoolInv /\ [Next]_vars => PoolInv'
  BY PoolInductive
<1>3. PoolInv => PoolIsFree
  BY DEF PoolInv, PoolKept, Pooled, PoolIsFree, At
<1> QED
  BY LogIsSound, Initially, Inductive, <1>1, <1>2, <1>3, PTL DEF Spec

---------------------------------------------------------------------------
(* Transactions are atomic: what a reader sees of a file *)

\* What is read of a file is what a file may hold.
LEMMA ContentsIn ==
  ASSUME NEW f, FileOK(f)
  PROVE  ContentsOf(f) \in UNION {[1 .. n -> {0, 1}] : n \in 1 .. MaxFsiz}
<1> USE LogAssumption
<1> DEFINE n == f[Fsiz] - Frec + 1
<1>1. f[Fsiz] \in Frec .. MaxFsiz /\ f[Bucket] \in {0, 1}
      /\ \A c \in Frec .. MaxFsiz - 1 : f[c] \in {0, 1}
  BY DEF FileOK, Fits, Flags, Fsiz, Bucket, Frec
<1>2. n \in 1 .. MaxFsiz
  BY <1>1 DEF Frec
<1>3. ASSUME NEW i \in 1 .. n
      PROVE  (IF i = 1 THEN f[Bucket] ELSE f[Frec + i - 2]) \in {0, 1}
  <2>1. i # 1 => Frec + i - 2 \in Frec .. MaxFsiz - 1
    BY <1>1 DEF Frec
  <2> QED
    BY <1>1, <2>1
<1>4. ContentsOf(f) \in [1 .. n -> {0, 1}]
  BY <1>3 DEF ContentsOf
<1> QED
  BY <1>2, <1>4

\* It is the size, the bucket and the segments.
Same(f, g) ==
  /\ f[Fsiz] = g[Fsiz] /\ f[Bucket] = g[Bucket]
  /\ \A c \in 0 .. MaxFsiz - 1 : Frec <= c /\ c < f[Fsiz] => f[c] = g[c]

LEMMA SameContents ==
  ASSUME NEW f, NEW g, FileOK(f), Same(f, g)
  PROVE  ContentsOf(f) = ContentsOf(g)
<1> USE LogAssumption
<1>1. f[Fsiz] \in Frec .. MaxFsiz
  BY DEF FileOK, Fits, Flags, Fsiz, Bucket, Frec
<1>2. ASSUME NEW i \in 1 .. f[Fsiz] - Frec + 1
      PROVE  (IF i = 1 THEN f[Bucket] ELSE f[Frec + i - 2]) = IF i = 1 THEN g[Bucket] ELSE g[Frec + i - 2]
  <2>1. i # 1 => Frec + i - 2 \in Frec .. f[Fsiz] - 1
    BY <1>1 DEF Frec
  <2> QED
    BY <1>1, <2>1 DEF Same, Frec
<1> QED
  BY <1>2 DEF ContentsOf, Same

\* What a log brings back is read the same as long as what it does not hold,
\* below the size in it, stays the same.
LEMMA UndoneSame ==
  ASSUME NEW f, NEW g, FileOK(f), FileOK(g), NEW recs, NEW base, RecsOK(recs, base), recs # <<>>,
         \A c \in 0 .. MaxFsiz - 1 :
           c < base /\ c >= Bucket /\ c # Msiz /\ ~HeldBy(recs, c) => f[c] = g[c]
  PROVE  ContentsOf(Undone(f, recs)) = ContentsOf(Undone(g, recs))
<1> USE LogAssumption
<1> DEFINE u == Undone(f, recs)
           v == Undone(g, recs)
<1>1. u[Fsiz] = base /\ v[Fsiz] = base /\ base >= Frec /\ recs \in Seq(Records)
  BY UndoneHeader DEF RecsOK
<1>2. FileOK(u)
  BY UndoneTypes
<1>3. base \in Frec .. MaxFsiz
  BY <1>1, <1>2 DEF FileOK, Fits, Flags, Fsiz, Bucket, Frec
<1>4. ASSUME NEW c \in 0 .. MaxFsiz - 1, c < base, c >= Bucket, c # Msiz
      PROVE  u[c] = v[c]
  BY <1>1, <1>4, UndoneAgree
<1> HIDE DEF u, v
<1>5. Same(u, v)
  BY <1>1, <1>3, <1>4 DEF Same, Frec, Bucket, Msiz
<1> QED
  BY <1>2, <1>5, SameContents DEF u, v

\* A restoration that has applied every record has brought everything back.
LEMMA Restored ==
  ASSUME FileOK(file), LogOK, BackFrom(file, 1)
  PROVE  file = UndoneFile
<1>1. FileOK(UndoneFile) /\ log.recs \in Seq(Records)
  BY UndoneTypes DEF UndoneFile, LogOK, RecsOK
<1>2. ASSUME NEW c \in 0 .. MaxFsiz - 1
      PROVE  file[c] = UndoneFile[c]
  <2>1. CASE Held(c)
    BY <2>1 DEF BackFrom, UndoneFile
  <2>2. CASE ~Held(c)
    BY <1>1, <2>2, UndoneAt DEF Held, UndoneFile
  <2> QED
    BY <2>1, <2>2
<1> QED
  BY <1>1, <1>2, FilesEqual

---------------------------------------------------------------------------
(* Atomicity: steps *)

\* The variables of the abstract specification.
Promised == <<Shown, Lasting, InTransaction, ~Closed>>

\* Whatever a caller's operation does, it is an update, as long as the log of an
\* open transaction brings back the same.
LEMMA Updated ==
  ASSUME FileOK(file)', ~Closed, ~Closed', hdb'.tran = hdb.tran,
         hdb.tran => ContentsOf(UndoneFile)' = ContentsOf(UndoneFile)
  PROVE  AF!Update
<1>1. Shown' = ContentsOf(file') /\ InTransaction' = InTransaction
      /\ Lasting' = IF InTransaction THEN Lasting ELSE Shown'
  BY DEF Closed, Shown, Lasting, RollsBack, InTransaction
<1>2. ContentsOf(file') \in UNION {[1 .. n -> {0, 1}] : n \in 1 .. MaxFsiz}
  BY ContentsIn
<1> QED
  BY <1>1, <1>2 DEF AF!Update

\* A write begins, or is logged: nothing is read differently.
LEMMA AtomicWrite ==
  ASSUME Inv, Inv',
         \/ PutRecord \/ FreeRecord \/ SetBucket \/ InsertBlock \/ CutTail \/ LogWrite
         \/ Copy \/ Close
  PROVE  AF!Update
<1> USE LogAssumption DEF At, Go, Idle
<1>1. FileOK(file) /\ FileOK(file)' /\ LogOK /\ HdbOK /\ PcOK /\ file' = file
  BY DEF Inv, Shapes, PutRecord, FreeRecord, SetBucket, InsertBlock, CutTail, LogWrite, Copy, Close
<1>2. CASE PutRecord \/ FreeRecord \/ SetBucket \/ InsertBlock \/ CutTail \/ Copy \/ Close
  <2>1. hdb'.tran = hdb.tran /\ log' = log
    BY <1>1, <1>2 DEF PutRecord, FreeRecord, SetBucket, InsertBlock, CutTail, Copy, Close, HdbOK
  <2>2. pc.at \in {"idle", "insert"} /\ pc'.at \in {"idle", "log", "store", "resize"}
    BY <1>2 DEF PutRecord, FreeRecord, SetBucket, InsertBlock, CutTail, Copy, Close, CanWrite, Write
  <2> QED
    BY <1>1, <2>1, <2>2, Updated DEF Closed, UndoneFile
<1>3. CASE LogWrite
  <2>1. LogStepOK /\ pc.at = "log" /\ hdb.tran
    BY <1>1, <1>3 DEF LogWrite, PcOK, LogStepOK
  <2>2. Applicable(log) /\ hdb.walend = log.base
    BY <2>1 DEF Inv, TranOK
  <2>3. hdb'.tran = hdb.tran
    BY <1>1, <1>3 DEF LogWrite, HdbOK
  <2>4. pc'.at \in {"store", "resize", "idle", "copy", "closing"}
    BY <1>3, <2>1 DEF LogWrite, LogStepOK, StoreOK, ResizeOK
  <2>5. UndoneFile' = UndoneFile
    <3>1. CASE log' = log
      BY <1>1, <3>1 DEF UndoneFile
    <3>2. CASE log' = WalWritten(pc.off, pc.n)
      <4>1. PICK a, m : a = pc.off /\ m = pc.n
        OBVIOUS
      <4> QED
        BY <1>1, <2>1, <2>2, <3>2, <4>1, LogGrown DEF LogStepOK
    <3> QED
      BY <1>3, <3>1, <3>2 DEF LogWrite
  <2> QED
    BY <1>1, <2>1, <2>3, <2>4, <2>5, Updated DEF Closed
<1> QED
  BY <1>2, <1>3

\* The file is written: in a transaction what the write changes is logged, or
\* was not in the file at the beginning.
LEMMA AtomicStore ==
  ASSUME "bucket" \notin LogFails, Inv, Inv', Store
  PROVE  AF!Update
<1> USE LogAssumption DEF At, Go, Idle
<1>1. /\ StoreOK(pc) /\ pc.at = "store" /\ log' = log /\ hdb' = hdb /\ FileOK(file) /\ LogOK
      /\ file' = Written(file, pc.off, pc.buf) /\ FileOK(file)'
  BY DEF Store, Inv, Shapes, PcOK
<1>2. pc'.at \in {"idle", "insert", "copy", "closing", "resize"}
  BY <1>1 DEF Store, StoreOK
<1>3. ASSUME hdb.tran
      PROVE  ContentsOf(UndoneFile)' = ContentsOf(UndoneFile)
  <2>1. /\ RecsOK(log.recs, log.base) /\ log.recs # <<>>
        /\ Logged(pc.off, pc.off + Len(pc.buf) - 1)
    BY <1>1, <1>3 DEF Inv, TranOK, LogOK, Applicable
  <2>2. ASSUME NEW c \in 0 .. MaxFsiz - 1, c < log.base, ~HeldBy(log.recs, c)
        PROVE  file'[c] = file[c]
    <3>1. c \notin pc.off .. pc.off + Len(pc.buf) - 1
      BY <2>1, <2>2 DEF Logged, Held
    <3> QED
      BY <1>1, <3>1 DEF Written, FileOK
  <2> QED
    BY <1>1, <2>1, <2>2, UndoneSame DEF UndoneFile
<1> QED
  BY <1>1, <1>2, <1>3, Updated DEF Closed

\* The end of the file moves, or its header is written: the log has the header
\* and, in a transaction, the file is not cut.
LEMMA AtomicHeader ==
  ASSUME Inv, Inv', Resize \/ CopyUnflag \/ CopyDone \/ CloseUnflag
  PROVE  AF!Update
<1> USE LogAssumption DEF At, Go, Idle
<1>1. FileOK(file) /\ LogOK /\ HdbOK /\ hdb.flags \in {0, 1} /\ FileOK(file)'
  BY HdbTypes DEF Inv, Shapes
<1>2. /\ FileOK(file) /\ LogOK /\ HdbOK /\ hdb.flags \in {0, 1} /\ FileOK(file)' /\ log' = log
      /\ pc.at \in {"resize", "copy", "copied", "closing"} /\ pc'.at \in {"idle", "copied", "cut"}
  BY <1>1 DEF Resize, CopyUnflag, CopyDone, CloseUnflag, SetFlag
<1>3. hdb'.tran = hdb.tran
  BY <1>2 DEF Resize, CopyUnflag, CopyDone, CloseUnflag, SetFlag, HdbOK
<1>4. ASSUME hdb.tran, NEW c \in 0 .. MaxFsiz - 1, c >= Bucket
      PROVE  file'[c] = file[c]
  <2>1. CASE Resize
    BY <1>2, <1>4, <2>1 DEF Resize, FileOK, Fsiz, Bucket
  <2>2. CASE CopyUnflag \/ CloseUnflag
    <3>1. MemSynced(hdb.flags)[c] = file[c] /\ MemSynced(0)[c] = file[c] /\ FileOK(MemSynced(hdb.flags))
      BY <1>2, <1>4, MemSyncedTypes
    <3> QED
      BY <1>4, <2>2, <3>1 DEF CopyUnflag, CloseUnflag, FileOK, Flags, Bucket
  <2>3. CASE CopyDone
    BY <1>2, <1>4, <2>3 DEF CopyDone, SetFlag, FileOK, Flags, Bucket
  <2> QED
    BY <2>1, <2>2, <2>3
<1>5. hdb.tran => ContentsOf(UndoneFile)' = ContentsOf(UndoneFile)
  <2>1. hdb.tran => RecsOK(log.recs, log.base) /\ log.recs # <<>>
    BY <1>2 DEF Inv, TranOK, LogOK, Applicable
  <2> QED
    BY <1>2, <1>4, <2>1, UndoneSame DEF UndoneFile
<1> QED
  BY <1>2, <1>3, <1>5, Updated DEF Closed

\* A transaction is about to begin: until it has, or when it cannot, updates last
\* at once.
LEMMA AtomicBeginning ==
  ASSUME Inv, Inv', TranBegin \/ BeginUnflag \/ WalTruncate \/ WalSize \/ WalHead
  PROVE  AF!Update
<1> USE LogAssumption DEF At, Go, Idle
<1>1. HdbOK /\ FileOK(file)'
  BY DEF Inv, Shapes
<1>2. /\ ~hdb.tran
      /\ pc.at \in {"idle", "unflag", "waltrunc", "walsize", "walhead"}
      /\ pc'.at \in {"unflag", "waltrunc", "walsize", "walhead", "begun", "notbegun"}
  BY DEF Inv, TranOK, TranBegin, BeginUnflag, WalTruncate, WalSize, WalHead, SetFlag
<1>3. hdb'.tran = hdb.tran
  BY <1>1, <1>2 DEF TranBegin, BeginUnflag, WalTruncate, WalSize, WalHead, SetFlag, HdbOK
<1> QED
  BY <1>1, <1>2, <1>3, Updated DEF Closed

\* It has begun: the log, which holds the header only, brings back what the file
\* holds now.
LEMMA AtomicBegun ==
  ASSUME Inv, Inv', BeginDone
  PROVE  AF!Update \/ AF!Begin
<1> USE LogAssumption DEF At, Go, Idle
<1>1. /\ FileOK(file) /\ HdbOK /\ LogOK /\ FileOK(file)' /\ ~hdb.tran /\ pc.at \in {"begun", "notbegun"}
      /\ pc'.at = "idle" /\ log' = log /\ file' = [file EXCEPT ![Flags] = 1]
      /\ hdb'.tran = (pc.at = "begun")
  BY DEF Inv, Shapes, TranOK, BeginDone, HdbOK
<1>2. CASE pc.at = "notbegun"
  <2>1. hdb'.tran = hdb.tran
    BY <1>1, <1>2, HdbTypes
  <2> QED
    BY <1>1, <1>2, <2>1, Updated DEF Closed
<1>3. CASE pc.at = "begun"
  <2>1. PICK f, recs, base : f = file' /\ recs = log.recs /\ base = log.base
    OBVIOUS
  <2>2. /\ RecsOK(recs, base) /\ recs \in Seq(Records) /\ Len(recs) = 1 /\ recs # <<>>
        /\ file[Fsiz] = base /\ FileOK(f)
    BY <1>1, <1>3, <2>1, EmptySeq DEF Inv, BeginOK, LogOK, RecsOK
  <2>3. \A c \in 0 .. MaxFsiz - 1 : c >= Bucket => ~HeldBy(recs, c)
    <3>1. recs[1].off = 0 /\ Len(recs[1].was) = 2
      BY <2>2 DEF RecsOK, IsHeader, HeadSize
    <3>2. \A c \in 0 .. MaxFsiz - 1 : c >= Bucket => ~Holds(recs[1], c)
      BY <3>1 DEF Holds, Bucket
    <3> QED
      BY <2>2, <3>2 DEF HeldBy
  <2>4. \A c \in 0 .. MaxFsiz - 1 : c >= Bucket => Undone(f, recs)[c] = f[c]
    BY <2>2, <2>3, UndoneAt
  <2>5. Undone(f, recs)[Fsiz] = base /\ FileOK(Undone(f, recs))
    BY <2>2, UndoneHeader, UndoneTypes
  <2>6. f[Fsiz] = file[Fsiz] /\ \A c \in 0 .. MaxFsiz - 1 : c >= Bucket => f[c] = file[c]
    BY <1>1, <2>1 DEF FileOK, Flags, Fsiz, Bucket
  <2>7. Same(Undone(f, recs), file) /\ Same(f, file)
    BY <2>2, <2>4, <2>5, <2>6 DEF Same, Bucket, Frec
  <2>8. ContentsOf(Undone(f, recs)) = ContentsOf(file) /\ ContentsOf(f) = ContentsOf(file)
    BY <2>2, <2>5, <2>7, SameContents
  <2>9. ContentsOf(UndoneFile)' = ContentsOf(file) /\ ContentsOf(file') = ContentsOf(file)
    BY <1>1, <2>1, <2>8 DEF UndoneFile
  <2> QED
    BY <1>1, <1>3, <2>9 DEF AF!Begin, Shown, Lasting, RollsBack, InTransaction, Closed
<1> QED
  BY <1>1, <1>2, <1>3

\* A commit: the header has the size already.
LEMMA AtomicCommit ==
  ASSUME Inv, TranCommit \/ TranVoid
  PROVE  AF!Commit
<1> USE LogAssumption DEF At
<1>1. /\ FileOK(file) /\ HdbOK /\ pc.at = "idle" /\ pc' = pc /\ hdb.tran /\ file[Fsiz] = hdb.fsiz
      /\ hdb.flags \in {0, 1} /\ ~At("down") /\ ~hdb'.tran
  BY HdbTypes DEF Inv, Shapes, TranOK, InTransaction, TranCommit, TranVoid, HdbOK
<1>2. ContentsOf(file') = ContentsOf(file)
  <2>1. CASE TranVoid
    BY <2>1 DEF TranVoid
  <2>2. CASE TranCommit
    <3>1. PICK g : g = MemSynced(hdb.flags)
      OBVIOUS
    <3>2. FileOK(g) /\ g[Fsiz] = hdb.fsiz /\ \A c \in 0 .. MaxFsiz - 1 : c >= Bucket => g[c] = file[c]
      BY <1>1, <3>1, MemSyncedTypes
    <3>3. Same(g, file)
      BY <1>1, <3>2 DEF Same, Bucket, Frec
    <3> QED
      BY <2>2, <3>1, <3>2, <3>3, SameContents DEF TranCommit
  <2> QED
    BY <2>1, <2>2
<1> QED
  BY <1>1, <1>2 DEF AF!Commit, Shown, Lasting, RollsBack, InTransaction, Closed

\* An abort: the header, which is written first, is in the log.
LEMMA AtomicAbort ==
  ASSUME Inv, Inv', TranAbort
  PROVE  AF!RollBack
<1> USE LogAssumption DEF At, Undo
<1>1. /\ FileOK(file) /\ FileOK(file)' /\ LogOK /\ HdbOK /\ pc.at = "idle" /\ pc'.at = "undo" /\ hdb.tran
      /\ hdb' = hdb /\ log' = log /\ file' = MemSynced(hdb.flags)
      /\ RecsOK(log.recs, log.base) /\ log.recs # <<>>
  BY DEF Inv, Shapes, TranOK, LogOK, Applicable, TranAbort
<1>2. \A c \in 0 .. MaxFsiz - 1 : c >= Bucket => file'[c] = file[c]
  BY <1>1, HdbTypes, MemSyncedTypes
<1>3. ContentsOf(UndoneFile)' = ContentsOf(UndoneFile)
  BY <1>1, <1>2, UndoneSame DEF UndoneFile
<1> QED
  BY <1>1, <1>3 DEF AF!RollBack, Shown, Lasting, RollsBack, InTransaction, Closed

\* Its end: what the log brings back is in the file.
LEMMA AtomicAborted ==
  ASSUME Inv, AbortDone
  PROVE  AF!Ready
<1> USE LogAssumption DEF At, Idle, Go
<1>1. /\ pc.at = "aborted" /\ pc'.at = "idle" /\ file' = file /\ file = UndoneFile /\ hdb.tran /\ ~hdb'.tran
  BY DEF Inv, Shapes, HdbOK, RestoreOK, AbortDone, Reloaded, LoadMeta
<1> QED
  BY <1>1 DEF AF!Ready, Shown, Lasting, RollsBack, InTransaction, Closed

\* A step of a restoration changes nothing that is read or that lasts.
LEMMA AtomicRestore ==
  ASSUME Inv, Inv', WalRestore
  PROVE  UNCHANGED Promised
<1> USE LogAssumption DEF At
<1>1. /\ pc.at = "undo" /\ UndoOK /\ FileOK(file) /\ FileOK(file)' /\ LogOK /\ LogOK' /\ HdbOK
      /\ log' = log /\ hdb' = hdb /\ Applicable(log)
  BY DEF Inv, Shapes, PcOK, UndoOK, WalRestore
<1>2. CASE pc.n > 0
  <2>1. PICK n : n = pc.n
    OBVIOUS
  <2>2. n \in 1 .. Len(log.recs) /\ Len(log.recs) \in Nat
    BY <1>1, <1>2, <2>1, LenProperties DEF UndoOK, LogOK, RecsOK
  <2>3. file' = Back(file, n) /\ pc'.at = "undo" /\ pc'.n = n - 1
    BY <1>1, <1>2, <2>1 DEF WalRestore, Back, NewestFirst, UndoOK
  <2>4. UndoneFile' = UndoneFile
    BY <1>1, <2>2, <2>3, RecordBack DEF UndoneFile
  <2>5. ~hdb.tran => file[Flags] = 1
    BY <1>1, <1>2 DEF Inv, RestoreOK
  <2>6. hdb.tran \/ file'[Flags] = 1 \/ file' = UndoneFile'
    <3>1. CASE n > 1
      BY <1>1, <2>2, <2>3, <3>1 DEF Inv, RestoreOK
    <3>2. CASE ~(n > 1)
      <4>1. n = 1 /\ BackFrom(file, n + 1)
        <5>1. n = 1 /\ (n + 1) - 1 = pc.n
          BY <2>1, <2>2, <3>2
        <5> QED
          BY <1>1, <5>1 DEF Inv, RestoreOK, BackFrom, UndoneFile
      <4>2. BackFrom(file', 1)
        BY <1>1, <2>2, <2>3, <4>1, RecordBack
      <4>3. BackFrom(file, 1)'
        BY <1>1, <4>2 DEF BackFrom, Held
      <4>4. (FileOK(file) /\ LogOK /\ BackFrom(file, 1) => file = UndoneFile)'
        BY Restored, PTL
      <4> QED
        BY <1>1, <4>3, <4>4
    <3> QED
      BY <3>1, <3>2
  <2>7. Lasting = ContentsOf(UndoneFile) /\ Lasting' = ContentsOf(UndoneFile')
    BY <1>1, <2>3, <2>5, <2>6 DEF Lasting, RollsBack
  <2> QED
    BY <1>1, <2>3, <2>4, <2>7 DEF Promised, Shown, InTransaction, Closed
<1>3. CASE ~(pc.n > 0)
  <2>1. /\ file' = Truncated(file, log.base) /\ pc' = pc.next /\ pc.n = 0
        /\ pc'.at \in IF hdb.tran THEN {"aborted", "unlink"} ELSE {"reload", "loadfbp"}
    BY <1>1, <1>3, LenProperties DEF WalRestore, UndoOK
  <2>2. BackFrom(file, 1)
    BY <1>1, <2>1 DEF Inv, RestoreOK, BackFrom, UndoneFile
  <2>3. file = UndoneFile
    BY <1>1, <2>2, Restored
  <2>4. file' = UndoneFile'
    BY <1>1, <2>1, <2>2, AllBack DEF UndoneFile, Applicable
  <2>5. file[Fsiz] = log.base /\ log.base \in Frec .. MaxFsiz
    BY <1>1, <2>3, UndoneHeader DEF UndoneFile, LogOK, RecsOK, Applicable
  <2>6. Same(file', file)
    BY <1>1, <2>1, <2>5 DEF Same, Truncated, FileOK, Fsiz, Bucket, Frec
  <2>7. ContentsOf(file') = ContentsOf(file)
    BY <1>1, <2>6, SameContents
  <2>8. Lasting = ContentsOf(file) /\ Lasting' = ContentsOf(file')
    BY <2>3, <2>4 DEF Lasting
  <2> QED
    BY <1>1, <2>1, <2>7, <2>8 DEF Promised, Shown, InTransaction, Closed
<1> QED
  BY <1>2, <1>3

\* A close: what is cut off is past the end of the file, and logged if it was not
\* past that at the beginning of a transaction.
LEMMA AtomicClose ==
  ASSUME Inv, Inv', CloseTruncate
  PROVE  AF!RollBack
<1> USE LogAssumption DEF At, Go, Undo
<1>1. /\ pc.at = "cut" /\ FileOK(file) /\ FileOK(file)' /\ LogOK /\ HdbOK /\ log' = log /\ hdb' = hdb
      /\ file' = Truncated(file, hdb.fsiz) /\ file[Fsiz] = hdb.fsiz /\ hdb.fsiz \in Frec .. MaxFsiz
      /\ pc'.at = IF hdb.tran THEN "undo" ELSE "unlink"
  BY HdbTypes DEF Inv, Shapes, HdbOK, RestoreOK, CloseTruncate, Frec
<1>2. \A c \in 0 .. MaxFsiz - 1 : c < hdb.fsiz => file'[c] = file[c]
  BY <1>1 DEF Truncated, FileOK
<1>3. CASE hdb.tran
  <2>1. RecsOK(log.recs, log.base) /\ log.recs # <<>> /\ Logged(hdb.fsiz, MaxFsiz)
    BY <1>1, <1>3 DEF Inv, TranOK, InTransaction, LogOK, Applicable
  <2>2. ASSUME NEW c \in 0 .. MaxFsiz - 1, c < log.base, ~HeldBy(log.recs, c)
        PROVE  file'[c] = file[c]
    BY <1>1, <1>2, <2>1, <2>2 DEF Logged, Held
  <2>3. ContentsOf(UndoneFile)' = ContentsOf(UndoneFile)
    BY <1>1, <2>1, <2>2, UndoneSame DEF UndoneFile
  <2> QED
    BY <1>1, <1>3, <2>3 DEF AF!RollBack, Shown, Lasting, RollsBack, InTransaction, Closed
<1>4. CASE ~hdb.tran
  <2>1. Same(file', file)
    BY <1>1, <1>2 DEF Same, Fsiz, Bucket, Frec
  <2>2. ContentsOf(file') = ContentsOf(file)
    BY <1>1, <2>1, SameContents
  <2> QED
    BY <1>1, <1>4, <2>2 DEF AF!RollBack, Shown, Lasting, RollsBack, InTransaction, Closed
<1> QED
  BY <1>3, <1>4

\* The log is removed when what it brings back is in the file.
LEMMA AtomicClosed ==
  ASSUME Inv, CloseDone
  PROVE  UNCHANGED Promised
<1> USE LogAssumption DEF At, Go
<1>1. /\ pc.at = "unlink" /\ pc'.at = "down" /\ file' = file /\ ~hdb'.tran
      /\ file[Flags] = 0 /\ (hdb.tran => file = UndoneFile)
  BY DEF Inv, RestoreOK, CloseDone, NoDB
<1> QED
  BY <1>1 DEF Promised, Shown, Lasting, RollsBack, InTransaction, Closed

\* The file is opened, or made anew.
LEMMA AtomicOpen ==
  ASSUME Inv, NEW trunc \in BOOLEAN, Open(trunc)
  PROVE  AF!Create \/ UNCHANGED Promised
<1> USE LogAssumption DEF At, Go, Undo
<1>1. /\ pc.at = "down" /\ ~hdb.tran /\ ~hdb'.tran
      /\ pc'.at = IF file'[Flags] = 1 /\ Applicable(log)' THEN "undo" ELSE "loadfbp"
  BY DEF Inv, Shapes, HdbOK, NoDB, Open, Applicable
<1>2. CASE trunc
  <2>1. file' = EmptyFile /\ file'[Flags] # 1
    BY <1>2 DEF Open, EmptyFile, Flags, Fsiz
  <2> QED
    BY <1>1, <2>1 DEF AF!Create, Shown, Lasting, RollsBack, InTransaction, Closed
<1>3. CASE ~trunc
  <2>1. file' = file /\ log' = log
    BY <1>3 DEF Open
  <2> QED
    BY <1>1, <2>1 DEF Promised, Shown, Lasting, RollsBack, InTransaction, Closed, UndoneFile, Applicable
<1> QED
  BY <1>2, <1>3

\* Its header is read again, and its pool.
LEMMA AtomicLoad ==
  ASSUME Inv, Inv', OpenReload \/ LoadPool
  PROVE  UNCHANGED Promised
<1> USE LogAssumption DEF At, Go
<1>1. /\ pc.at \in {"reload", "loadfbp"} /\ pc'.at \in {"loadfbp", "flag"} /\ FileOK(file) /\ FileOK(file)'
      /\ ~hdb.tran /\ HdbOK
  BY DEF Inv, Shapes, TranOK, OpenReload, LoadPool
<1>2. ~hdb'.tran
  BY <1>1 DEF OpenReload, LoadPool, LoadMeta, HdbOK
<1>3. Same(file', file)
  BY <1>1 DEF OpenReload, LoadPool, Same, FileOK, Fsiz, Bucket, Msiz, Frec
<1>4. ContentsOf(file') = ContentsOf(file)
  BY <1>1, <1>3, SameContents
<1> QED
  BY <1>1, <1>2, <1>4 DEF Promised, Shown, Lasting, RollsBack, InTransaction, Closed

\* It is open.
LEMMA AtomicOpened ==
  ASSUME Inv, Inv', OpenDone
  PROVE  AF!Ready
<1> USE LogAssumption DEF At, Go, Idle
<1>1. /\ pc.at = "flag" /\ pc'.at = "idle" /\ FileOK(file) /\ FileOK(file)' /\ ~hdb.tran /\ HdbOK
      /\ file' = [file EXCEPT ![Flags] = 1] /\ hdb' = [hdb EXCEPT !.flags = 1]
  BY DEF Inv, Shapes, TranOK, OpenDone, SetFlag
<1>2. ~hdb'.tran
  BY <1>1 DEF HdbOK
<1>3. Same(file', file)
  BY <1>1 DEF Same, FileOK, Flags, Fsiz, Bucket, Frec
<1>4. ContentsOf(file') = ContentsOf(file)
  BY <1>1, <1>3, SameContents
<1> QED
  BY <1>1, <1>2, <1>4 DEF AF!Ready, Shown, Lasting, RollsBack, InTransaction, Closed

\* A death at any step: the log of an open transaction, or of one that is being
\* rolled back, is found at the next opening, and no other.
LEMMA AtomicDeath ==
  ASSUME "log" \notin Leftovers, Inv, Die
  PROVE  AF!RollBack
<1> USE LogAssumption DEF At, Go
<1>1. /\ pc.at # "down" /\ pc'.at = "down" /\ file' = file /\ ~hdb'.tran /\ log'.recs = log.recs
      /\ (Applicable(log) => file[Flags] = 1 /\ (hdb.tran \/ pc.at = "undo"))
  BY DEF Inv, Shapes, FileOK, Fits, LogOK, Die, LogLeft, NoDB, Flags
<1>2. hdb.tran => Applicable(log)
  BY DEF Inv, TranOK
<1>3. UndoneFile' = UndoneFile /\ Applicable(log)' = Applicable(log)
  BY <1>1 DEF UndoneFile, Applicable
<1>4. Lasting' = Lasting /\ Shown' = Lasting'
  BY <1>1, <1>2, <1>3 DEF Lasting, Shown, RollsBack
<1> QED
  BY <1>1, <1>4 DEF AF!RollBack, InTransaction, Closed

---------------------------------------------------------------------------
(* Atomicity: the theorem *)

\* At first the file is new, and nobody has opened it.
LEMMA AtomicInit == Init => AF!Init
<1> SUFFICES ASSUME Init PROVE AF!Init
  OBVIOUS
<1>1. file[Flags] = 0
  BY LogAssumption DEF Init, EmptyFile, Flags, Fsiz
<1>2. file = EmptyFile /\ pc.at = "down" /\ ~hdb.tran
  BY DEF Init, NoDB, Go
<1> QED
  BY <1>1, <1>2 DEF AF!Init, Shown, Lasting, RollsBack, InTransaction, Closed

\* Every step is one of the abstract specification, or changes nothing there.
LEMMA AtomicStep ==
  ASSUME "log" \notin Leftovers, "bucket" \notin LogFails, Inv, Inv', [Next]_vars
  PROVE  [AF!Next]_Promised
<1>1. CASE Writes
  BY <1>1, AtomicWrite, AtomicStore, AtomicHeader DEF Writes, AF!Next
<1>2. CASE Transactions
  BY <1>2, AtomicBeginning, AtomicBegun, AtomicCommit, AtomicAbort, AtomicAborted, AtomicRestore
  DEF Transactions, AF!Next
<1>3. CASE Copy \/ CopyUnflag \/ CopyDone \/ Close \/ CloseUnflag \/ CloseTruncate \/ CloseDone
  BY <1>3, AtomicWrite, AtomicHeader, AtomicClose, AtomicClosed DEF AF!Next
<1>4. CASE (\E trunc \in BOOLEAN : Open(trunc)) \/ OpenReload \/ LoadPool \/ OpenDone \/ Die
  BY <1>4, AtomicOpen, AtomicLoad, AtomicOpened, AtomicDeath DEF AF!Next
<1>5. CASE UNCHANGED vars
  BY <1>5
  DEF vars, Promised, Shown, Lasting, RollsBack, InTransaction, Closed, UndoneFile, Applicable, At
<1> QED
  BY <1>1, <1>2, <1>3, <1>4, <1>5 DEF Next

\* The log keeps the promise of transactions, for files and logs of every size:
\* where a log does not outlive its transaction and the records of the bucket
\* array can be written, a commit makes what was updated last, and an abort, a
\* close and a death at any step take all of it back, also a death in the middle
\* of a restoration and one that cuts the last record of the log short.
THEOREM LogIsAtomic ==
  "log" \notin Leftovers /\ "bucket" \notin LogFails => (Spec => TransactionsAtomic)
<1> SUFFICES ASSUME "log" \notin Leftovers, "bucket" \notin LogFails
             PROVE  Spec => TransactionsAtomic
  OBVIOUS
<1>1. Inv /\ Inv' /\ [Next]_vars => [AF!Next]_<<Shown, Lasting, InTransaction, ~Closed>>
  BY AtomicStep DEF Promised
<1> QED
  BY LogIsSound, AtomicInit, <1>1, PTL DEF Spec, TransactionsAtomic, AF!Spec
================================================================================
