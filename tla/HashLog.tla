-------------------------------- MODULE HashLog --------------------------------
(***************************************************************************)
(* Transactions of the hash database and the log of old contents that they *)
(* write ahead (jni/cpp/tchdb.c): beginning, committing, aborting and      *)
(* voiding a transaction, writes through the log, copying, closing and     *)
(* opening the file, and the death of the process between any two steps.   *)
(*                                                                         *)
(* The file is an array of cells: the open flag, the file size, a bucket,  *)
(* the area where the pool of free blocks is saved, and segments of a cell *)
(* each.  What is past the end of the file reads 0.  The pool holds one    *)
(* block.  A death loses the object's memory and no write to a file; the   *)
(* failure of a file system call is explored for writes to the log and for *)
(* the commit.  Truncating the file at opening (HDBOTRUNC) is one step.    *)
(***************************************************************************)
EXTENDS Integers, Sequences

CONSTANTS
  MaxFsiz,     \* bound: the largest file explored, in cells
  MaxLog,      \* bound: the records of the log
  Lens,        \* the numbers of cells of appended records
  LogFails,    \* the targets ("bucket", "file") whose log record may fail
  CommitFails, \* whether synchronizing or truncating may fail in a commit
  Leftovers    \* bound: what may be left behind, of
               \* "log": a log, by a death after its transaction was over
               \* "torn": a log whose last record was cut short by a death
               \* "pool": the pool a copy saved, at the beginning of a transaction

ASSUME LogAssumption ==
  /\ MaxFsiz \in Nat /\ MaxFsiz >= 4  \* Frec: a file has a header, if no record
  /\ MaxLog \in Nat /\ Lens \subseteq Nat \ {0}
  /\ LogFails \subseteq {"bucket", "file"} /\ CommitFails \in BOOLEAN
  /\ Leftovers \subseteq {"log", "pool", "torn"}

VARIABLES
  file,    \* [0 .. MaxFsiz - 1 -> Nat]
  log,     \* the log file: the size of the database, then old contents
  hdb,     \* the TCHDB object
  pc       \* what the caller is in the middle of

vars == <<file, log, hdb, pc>>

Flags == 0        \* HDBFLAGSOFF: 1 when HDBFOPEN is set
Fsiz == 1         \* HDBFSIZOFF
HeadSize == 2     \* HDBHEADSIZ
Bucket == 2
Msiz == 3         \* the saved pool: the offset of a free block, or 0
Frec == 4         \* the first segment
Free == 0         \* a segment that is a free block; 1 is a record

NoLog == [base |-> -1, recs |-> <<>>, torn |-> FALSE]

EmptyFile == [c \in 0 .. MaxFsiz - 1 |-> IF c = Fsiz THEN Frec ELSE 0]

NoDB == [flags |-> 0, fsiz |-> 0, tran |-> FALSE, fatal |-> FALSE,
         walfd |-> FALSE, walend |-> 0, fbpool |-> 0]

At(label) == pc.at = label
Go(label) == [at |-> label]
Idle == Go("idle")

Init == file = EmptyFile /\ log = NoLog /\ hdb = NoDB /\ pc = Go("down")

---------------------------------------------------------------------------
(* The file, its header and the log *)

Lesser(a, b) == IF a <= b THEN a ELSE b

\* Written at `off'.
Written(f, off, buf) ==
  [c \in DOMAIN f |-> IF c \in off .. off + Len(buf) - 1 THEN buf[c - off + 1] ELSE f[c]]

\* ftruncate, and the zeros that are read past the end.
Truncated(f, size) == [c \in DOMAIN f |-> IF c < size THEN f[c] ELSE 0]

SetFlag(sign) ==
  LET f == IF sign THEN 1 ELSE 0
  IN file' = [file EXCEPT ![Flags] = f] /\ hdb' = [hdb EXCEPT !.flags = f]

\* tchdbmemsync: the header out of memory, with the open flag `f'.
MemSynced(f) == [file EXCEPT ![Flags] = f, ![Fsiz] = hdb.fsiz]

LoadMeta(h) == [h EXCEPT !.flags = file[Flags], !.fsiz = file[Fsiz]]

\* A record of the log: what `n' cells from `off' on hold.
Kept(f, off, n) == [off |-> off, was |-> [i \in 1 .. n |-> f[off + i - 1]]]

\* What is behind the end the file had at the beginning is not logged.
Clip(off, n) == Lesser(off + n, hdb.walend) - off

\* tchdbwalwrite.
WalWritten(off, n) ==
  IF Clip(off, n) < 1 THEN log
  ELSE [log EXCEPT !.recs = Append(@, Kept(file, off, Clip(off, n)))]

\* The log is long enough for tchdbwalrestore: a size and the header's record.
Applicable(l) == l.recs # <<>>

---------------------------------------------------------------------------
(* Writes *)

\* tchdbseekwrite and tchdbsetbucket: a step for the log in a transaction, and
\* a step for the file; then to `next', or to `failed' when nothing was written.
Write(off, buf, next, failed) ==
  LET store == [at |-> "store", off |-> off, buf |-> buf, next |-> next]
  IN IF hdb.tran
     THEN [at |-> "log", off |-> off, n |-> Len(buf), done |-> store,
           failed |-> IF off = Bucket THEN store ELSE failed]
     ELSE store

\* tchdbsetbucket writes even when the log could not be written.
LogWrite ==
  /\ At("log") /\ UNCHANGED file
  /\ \/ /\ log' = WalWritten(pc.off, pc.n) /\ pc' = pc.done /\ UNCHANGED hdb
     \/ /\ (IF pc.off = Bucket THEN "bucket" ELSE "file") \in LogFails
        /\ hdb' = [hdb EXCEPT !.fatal = TRUE] /\ pc' = pc.failed /\ UNCHANGED log

Store ==
  /\ At("store") /\ UNCHANGED <<log, hdb>>
  /\ file' = Written(file, pc.off, pc.buf)
  /\ pc' = IF pc.off + Len(pc.buf) > hdb.fsiz
           THEN [at |-> "resize", fsiz |-> pc.off + Len(pc.buf)] ELSE pc.next

\* The end of the file moves, in memory and in the header.
Resize ==
  /\ At("resize") /\ pc' = Idle /\ UNCHANGED log
  /\ hdb' = [hdb EXCEPT !.fsiz = pc.fsiz]
  /\ file' = LET f == [file EXCEPT ![Fsiz] = pc.fsiz]
             IN IF hdb.tran \/ pc.fsiz > hdb.fsiz THEN f ELSE Truncated(f, pc.fsiz)

CanWrite == At("idle") /\ (hdb.tran => Len(log.recs) < MaxLog)

\* A record at the end of the file, in a block of the pool or over a record.
PutRecord ==
  /\ CanWrite /\ UNCHANGED <<file, log>>
  /\ \E n \in Lens, off \in Frec .. hdb.fsiz :
       /\ off + n <= MaxFsiz
       /\ off < hdb.fsiz => n = 1 /\ (off = hdb.fbpool \/ file[off] # Free)
       /\ pc' = Write(off, [i \in 1 .. n |-> 1], Idle, Idle)
       /\ hdb' = [hdb EXCEPT !.fbpool = IF @ = off THEN 0 ELSE @]

\* A record becomes a free block; tchdbfbpinsert follows the write.
FreeRecord ==
  /\ CanWrite /\ UNCHANGED <<file, log, hdb>>
  /\ \E off \in Frec .. hdb.fsiz - 1 :
       file[off] # Free /\ pc' = Write(off, <<Free>>, [at |-> "insert", off |-> off], Idle)

InsertBlock ==
  /\ At("insert") /\ pc' = Idle /\ UNCHANGED <<file, log>>
  /\ hdb' = [hdb EXCEPT !.fbpool = pc.off]

SetBucket ==
  /\ CanWrite /\ UNCHANGED <<file, log, hdb>>
  /\ pc' = Write(Bucket, <<1 - file[Bucket]>>, Idle, Idle)

\* The end of tchdbdefragimpl: a free block at the end of the file is cut off.
CutTail ==
  LET dest == hdb.fsiz - 1
      cut == [at |-> "resize", fsiz |-> dest]
  IN /\ CanWrite /\ dest >= Frec /\ file[dest] = Free /\ UNCHANGED <<file, log>>
     /\ hdb' = [hdb EXCEPT !.fbpool = IF @ = dest THEN 0 ELSE @]
     /\ pc' = IF hdb.tran
              THEN [at |-> "log", off |-> dest, n |-> 1, done |-> cut, failed |-> Idle]
              ELSE cut

Writes == LogWrite \/ Store \/ Resize \/ PutRecord \/ FreeRecord \/ InsertBlock
            \/ SetBucket \/ CutTail

---------------------------------------------------------------------------
(* Transactions *)

\* tchdbtranbegin up to the opening of the log.
TranBegin ==
  /\ At("idle") /\ ~hdb.tran /\ ~hdb.fatal
  /\ file[Msiz] # 0 => "pool" \in Leftovers
  /\ file' = MemSynced(hdb.flags)
  /\ log' = IF hdb.walfd THEN log ELSE NoLog
  /\ hdb' = [hdb EXCEPT !.walfd = TRUE] /\ pc' = Go("unflag")

BeginUnflag == At("unflag") /\ SetFlag(FALSE) /\ pc' = Go("waltrunc") /\ UNCHANGED log

WalTruncate ==
  At("waltrunc") /\ log' = NoLog /\ pc' = Go("walsize") /\ UNCHANGED <<file, hdb>>

WalSize ==
  /\ At("walsize") /\ UNCHANGED file
  /\ \/ /\ log' = [log EXCEPT !.base = hdb.fsiz]
        /\ hdb' = [hdb EXCEPT !.walend = hdb.fsiz] /\ pc' = Go("walhead")
     \/ /\ "file" \in LogFails /\ pc' = Go("notbegun")
        /\ hdb' = [hdb EXCEPT !.fatal = TRUE] /\ UNCHANGED log

HeadLogged(l) == [l EXCEPT !.recs = Append(@, Kept(file, 0, HeadSize))]

WalHead ==
  /\ At("walhead") /\ UNCHANGED file
  /\ \/ log' = HeadLogged(log) /\ pc' = Go("begun") /\ UNCHANGED hdb
     \/ /\ "file" \in LogFails /\ pc' = Go("notbegun")
        /\ hdb' = [hdb EXCEPT !.fatal = TRUE] /\ UNCHANGED log

BeginDone ==
  /\ pc.at \in {"begun", "notbegun"} /\ pc' = Idle /\ UNCHANGED log
  /\ file' = [file EXCEPT ![Flags] = 1]
  /\ hdb' = [hdb EXCEPT !.flags = 1, !.tran = At("begun")]

TranCommit ==
  /\ At("idle") /\ hdb.tran /\ ~hdb.fatal /\ UNCHANGED pc
  /\ file' = MemSynced(hdb.flags)
  /\ \/ log' = NoLog /\ hdb' = [hdb EXCEPT !.tran = FALSE]
     \/ /\ CommitFails /\ hdb' = [hdb EXCEPT !.tran = FALSE, !.fatal = TRUE]
        /\ UNCHANGED log

\* Callers void a transaction only when it has updated nothing (tchdb.h:861).
TranVoid ==
  /\ At("idle") /\ hdb.tran /\ ~hdb.fatal /\ Len(log.recs) = 1 /\ UNCHANGED <<file, log, pc>>
  /\ hdb' = [hdb EXCEPT !.tran = FALSE]

\* tchdbwalrestore: the records from the last to the first, then the size.
Undo(next) == [at |-> "undo", n |-> Len(log.recs), next |-> next]

\* Mutant: the records in the order they were written.
OldestFirst(n) == Len(log.recs) - n + 1

NewestFirst(n) == n

WalRestore ==
  /\ At("undo") /\ UNCHANGED <<log, hdb>>
  /\ IF pc.n > 0
     THEN LET r == log.recs[NewestFirst(pc.n)]
          IN file' = Written(file, r.off, r.was) /\ pc' = [pc EXCEPT !.n = @ - 1]
     ELSE file' = Truncated(file, log.base) /\ pc' = pc.next

TranAbort ==
  /\ At("idle") /\ hdb.tran /\ UNCHANGED <<log, hdb>>
  /\ file' = MemSynced(hdb.flags) /\ pc' = Undo(Go("aborted"))

\* Mutant: the size and the flags stay as the transaction left them.
ForgetPool(h) == [h EXCEPT !.fbpool = 0, !.tran = FALSE]

\* Mutant: the pool stays as the transaction left it.
ReloadMeta(h) == [LoadMeta(h) EXCEPT !.tran = FALSE]

\* The end of tchdbtranabort.
Reloaded(h) == [LoadMeta(h) EXCEPT !.fbpool = 0, !.tran = FALSE]

AbortDone == At("aborted") /\ hdb' = Reloaded(hdb) /\ pc' = Idle /\ UNCHANGED <<file, log>>

Transactions ==
  TranBegin \/ BeginUnflag \/ WalTruncate \/ WalSize \/ WalHead \/ BeginDone
    \/ TranCommit \/ TranVoid \/ TranAbort \/ AbortDone \/ WalRestore

---------------------------------------------------------------------------
(* Copying, closing, opening, dying *)

\* tchdbcopyimpl: the pool is saved; the copy is taken with the flag cleared.
Copy == /\ CanWrite /\ UNCHANGED <<file, log, hdb>>
        /\ pc' = Write(Msiz, <<hdb.fbpool>>, Go("copy"), Go("copy"))

CopyUnflag == At("copy") /\ file' = [MemSynced(hdb.flags) EXCEPT ![Flags] = 0]
              /\ hdb' = [hdb EXCEPT !.flags = 0] /\ pc' = Go("copied") /\ UNCHANGED log

CopyDone == At("copied") /\ SetFlag(TRUE) /\ pc' = Idle /\ UNCHANGED log

\* tchdbcloseimpl: a transaction's pool is not saved.
Close ==
  LET pool == IF hdb.tran THEN 0 ELSE hdb.fbpool
  IN /\ At("idle") /\ UNCHANGED <<file, log>>
     /\ hdb' = [hdb EXCEPT !.fbpool = pool]
     /\ pc' = Write(Msiz, <<pool>>, Go("closing"), Go("closing"))

CloseUnflag == At("closing") /\ file' = MemSynced(0) /\ hdb' = [hdb EXCEPT !.flags = 0]
               /\ pc' = Go("cut") /\ UNCHANGED log

CloseTruncate ==
  /\ At("cut") /\ UNCHANGED <<log, hdb>>
  /\ file' = Truncated(file, hdb.fsiz)
  /\ pc' = IF hdb.tran THEN Undo(Go("unlink")) ELSE Go("unlink")

\* Only a log that this object has opened is removed.
CloseDone ==
  /\ At("unlink") /\ UNCHANGED file
  /\ log' = IF hdb.walfd /\ ~hdb.fatal THEN NoLog ELSE log
  /\ hdb' = NoDB /\ pc' = Go("down")

\* tchdbopenimpl up to the restoration.
Open(trunc) ==
  /\ At("down")
  /\ file' = IF trunc THEN EmptyFile ELSE file
  /\ log' = IF trunc THEN NoLog ELSE log
  /\ hdb' = [hdb EXCEPT !.flags = file'[Flags], !.fsiz = file'[Fsiz]]
  /\ pc' = IF file'[Flags] = 1 /\ Applicable(log')
           THEN Undo(Go(IF log.torn THEN "loadfbp" ELSE "reload")) ELSE Go("loadfbp")

OpenReload == At("reload") /\ hdb' = LoadMeta(hdb) /\ log' = NoLog
              /\ pc' = Go("loadfbp") /\ UNCHANGED file

\* The saved pool counts only if the file was closed.
PoolLoaded == IF hdb.flags = 0 THEN file[Msiz] ELSE 0

LoadPool == /\ At("loadfbp") /\ UNCHANGED log
            /\ hdb' = [hdb EXCEPT !.fbpool = PoolLoaded]
            /\ file' = [file EXCEPT ![Msiz] = 0] /\ pc' = Go("flag")

OpenDone == At("flag") /\ SetFlag(TRUE) /\ pc' = Idle /\ UNCHANGED log

\* A log that the next opening should not see, or will not remove.
LogLeft == Applicable(log) /\ (file[Flags] = 0 \/ ~(hdb.tran \/ At("undo")))

\* The process dies, perhaps in the middle of a write to the log.
Die ==
  /\ ~At("down")
  /\ LogLeft => "log" \in Leftovers
  /\ hdb' = NoDB /\ pc' = Go("down") /\ UNCHANGED file
  /\ log' \in {log} \cup (IF At("log") /\ "torn" \in Leftovers
                          THEN {[log EXCEPT !.torn = TRUE]} ELSE {})

Next == \/ Writes \/ Transactions
        \/ Copy \/ CopyUnflag \/ CopyDone
        \/ Close \/ CloseUnflag \/ CloseTruncate \/ CloseDone
        \/ (\E trunc \in BOOLEAN : Open(trunc))
        \/ OpenReload \/ LoadPool \/ OpenDone \/ Die

Spec == Init /\ [][Next]_vars

---------------------------------------------------------------------------
(* Properties *)

Labels == {"idle", "down", "log", "store", "resize", "insert", "unflag", "waltrunc",
           "walsize", "walhead", "begun", "notbegun", "undo", "aborted", "copy",
           "copied", "closing", "cut", "unlink", "reload", "loadfbp", "flag"}

\* Type invariant: the file and the object keep their shape, a log has a size
\* before it has records, and no record reaches behind that size.
TypeOK ==
  /\ file \in [0 .. MaxFsiz - 1 -> 0 .. MaxFsiz] /\ pc.at \in Labels
  /\ log.base \in -1 .. MaxFsiz /\ (Applicable(log) => log.base >= Frec)
  /\ \A i \in DOMAIN log.recs : log.recs[i].off + Len(log.recs[i].was) <= log.base
  /\ hdb \in [flags : {0, 1}, fsiz : 0 .. MaxFsiz, tran : BOOLEAN, fatal : BOOLEAN,
              walfd : BOOLEAN, walend : 0 .. MaxFsiz, fbpool : {0} \cup Frec .. MaxFsiz - 1]

\* Between calls the object and the header of the file agree on where the file
\* ends: an aborted transaction leaves no end of its own behind, in memory
\* either.
EndsAgree == TypeOK /\ (At("idle") => hdb.fsiz = file[Fsiz])

\* The pool never offers a block that is not free: neither a rollback, which
\* brings records back, nor an opening, which may find the pool of an earlier
\* time in the file, leaves a record in it.
PoolIsFree ==
  At("idle") /\ hdb.fbpool # 0 => hdb.fbpool < hdb.fsiz /\ file[hdb.fbpool] = Free

\* What readers see of a file: the bucket and the segments.
ContentsOf(f) ==
  [i \in 1 .. f[Fsiz] - Frec + 1 |-> IF i = 1 THEN f[Bucket] ELSE f[Frec + i - 2]]

Holds(r, c) == c \in r.off .. r.off + Len(r.was) - 1

\* A file after the records of a log have been applied to it: of those that hold
\* a cell the oldest is applied last.
Undone(f, recs) ==
  [c \in DOMAIN f |->
     LET rs == {i \in DOMAIN recs : Holds(recs[i], c)}
         oldest == recs[CHOOSE i \in rs : \A j \in rs : i <= j]
     IN IF rs = {} THEN f[c] ELSE oldest.was[c - oldest.off + 1]]

UndoneFile == Undone(file, log.recs)

RollsBack ==
  hdb.tran \/ (pc.at \in {"down", "undo"} /\ file[Flags] = 1 /\ Applicable(log))

Lasting == ContentsOf(IF RollsBack THEN UndoneFile ELSE file)

Shown == IF pc.at \in {"down", "undo", "aborted"} THEN Lasting ELSE ContentsOf(file)

InTransaction == hdb.tran /\ pc.at \notin {"undo", "aborted", "unlink"}

\* No caller's update is under way: rolling back, closing and opening.
Closed == pc.at \in {"down", "undo", "aborted", "unlink", "reload", "loadfbp", "flag"}

AF == INSTANCE AtomicFile WITH
  Contents <- UNION {[1 .. n -> {0, 1}] : n \in 1 .. MaxFsiz},
  Empty <- ContentsOf(EmptyFile),
  shown <- Shown, fixed <- Lasting, tran <- InTransaction, ready <- ~Closed

\* The log keeps the promise of transactions: a commit makes the updates last,
\* an abort, a close and a death at any step take all of them back, also when
\* the process dies again and again while it is restoring; outside of
\* transactions a death takes nothing back.
TransactionsAtomic == AF!Spec
=============================================================================
