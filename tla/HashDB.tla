-------------------------------- MODULE HashDB ---------------------------------
(***************************************************************************)
(* The interface of the hash database (tchdb.c) over the file of HashFile: *)
(* one action per call, made by one thread, as mStore makes them (it never *)
(* installs the mutexes).  A writer that dies leaves the mapped file with  *)
(* the open mark set, as it was between two calls, or, where the model is  *)
(* told to trace the writes of a call, after any write of a put or an out. *)
(*                                                                         *)
(* What such a death spoils stays so until the file is rebuilt.  A descent *)
(* that meets what is not a record then goes on with stale or undefined    *)
(* fields: it may fail, or not come back.  The model has no step for it,   *)
(* and defragments no such file, as mStore never defragments.              *)
(***************************************************************************)
EXTENDS HashFile

CONSTANTS
  Vals,     \* the values a caller writes; also the results of putcat
  Absent,   \* no value
  NoKey,    \* no key
  Steps,    \* the step counts defrag is called with
  RunSteps, \* UINT8_MAX, the steps of one round of a whole defragmentation
  MaxFsiz   \* bound: the largest file explored

VARIABLES
  db,      \* the TCHDB object and its file
  status,  \* "open", "closed", or "dead": closed by the death of its process
  ret,     \* the error code and the key of the last call
  due,     \* history: keys the iterator has still to return
  seen,    \* history: keys the iterator has returned
  kept,    \* history: the value that each key not in doubt was last given
  doubt    \* history: the keys of calls that death cut short and those written
           \* into such a file later, until it is rebuilt

vars == <<db, status, ret, due, seen, kept, doubt>>
history == <<due, seen, kept, doubt>>

ASSUME TraceAssumption == Traced => DfUnit = 0

Answer(ecode, k) == [ecode |-> ecode, key |-> k]

Lookup(d, k) == LET off == Find(d, k).off IN IF off # 0 THEN d.seg[off].val ELSE Absent

Init == /\ db = EmptyDB /\ status = "open"
        /\ ret = Answer("success", NoKey)
        /\ due = {} /\ seen = {}
        /\ kept = [k \in Keys |-> Absent] /\ doubt = {}

Succeed == ret' = Answer("success", NoKey) /\ UNCHANGED status

Fail(ecode) == ret' = Answer(ecode, NoKey) /\ UNCHANGED <<db, status, history>>

\* A call that returned leaves no trace of its single writes.
Settled(d) == [d EXCEPT !.past = <<>>]

\* The automatic defragmentation runs whatever the call itself returned.
AutoSteps == DfUnit * 2 + 1

Written(k, v, d) == /\ status = "open" /\ d.fsiz <= MaxFsiz
                    /\ db' = Settled(AutoDefrag(d, AutoSteps))
                    /\ due' = due \ {k} /\ seen' = seen \ {k}
                    /\ kept' = [kept EXCEPT ![k] = IF doubt = {} THEN v ELSE Absent]
                    /\ doubt' = IF doubt = {} THEN {} ELSE doubt \cup {k}
                    /\ Succeed

Refused(ecode) == /\ status = "open" /\ ret' = Answer(ecode, NoKey)
                  /\ db' = AutoDefrag(db, AutoSteps)
                  /\ UNCHANGED <<status, history>>

\* The modes of tchdbputimpl for an existing record: HDBPDOVER, HDBPDKEEP and
\* HDBPDCAT.
Modes == {"over", "keep", "cat"}

\* The record of k when v is put into it.
Stored(dmode, k, v) == IF dmode = "cat" /\ Has(db, k) THEN Lookup(db, k) \o v ELSE v

Passable(k) == doubt # {} => SureOf(db, k)

Put(dmode, k, v) ==
  LET f == Find(db, k)
      new == Stored(dmode, k, v)
  IN /\ Passable(k) /\ new \in Vals
     /\ IF f.off # 0 /\ dmode = "keep" THEN Refused("keep")
        ELSE Written(k, new, IF f.off # 0 /\ dmode = "cat" /\ v = <<>> THEN db
                             ELSE PutRec(db, f, k, new))

Out(k) ==
  LET f == Find(db, k)
  IN /\ Passable(k)
     /\ IF f.off = 0 THEN Refused("norec")
        ELSE (doubt # {} => SureOfEnd(db, f)) /\ Written(k, Absent, RemoveRec(db, f))

IterInit == /\ status = "open"
            /\ db' = [db EXCEPT !.iter = Frec]
            /\ due' = {k \in Keys \ doubt : kept[k] # Absent} /\ seen' = {}
            /\ Succeed /\ UNCHANGED <<kept, doubt>>

\* The free blocks on the way are stepped over.
IterNext ==
  LET recs == Selected(OffsetsFrom(db, db.iter), {o \in DOMAIN db.seg : ~IsFB(db, o)})
      k    == db.seg[recs[1]].key
  IN /\ status = "open"
     /\ IF db.iter = 0 THEN Fail("invalid")
        ELSE IF recs = <<>>
        THEN /\ db' = [db EXCEPT !.iter = IF @ > db.fsiz THEN @ ELSE db.fsiz]
             /\ ret' = Answer("norec", NoKey)
             /\ UNCHANGED <<status, history>>
        ELSE /\ db' = [db EXCEPT !.iter = recs[1] + db.seg[recs[1]].rsiz]
             /\ ret' = Answer("success", k)
             /\ due' = due \ {k} /\ seen' = seen \cup {k}
             /\ UNCHANGED <<status, kept, doubt>>

\* tchdbdefrag with a step count.
Defrag(steps) == /\ status = "open" /\ doubt = {}
                 /\ db' = Settled(DefragImpl(db, steps))
                 /\ UNCHANGED history /\ Succeed

\* tchdbdefrag without one: rounds from the first segment on, until a round
\* does not advance the cursor.
DefragAll ==
  LET Round(a, o) ==
        LET d == DefragImpl(a.db, RunSteps)
        IN IF a.stop THEN a ELSE [db |-> d, stop |-> d.dfcur <= a.db.dfcur]
      start == [db |-> [db EXCEPT !.dfcur = Frec], stop |-> FALSE]
  IN /\ status = "open" /\ doubt = {}
     /\ db' = Settled(FoldLeft(Round, start, <<Frec>> \o Offsets(db)).db)
     /\ UNCHANGED history /\ Succeed

\* A rebuilding settles what the keys in doubt hold.
Optimise == /\ status = "open" /\ db' = Settled(Optimize(db))
            /\ due' = {} /\ seen' = {} /\ Succeed
            /\ kept' = [k \in Keys |-> IF k \in doubt THEN Lookup(db', k) ELSE kept[k]]
            /\ doubt' = {}

Emptied == /\ db' = EmptyDB /\ due' = {} /\ seen' = {}
           /\ kept' = [k \in Keys |-> Absent] /\ doubt' = {}

Vanish == status = "open" /\ Emptied /\ Succeed

Close == /\ status = "open" /\ status' = "closed"
         /\ db' = Closed(db) /\ UNCHANGED <<kept, doubt>>
         /\ due' = {} /\ seen' = {} /\ ret' = Answer("success", NoKey)

Dead == /\ status = "open" /\ status' = "dead" /\ ret' = Answer("success", NoKey)

Die == /\ Dead /\ db' = Volatile(db)
       /\ due' = {} /\ seen' = {} /\ UNCHANGED <<kept, doubt>>

\* What writing v to k, or Absent, does up to the point where it cannot go on.
Begun(k, v) ==
  LET f == Find(db, k)
  IN IF v # Absent THEN PutRec(db, f, k, v)
     ELSE IF f.off = 0 THEN db
     ELSE IF SureOfEnd(db, f) THEN RemoveRec(db, f)
     ELSE FreeFound(db, f, db.seg[f.off])

\* The process dies within a put or an out, after one of its writes.
DieWithin(k, v) ==
  /\ Dead /\ Traced /\ Passable(k) /\ Begun(k, v).fsiz <= MaxFsiz
  /\ \E i \in DOMAIN Begun(k, v).past : db' = LeftOver(Begun(k, v).past[i])
  /\ doubt' = doubt \cup {k} /\ kept' = [kept EXCEPT ![k] = Absent]
  /\ due' = {} /\ seen' = {}

\* The process dies when the old file is unlinked and the rebuilt one has not
\* taken its name; the next opening makes an empty file.
DieUnlinked == Dead /\ Traced /\ Emptied

Open == /\ status # "open" /\ status' = "open"
        /\ db' = Opened(db, status = "dead") /\ UNCHANGED <<kept, doubt>>
        /\ due' = {} /\ seen' = {} /\ ret' = Answer("success", NoKey)

\* Every other call finds no file descriptor.
CallClosed == status = "closed" /\ Fail("invalid")

Next ==
  \/ \E dmode \in Modes, k \in Keys, v \in Vals : Put(dmode, k, v)
  \/ \E k \in Keys : Out(k)
  \/ IterInit \/ IterNext
  \/ \E n \in Steps : Defrag(n)
  \/ DefragAll \/ Optimise \/ Vanish
  \/ Close \/ Die \/ Open \/ CallClosed
  \/ \E k \in Keys, v \in Vals \cup {Absent} : DieWithin(k, v)
  \/ DieUnlinked

Spec == Init /\ [][Next]_vars

---------------------------------------------------------------------------
(* Properties *)

\* Type invariant.
TypeOK ==
  /\ status \in {"open", "closed", "dead"}
  /\ ret \in [ecode : {"success", "keep", "norec", "invalid"}, key : Keys \cup {NoKey}]
  /\ due \subseteq Keys /\ seen \subseteq Keys
  /\ kept \in [Keys -> Vals \cup {Absent}] /\ doubt \subseteq Keys

\* No sequence of calls leaves a gap, an overlap or a misaligned header in the
\* file: a reader that walks it from the first segment reaches its end.
LayoutSound == TypeOK /\ Tiled(db)

\* The trees of the buckets hold exactly the records of the file, with the
\* values last written, whatever was removed, moved or spliced before; and if
\* the process died within a call, again from the next rebuilding on.
TreesSound == doubt = {} => Searchable(db) /\ \A k \in Keys : Lookup(db, k) = kept[k]

\* Wherever in a call the process dies, the file can be walked to its end, and
\* the walk, by which keys are listed, old records evicted and the file rebuilt,
\* finds every other key once, with its value: what tchdbremoverec and
\* tchdbwriterec leave half done is only a matter of the tree.
WalkSound ==
  /\ Tiled(db)
  /\ \A k \in Keys \ doubt :
       LET offs == {o \in LiveRecs(db) : db.seg[o].key = k}
       IN /\ kept[k] = Absent <=> offs = {}
          /\ \A o \in offs : offs = {o} /\ db.seg[o].val = kept[k]

\* The free block pool never offers a byte that a record uses or that another
\* of its blocks offers, and never outgrows its memory.
FreeBlocksSound == status = "open" => PoolSound(db)

\* The iterator and the defragmentation cursor survive every change of the
\* segments under them.
CursorsOnSegments == status = "open" => CursorsSound(db)

\* The calls implement a dictionary with an iterator that neither skips nor
\* repeats a key (the comment above tchdbiternext in tchdb.h).
Dictionary == INSTANCE KVStore WITH kv <- [k \in Keys |-> Lookup(db, k)]

ImplementsDictionary == Dictionary!Spec

\* The file grows only for data: optimizing, defragmenting, opening and
\* overwriting with what is there already never need more room than there is.
\* mStore::insert and reMaxSize count on it when they optimize a full store.
OnlyDataGrows ==
  [][db'.fsiz > db.fsiz => \E k \in Keys : Lookup(db', k) # Lookup(db, k)]_vars
=============================================================================
