---------------------------------- MODULE MemDB --------------------------------
(***************************************************************************)
(* The on-memory hash database of jni/cpp/tcutil.c (TCMDB): hash maps, one *)
(* readers-writer lock for each, an iterator that goes through the maps    *)
(* one after the other, and one mutex for the iterator.                    *)
(*                                                                         *)
(* Threads make calls.  A step of a thread takes a lock, does what the     *)
(* code does to one map while it holds the lock, or gives locks back; a    *)
(* call on one key holds one lock and does its work in the step that gets  *)
(* it.  tcmdbiterinit does not lock the maps, so that it reads and writes  *)
(* each map in two steps.                                                  *)
(***************************************************************************)
EXTENDS TCMap

CONSTANTS
  Threads,
  MNum,      \* TCMDBMNUM, the number of maps
  MapOf,     \* [Keys -> 0 .. MNum - 1]: TCMDBHASH
  Prior,     \* the keys that may be stored, in this order, before the object is shared
  Calls,     \* the calls each thread makes
  MaxCalls,  \* bound: so many calls each of them makes
  Apart      \* the program keeps the calls that start an iteration apart from
             \* those that change or scan the maps

Maps == 0 .. MNum - 1

\* The calls, by the way they take the locks.
Reads == {"get", "vsiz"}
Writes == {"put", "putkeep", "putcat", "put3", "put4", "putcat3", "putproc",
           "addint", "out", "get3"}
Sweeps == {"vanish", "cutfront"}
Sums == {"rnum", "msiz"}
AfterImtx == [iterinit |-> "first", iterinit2 |-> "find", iternext |-> "next",
              fwmkeys |-> "scan"]

ASSUME MemDBAssumption ==
  /\ MNum \in Nat \ {0} /\ MapOf \in [Keys -> Maps]
  /\ DOMAIN Calls = Threads /\ MaxCalls \in [Threads -> Nat] /\ Prior \subseteq Seq(Keys)
  /\ Apart \in BOOLEAN /\ None \notin Threads
  /\ \A t \in Threads : \A c \in Calls[t] :
       /\ c[1] \in Reads \cup Writes \cup {"iterinit2"} => c[2] \in Keys
       /\ c[1] = "cutfront" => c[2] \in Nat
       /\ c[1] \in Reads \cup Writes \cup Sweeps \cup Sums \cup {"foreach"} \cup DOMAIN AfterImtx

VARIABLES
  maps,  \* the maps
  mmtx,  \* their locks: the thread that writes, the threads that read
  imtx,  \* the thread that holds the iterator's mutex, or None
  iter,  \* the index of the map being iterated over, or -1
  pc,    \* what each thread does: the call, the place in it, the map it is at,
         \* and a pointer it has read
  left,  \* the calls each thread may still make
  due,   \* history: the keys stored since the iteration began, and not returned
  passed \* history: the keys that a record carried to the end took the iterator past

history == <<due, passed>>
vars == <<maps, mmtx, imtx, iter, pc, left, history>>

Idle == [at |-> "idle", call |-> <<"none">>, i |-> 0, x |-> None]

\* The maps a program has built up when it shares the object.
Filled(i, ks) ==
  LET filled[n \in 0 .. Len(ks)] ==
        IF n = 0 THEN NewMap
        ELSE IF MapOf[ks[n]] = i THEN MapPut(filled[n - 1], ks[n], <<>>) ELSE filled[n - 1]
  IN filled[Len(ks)]

Init == /\ \E ks \in Prior : maps = [i \in Maps |-> Filled(i, ks)]
        /\ mmtx = [i \in Maps |-> [w |-> None, r |-> {}]] /\ imtx = None
        /\ iter = -1 /\ pc = [t \in Threads |-> Idle]
        /\ left = MaxCalls /\ due = {} /\ passed = {}

KeysOf(i) == DOMAIN maps[i].recs

---------------------------------------------------------------------------
(* Calls *)

Starts == {"iterinit", "iterinit2"}
Changes == Writes \cup Sweeps \cup {"foreach"}

InCall(t, names) == pc[t].call[1] \in names

MayStart(c) ==
  Apart => /\ c[1] \in Starts => \A u \in Threads : ~InCall(u, Changes)
           /\ c[1] \in Changes => \A u \in Threads : ~InCall(u, Starts)

\* Where a call begins.
Door(c) == CASE c[1] \in Reads \cup Writes -> "key"
             [] c[1] \in Sweeps -> "sweep"
             [] c[1] \in Sums -> "sum"
             [] c[1] = "foreach" -> "collect"
             [] OTHER -> "imtx"

Start(t, c) ==
  /\ pc[t] = Idle /\ left[t] > 0 /\ MayStart(c)
  /\ left' = [left EXCEPT ![t] = @ - 1]
  /\ pc' = [pc EXCEPT ![t] = [Idle EXCEPT !.at = Door(c), !.call = c,
                                !.i = IF Door(c) = "key" THEN MapOf[c[2]] ELSE 0]]
  /\ UNCHANGED <<maps, mmtx, imtx, iter, history>>

---------------------------------------------------------------------------
(* Locks *)

Is(t, place) == pc[t].at = place

Goto(t, place) == pc' = [pc EXCEPT ![t].at = place]

GotoMap(t, place, i) == pc' = [pc EXCEPT ![t].at = place, ![t].i = i]

Return(t) == pc' = [pc EXCEPT ![t] = Idle]

CanWrite(i) == mmtx[i] = [w |-> None, r |-> {}]

CanRead(i) == mmtx[i].w = None

WrLock(t, i) == CanWrite(i) /\ mmtx' = [mmtx EXCEPT ![i].w = t]

RdLock(t, i) == CanRead(i) /\ mmtx' = [mmtx EXCEPT ![i].r = @ \cup {t}]

Without(lock, t) == [w |-> IF lock.w = t THEN None ELSE lock.w, r |-> lock.r \ {t}]

Unlock(t, i) == mmtx' = [mmtx EXCEPT ![i] = Without(@, t)]

---------------------------------------------------------------------------
(* Calls on one key *)

Body(m, c) ==
  CASE c[1] = "put" -> MapPut(m, c[2], c[3])
    [] c[1] = "putkeep" -> MapPutKeep(m, c[2], c[3])
    [] c[1] = "putcat" -> MapPutCat(m, c[2], c[3])
    [] c[1] = "put3" -> MapPut3(m, c[2], c[3])
    [] c[1] = "put4" -> MapPut4(m, c[2], c[3], c[4])
    [] c[1] = "putcat3" -> MapPutCat3(m, c[2], c[3])
    [] c[1] = "putproc" -> MapPutProc(m, c[2], c[3], c[4])
    [] c[1] = "addint" -> MapAddInt(m, c[2], c[3])
    [] c[1] = "out" -> MapOut(m, c[2])
    [] c[1] = "get3" -> MapGet3(m, c[2])

\* The keys from cur on.
Ahead(m) == LET from[r \in DOMAIN m.recs \cup {None}] ==
                  IF r = None THEN {} ELSE {r} \cup from[m.recs[r].next]
            IN from[m.cur]

\* put3, putcat3 and get3 move a record to the end of its map.  The iterator
\* that stands on it goes along, past the records that were ahead of it.
Carried(i, c) == IF c[1] \in {"put3", "putcat3", "get3"} /\ c[2] = maps[i].cur
                 THEN Ahead(maps[i]) \ {c[2]} ELSE {}

\* The call c makes m of map i.
Becomes(i, m, c) ==
  /\ maps' = [maps EXCEPT ![i] = m]
  /\ due' = due \ (KeysOf(i) \ DOMAIN m.recs)
  /\ passed' = passed \cup Carried(i, c)

OnKey(t) ==
  /\ Is(t, "key") /\ Goto(t, "unlock")
  /\ \/ /\ InCall(t, Reads) /\ RdLock(t, pc[t].i) /\ UNCHANGED <<maps, history>>
     \/ /\ InCall(t, Writes) /\ WrLock(t, pc[t].i)
        /\ Becomes(pc[t].i, Body(maps[pc[t].i], pc[t].call), pc[t].call)
  /\ UNCHANGED <<imtx, iter, left>>

Leave(t) == /\ Is(t, "unlock") /\ Unlock(t, pc[t].i) /\ Return(t)
            /\ UNCHANGED <<maps, imtx, iter, left, history>>

---------------------------------------------------------------------------
(* Calls on one map after the other *)

Swept(m, c) == IF c[1] = "vanish" THEN MapClear(m) ELSE MapCutFront(m, c[2] \div MNum + 1)

Sweep(t) ==
  /\ Is(t, "sweep") /\ WrLock(t, pc[t].i) /\ Goto(t, "swept")
  /\ Becomes(pc[t].i, Swept(maps[pc[t].i], pc[t].call), pc[t].call)
  /\ UNCHANGED <<imtx, iter, left>>

SweepNext(t) ==
  /\ Is(t, "swept") /\ Unlock(t, pc[t].i)
  /\ IF pc[t].i = MNum - 1 THEN Return(t) ELSE GotoMap(t, "sweep", pc[t].i + 1)
  /\ UNCHANGED <<maps, imtx, iter, left, history>>

\* The numbers are read without a lock, and added up.
Sum(t) ==
  /\ Is(t, "sum")
  /\ IF pc[t].i = MNum - 1 THEN Return(t) ELSE GotoMap(t, "sum", pc[t].i + 1)
  /\ UNCHANGED <<maps, mmtx, imtx, iter, left, history>>

---------------------------------------------------------------------------
(* tcmdbforeach: all the locks, then all the maps *)

\* Mutant: a map is visited as soon as its own lock is there.
CollectOne(t) ==
  /\ Is(t, "collect") /\ WrLock(t, pc[t].i) /\ GotoMap(t, "visit", 0)
  /\ UNCHANGED <<maps, imtx, iter, left, history>>

Collect(t) ==
  /\ Is(t, "collect") /\ WrLock(t, pc[t].i)
  /\ IF pc[t].i = MNum - 1 THEN GotoMap(t, "visit", 0) ELSE GotoMap(t, "collect", pc[t].i + 1)
  /\ UNCHANGED <<maps, imtx, iter, left, history>>

\* The place of the iterator is kept aside while the callback sees the records;
\* the callback may end the visit.
Visit(t) ==
  /\ Is(t, "visit")
  /\ pc' = [pc EXCEPT ![t].at = "restore", ![t].x = maps[pc[t].i].cur]
  /\ maps' = [maps EXCEPT ![pc[t].i].cur = None]
  /\ UNCHANGED <<mmtx, imtx, iter, left, history>>

Restore(t) ==
  /\ Is(t, "restore") /\ maps' = [maps EXCEPT ![pc[t].i].cur = pc[t].x]
  /\ \/ pc[t].i < MNum - 1 /\ GotoMap(t, "visit", pc[t].i + 1)
     \/ GotoMap(t, "release", MNum - 1)
  /\ UNCHANGED <<mmtx, imtx, iter, left, history>>

Release(t) ==
  /\ Is(t, "release") /\ Unlock(t, pc[t].i)
  /\ IF pc[t].i = 0 THEN Return(t) ELSE GotoMap(t, "release", pc[t].i - 1)
  /\ UNCHANGED <<maps, imtx, iter, left, history>>

---------------------------------------------------------------------------
(* Calls about the iterator *)

\* An iterator that was never initialized gives the mutex back at once.
LockImtx(t) ==
  /\ Is(t, "imtx") /\ imtx = None
  /\ IF InCall(t, {"iternext"}) /\ iter \notin Maps
     THEN Return(t) /\ UNCHANGED imtx
     ELSE /\ imtx' = t
          /\ GotoMap(t, AfterImtx[pc[t].call[1]], IF InCall(t, {"iternext"}) THEN iter ELSE 0)
  /\ UNCHANGED <<maps, mmtx, iter, left, history>>

\* iterinit2 looks for its key, holding that map for reading, and does nothing
\* without it.
Find(t) ==
  LET k == pc[t].call[2]
  IN /\ Is(t, "find") /\ RdLock(t, MapOf[k])
     /\ Goto(t, IF k \in KeysOf(MapOf[k]) THEN "first" ELSE "done")
     /\ UNCHANGED <<maps, imtx, iter, left, history>>

\* tcmapiterinit: cur = first.  The map is not locked between the two.
ReadFirst(t) ==
  /\ Is(t, "first")
  /\ pc' = [pc EXCEPT ![t].at = "cur", ![t].x = maps[pc[t].i].first]
  /\ UNCHANGED <<maps, mmtx, imtx, iter, left, history>>

WriteCur(t) ==
  /\ Is(t, "cur") /\ maps' = [maps EXCEPT ![pc[t].i].cur = pc[t].x]
  /\ IF pc[t].i = MNum - 1 THEN Goto(t, "begin") ELSE GotoMap(t, "first", pc[t].i + 1)
  /\ UNCHANGED <<mmtx, imtx, iter, left, history>>

Begin(t) ==
  /\ Is(t, "begin") /\ Goto(t, "done")
  /\ IF InCall(t, {"iterinit2"})
     THEN LET i == MapOf[pc[t].call[2]]
          IN iter' = i /\ maps' = [maps EXCEPT ![i] = MapIterInit2(@, pc[t].call[2])]
     ELSE iter' = 0 /\ UNCHANGED maps
  /\ due' = UNION {Ahead(maps'[i]) : i \in iter' .. MNum - 1} /\ passed' = {}
  /\ UNCHANGED <<mmtx, imtx, left>>

Next1(t) ==
  LET i == pc[t].i  m == maps[i]
  IN /\ Is(t, "next") /\ WrLock(t, i)
     /\ maps' = [maps EXCEPT ![i] = MapIterNext(m)]
     /\ pc' = [pc EXCEPT ![t].at = IF m.cur = None /\ i < MNum - 1 THEN "skip" ELSE "done",
                         ![t].x = m.cur]
     /\ due' = due \ {m.cur}
     /\ UNCHANGED <<imtx, iter, left, passed>>

\* Mutant: the same map is tried again.
SkipNone(t) ==
  /\ Is(t, "skip") /\ Unlock(t, pc[t].i) /\ Goto(t, "next")
  /\ UNCHANGED <<maps, imtx, iter, left, history>>

Skip(t) ==
  /\ Is(t, "skip") /\ Unlock(t, pc[t].i) /\ iter' = iter + 1
  /\ GotoMap(t, "next", iter + 1)
  /\ UNCHANGED <<maps, imtx, left, history>>

\* Mutant: the iterator of a map is left where the scan ended.
ScanAway(t) ==
  /\ Is(t, "scan") /\ WrLock(t, pc[t].i)
  /\ maps' = [maps EXCEPT ![pc[t].i].cur = None]
  /\ Goto(t, "scanned") /\ UNCHANGED <<imtx, iter, left, history>>

\* fwmkeys goes through a map by its iterator and puts it back.
Scan(t) == /\ Is(t, "scan") /\ WrLock(t, pc[t].i) /\ Goto(t, "scanned")
           /\ UNCHANGED <<maps, imtx, iter, left, history>>

\* The scan may end early, with as many keys as were wanted.
ScanNext(t) ==
  /\ Is(t, "scanned") /\ Unlock(t, pc[t].i)
  /\ \/ pc[t].i < MNum - 1 /\ GotoMap(t, "scan", pc[t].i + 1)
     \/ Goto(t, "done")
  /\ UNCHANGED <<maps, imtx, iter, left, history>>

\* The lock of the map, if the call holds one, and the mutex.
Done(t) ==
  /\ Is(t, "done") /\ Return(t)
  /\ mmtx' = [i \in Maps |-> Without(mmtx[i], t)]
  /\ imtx' = None
  /\ UNCHANGED <<maps, iter, left, history>>

---------------------------------------------------------------------------
Step(t) == \/ OnKey(t) \/ Leave(t) \/ Sweep(t) \/ SweepNext(t) \/ Sum(t)
           \/ Collect(t) \/ Visit(t) \/ Restore(t) \/ Release(t)
           \/ LockImtx(t) \/ Find(t) \/ ReadFirst(t) \/ WriteCur(t) \/ Begin(t)
           \/ Next1(t) \/ Skip(t) \/ Scan(t) \/ ScanNext(t) \/ Done(t)

Quiet == \A t \in Threads : pc[t] = Idle /\ left[t] = 0

\* The threads have made their calls.
Finished == Quiet /\ UNCHANGED vars

Next == \/ \E t \in Threads : Step(t) \/ \E c \in Calls[t] : Start(t, c)
        \/ Finished

\* A thread that is in a call and not kept waiting goes on.
Spec == Init /\ [][Next]_vars /\ \A t \in Threads : WF_vars(Step(t))

---------------------------------------------------------------------------
(* Type correctness: locks are held by threads, and threads are somewhere. *)
TypeOK ==
  /\ imtx \in Threads \cup {None} /\ iter \in -1 .. MNum - 1
  /\ \A i \in Maps : mmtx[i].w \in Threads \cup {None} /\ mmtx[i].r \subseteq Threads
  /\ \A t \in Threads : pc[t].i \in Maps /\ left[t] \in 0 .. MaxCalls[t]

\* Whatever the threads do at the same time, every map keeps its trees, its
\* list and its iterator in order (tcmapput and the others, tcmdbforeach).
MapsSound == TypeOK /\ \A i \in Maps : MapSound(maps[i])

\* When an iteration says that it is at its end, it has returned every key that
\* was ahead of it when it began and was stored all along, whatever other threads
\* stored, removed, counted, scanned or visited meanwhile, except the keys it was
\* taken past: those that were ahead of it in a map when put3, putcat3 or get3
\* moved the record it stood on to the end of the map (tcmdbiternext, tcmdbfwmkeys,
\* tcmdbforeach, tcmapget3).
IterationComplete ==
  \A t \in Threads :
    Is(t, "done") /\ InCall(t, {"iternext"}) /\ pc[t].x = None => due \subseteq passed

OnlyCursor(i) == \/ maps'[i] = maps[i]
                 \/ maps'[i] = [maps[i] EXCEPT !.cur = maps'[i].cur]

\* What tcmdbforeach visits is one state of the database: from the first map to
\* the last no thread changes anything in any map but the place of its iterator.
ForeachAtomic ==
  [][\A t \in Threads : pc[t].at \in {"visit", "restore"} =>
       \A i \in Maps : OnlyCursor(i)]_vars

\* Every call returns: no two calls wait for each other's locks, none keeps a
\* lock that another one needs, and none goes round for ever (tcmdbforeach,
\* tcmdbiternext and tcmdbiterinit2 hold several locks).
EveryCallReturns == \A t \in Threads : pc[t] # Idle ~> pc[t] = Idle
=============================================================================
