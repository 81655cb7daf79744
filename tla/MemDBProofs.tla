------------------------------ MODULE MemDBProofs -----------------------------
(***************************************************************************)
(* What the locks of MemDB guarantee for every set of threads, keys and    *)
(* calls and every number of maps: the variables stay in type, the one     *)
(* mutex keeps the iterator's index to one thread, no other thread         *)
(* changes a record while tcmdbforeach visits the maps, no state is a      *)
(* deadlock, a call that has returned holds no lock; and, as long as no    *)
(* iteration is started while records change, every map stays in order and *)
(* an iteration returns every key that was there all along, but for those  *)
(* a moved record takes it past.                                           *)
(***************************************************************************)
EXTENDS MemDB, TCMapProofs

USE DEF history

---------------------------------------------------------------------------
(* The inductive invariant *)

Places == {"idle", "key", "unlock", "sweep", "swept", "sum", "collect", "visit",
           "restore", "release", "imtx", "find", "first", "cur", "begin", "next",
           "skip", "scan", "scanned", "done"}

\* The places at which a thread holds the iterator's mutex.
Owning == {"find", "first", "cur", "begin", "next", "skip", "scan", "scanned", "done"}

Shapes ==
  /\ DOMAIN maps = Maps /\ DOMAIN pc = Threads
  /\ mmtx \in [Maps -> [w : Threads \cup {None}, r : SUBSET Threads]]
  /\ imtx \in Threads \cup {None}
  /\ iter \in -1 .. MNum - 1
  /\ left \in [Threads -> Nat] /\ \A t \in Threads : left[t] <= MaxCalls[t]

\* A thread is at a place and at a map, in a call of its own, which is one
\* about the iterator from the mutex on.
CallOK(t) ==
  /\ DOMAIN pc[t] = {"at", "call", "i", "x"} /\ pc[t].at \in Places /\ pc[t].i \in Maps
  /\ pc[t].at # "idle" => pc[t].call \in Calls[t]
  /\ pc[t].at \in Owning \cup {"imtx"} => pc[t].call[1] \in DOMAIN AfterImtx
  /\ pc[t].at = "find" => pc[t].call[1] = "iterinit2"

\* The mutex is held from the place after it to the end of the call, and the
\* index of the iterator is the map its holder is at.
MutexOK(t) ==
  /\ pc[t].at \in Owning => imtx = t
  /\ pc[t].at \in {"next", "skip"} => iter = pc[t].i
  /\ pc[t].at = "skip" => pc[t].i < MNum - 1

\* tcmdbforeach holds the locks of the maps it has come past, and all of them
\* when it visits the first.
VisitorOK(t) ==
  /\ pc[t].at = "collect" => \A j \in Maps : j < pc[t].i => mmtx[j].w = t
  /\ pc[t].at \in {"visit", "restore"} => \A j \in Maps : mmtx[j].w = t

ThreadOK(t) == CallOK(t) /\ MutexOK(t) /\ VisitorOK(t)

Inv == Shapes /\ \A t \in Threads : ThreadOK(t)

---------------------------------------------------------------------------
(* How a thread moves, and how a lock changes *)

\* A thread that moves leaves every other where it is, and goes on with its call.
LEMMA GotoMoves ==
  ASSUME Inv, NEW t \in Threads, NEW p, Goto(t, p)
  PROVE  /\ DOMAIN pc' = Threads
         /\ \A u \in Threads : u # t => pc'[u] = pc[u]
         /\ DOMAIN pc'[t] = DOMAIN pc[t]
         /\ pc'[t].at = p /\ pc'[t].i = pc[t].i /\ pc'[t].call = pc[t].call
BY DEF Inv, Shapes, ThreadOK, CallOK, Goto

\* The same of a thread that also goes to a map.
LEMMA GotoMapMoves ==
  ASSUME Inv, NEW t \in Threads, NEW p, NEW i, GotoMap(t, p, i)
  PROVE  /\ DOMAIN pc' = Threads
         /\ \A u \in Threads : u # t => pc'[u] = pc[u]
         /\ DOMAIN pc'[t] = DOMAIN pc[t]
         /\ pc'[t].at = p /\ pc'[t].i = i /\ pc'[t].call = pc[t].call
BY DEF Inv, Shapes, ThreadOK, CallOK, GotoMap

\* A thread whose call returns is idle.
LEMMA ReturnMoves ==
  ASSUME Inv, NEW t \in Threads, Return(t)
  PROVE  /\ DOMAIN pc' = Threads
         /\ \A u \in Threads : u # t => pc'[u] = pc[u]
         /\ ThreadOK(t)'
BY MemDBAssumption DEF Inv, Shapes, Return, Idle, ThreadOK, CallOK, MutexOK, VisitorOK, Owning, Places, Maps

\* Taking a lock takes none from a thread, and giving one back takes none from
\* another thread.
LEMMA LocksKept ==
  ASSUME Inv, NEW t \in Threads, NEW i \in Maps,
         WrLock(t, i) \/ RdLock(t, i) \/ Unlock(t, i)
  PROVE  /\ mmtx' \in [Maps -> [w : Threads \cup {None}, r : SUBSET Threads]]
         /\ \A u \in Threads : u # t => \A j \in Maps : mmtx[j].w = u => mmtx'[j].w = u
         /\ ~Unlock(t, i) => \A j \in Maps : mmtx[j].w = t => mmtx'[j].w = t
<1>1. CASE WrLock(t, i)
  BY <1>1, MemDBAssumption DEF Inv, Shapes, WrLock, CanWrite
<1>2. CASE RdLock(t, i)
  BY <1>2, MemDBAssumption DEF Inv, Shapes, RdLock, CanRead
<1>3. CASE Unlock(t, i)
  BY <1>3, MemDBAssumption DEF Inv, Shapes, Unlock, Without
<1> QED
  BY <1>1, <1>2, <1>3

\* A lock taken for writing is held, and was free.
LEMMA WrLocked ==
  ASSUME Inv, NEW t \in Threads, NEW i \in Maps, WrLock(t, i)
  PROVE  mmtx'[i].w = t /\ mmtx[i].w = None
BY DEF Inv, Shapes, WrLock, CanWrite

\* The indices of the maps.
LEMMA MapIndices ==
  /\ MNum \in Nat \ {0} /\ 0 \in Maps /\ MNum - 1 \in Maps /\ Maps \subseteq Nat
  /\ \A i \in Maps : i # MNum - 1 => i + 1 \in Maps /\ i < MNum - 1
  /\ \A i \in Maps : i # 0 => i - 1 \in Maps
BY MemDBAssumption DEF Maps

\* A step of t, by which t and what is shared stay right, keeps the invariant
\* if it leaves the other threads at their places, with their locks, and the
\* holder of the mutex with it and with the iterator's index.
LEMMA StepKeeps ==
  ASSUME Inv, NEW t \in Threads, Shapes', ThreadOK(t)',
         \A u \in Threads : u # t => pc'[u] = pc[u],
         \A u \in Threads : u # t /\ imtx = u => imtx' = u /\ iter' = iter,
         \A u \in Threads : u # t => \A j \in Maps : mmtx[j].w = u => mmtx'[j].w = u
  PROVE  Inv'
<1> SUFFICES ASSUME NEW u \in Threads, u # t PROVE ThreadOK(u)'
  BY DEF Inv
<1>1. pc'[u] = pc[u] /\ CallOK(u) /\ MutexOK(u) /\ VisitorOK(u)
  BY DEF Inv, ThreadOK
<1>2. CallOK(u)'
  BY <1>1 DEF CallOK
<1>3. MutexOK(u)'
  BY <1>1 DEF MutexOK, Owning
<1>4. VisitorOK(u)'
  BY <1>1 DEF VisitorOK
<1> QED
  BY <1>2, <1>3, <1>4 DEF ThreadOK

---------------------------------------------------------------------------
(* Every step keeps the invariant *)

\* No thread is in a call at first.
LEMMA InvInit == Init => Inv
BY MemDBAssumption DEF Init, Inv, Shapes, Idle, ThreadOK, CallOK, MutexOK, VisitorOK,
   Owning, Places, Maps

\* A call begins at its door.
LEMMA StartKeeps ==
  ASSUME Inv, NEW t \in Threads, NEW c \in Calls[t], Start(t, c)
  PROVE  Inv'
<1> DEFINE begun == [Idle EXCEPT !.at = Door(c), !.call = c,
                             !.i = IF Door(c) = "key" THEN MapOf[c[2]] ELSE 0]
<1>1. pc' = [pc EXCEPT ![t] = begun]
  BY DEF Start
<1>2. DOMAIN pc = Threads
  BY DEF Inv, Shapes
<1>3. /\ begun.at = Door(c) /\ begun.call = c /\ DOMAIN begun = {"at", "call", "i", "x"}
      /\ begun.i = IF Door(c) = "key" THEN MapOf[c[2]] ELSE 0
  BY DEF Idle
<1> HIDE DEF begun
<1>4. pc'[t] = begun /\ DOMAIN pc' = Threads /\ \A u \in Threads : u # t => pc'[u] = pc[u]
  BY <1>1, <1>2
<1>5. /\ pc'[t].at = Door(c) /\ pc'[t].call = c /\ DOMAIN pc'[t] = {"at", "call", "i", "x"}
      /\ pc'[t].i = IF Door(c) = "key" THEN MapOf[c[2]] ELSE 0
      /\ DOMAIN pc' = Threads /\ \A u \in Threads : u # t => pc'[u] = pc[u]
  BY <1>4, <1>3
<1>6. /\ Door(c) \in {"key", "sweep", "sum", "collect", "imtx"}
      /\ Door(c) = "key" => MapOf[c[2]] \in Maps
      /\ Door(c) = "imtx" => c[1] \in DOMAIN AfterImtx
  <2>1. c[1] \in Reads \cup Writes \cup Sweeps \cup Sums \cup {"foreach"} \cup DOMAIN AfterImtx
    BY MemDBAssumption
  <2>2. c[1] \in Reads \cup Writes => c[2] \in Keys
    BY MemDBAssumption
  <2>3. Door(c) = "key" => c[1] \in Reads \cup Writes
    BY DEF Door
  <2> QED
    BY <2>1, <2>2, <2>3, MemDBAssumption DEF Door
<1>7. Shapes'
  <2>1. left[t] > 0 /\ left' = [left EXCEPT ![t] = left[t] - 1]
    BY DEF Start
  <2>2. left \in [Threads -> Nat] /\ (\A u \in Threads : left[u] <= MaxCalls[u]) /\ MaxCalls[t] \in Nat
    BY MemDBAssumption DEF Inv, Shapes
  <2>3. left' \in [Threads -> Nat] /\ \A u \in Threads : left'[u] <= MaxCalls[u]
    BY <2>1, <2>2
  <2> QED
    BY <1>5, <2>3 DEF Start, Inv, Shapes
<1>8. ThreadOK(t)'
  <2>1. CallOK(t)'
    BY <1>5, <1>6, MapIndices DEF CallOK, Owning, Places
  <2>2. MutexOK(t)'
    BY <1>5, <1>6 DEF MutexOK, Owning
  <2>3. VisitorOK(t)'
    BY <1>5, <1>6, MapIndices DEF VisitorOK
  <2> QED
    BY <2>1, <2>2, <2>3 DEF ThreadOK
<1>9. mmtx' = mmtx /\ imtx' = imtx /\ iter' = iter
  BY DEF Start
<1> QED
  BY <1>5, <1>7, <1>8, <1>9, StepKeeps

\* The calls on one key.
LEMMA KeyKeeps ==
  ASSUME Inv, NEW t \in Threads, OnKey(t) \/ Leave(t)
  PROVE  Inv'
<1>1. pc[t].i \in Maps /\ CallOK(t)
  BY DEF Inv, ThreadOK, CallOK
<1>2. CASE OnKey(t)
  <2>1. Goto(t, "unlock") /\ (WrLock(t, pc[t].i) \/ RdLock(t, pc[t].i))
    BY <1>2 DEF OnKey, Becomes
  <2>2. imtx' = imtx /\ iter' = iter /\ left' = left /\ DOMAIN maps' = DOMAIN maps
    BY <1>2 DEF OnKey, Becomes
  <2>3. Shapes'
    BY <1>1, <2>1, <2>2, GotoMoves, LocksKept DEF Inv, Shapes
  <2>4. pc[t].at # "idle"
    BY <1>2 DEF OnKey, Becomes, Is
  <2>5. ThreadOK(t)'
    BY <1>1, <2>1, <2>4, GotoMoves DEF ThreadOK, CallOK, MutexOK, VisitorOK, Owning, Places
  <2> QED
    BY <1>1, <2>1, <2>2, <2>3, <2>5, GotoMoves, LocksKept, StepKeeps
<1>3. CASE Leave(t)
  <2>1. Return(t) /\ Unlock(t, pc[t].i) /\ UNCHANGED <<maps, imtx, iter, left>>
    BY <1>3 DEF Leave
  <2>2. Shapes'
    BY <1>1, <2>1, ReturnMoves, LocksKept DEF Inv, Shapes
  <2> QED
    BY <1>1, <2>1, <2>2, ReturnMoves, LocksKept, StepKeeps
<1> QED
  BY <1>2, <1>3

\* The calls that go through the maps with one lock at a time, or with none.
LEMMA SweepKeeps ==
  ASSUME Inv, NEW t \in Threads, Sweep(t) \/ SweepNext(t) \/ Sum(t)
  PROVE  Inv'
<1>1. pc[t].i \in Maps /\ CallOK(t)
  BY DEF Inv, ThreadOK, CallOK
<1>2. CASE Sweep(t)
  <2>1. Goto(t, "swept") /\ WrLock(t, pc[t].i)
    BY <1>2 DEF Sweep, Becomes
  <2>2. imtx' = imtx /\ iter' = iter /\ left' = left /\ DOMAIN maps' = DOMAIN maps
    BY <1>2 DEF Sweep, Becomes
  <2>3. Shapes'
    BY <1>1, <2>1, <2>2, GotoMoves, LocksKept DEF Inv, Shapes
  <2>4. pc[t].at # "idle"
    BY <1>2 DEF Sweep, Becomes, Is
  <2>5. ThreadOK(t)'
    BY <1>1, <2>1, <2>4, GotoMoves DEF ThreadOK, CallOK, MutexOK, VisitorOK, Owning, Places
  <2> QED
    BY <1>1, <2>1, <2>2, <2>3, <2>5, GotoMoves, LocksKept, StepKeeps
<1>3. CASE SweepNext(t) \/ Sum(t)
  <2>1. /\ Unlock(t, pc[t].i) \/ mmtx' = mmtx
        /\ UNCHANGED <<maps, imtx, iter, left>>
    BY <1>3 DEF SweepNext, Sum
  <2>2. /\ mmtx' \in [Maps -> [w : Threads \cup {None}, r : SUBSET Threads]]
        /\ \A u \in Threads : u # t => \A j \in Maps : mmtx[j].w = u => mmtx'[j].w = u
    BY <1>1, <2>1, LocksKept DEF Inv, Shapes
  <2>3. pc[t].at # "idle"
    BY <1>3 DEF SweepNext, Sum, Is
  <2>4. \/ Return(t)
        \/ /\ pc[t].i # MNum - 1
           /\ GotoMap(t, "sweep", pc[t].i + 1) \/ GotoMap(t, "sum", pc[t].i + 1)
    BY <1>3 DEF SweepNext, Sum
  <2>5. /\ DOMAIN pc' = Threads /\ ThreadOK(t)'
        /\ \A u \in Threads : u # t => pc'[u] = pc[u]
    <3>1. CASE Return(t)
      BY <3>1, ReturnMoves
    <3>2. CASE pc[t].i # MNum - 1 /\ GotoMap(t, "sweep", pc[t].i + 1)
      <4>1. /\ DOMAIN pc' = Threads /\ \A u \in Threads : u # t => pc'[u] = pc[u]
            /\ DOMAIN pc'[t] = DOMAIN pc[t] /\ pc'[t].call = pc[t].call
            /\ pc'[t].at = "sweep" /\ pc'[t].i = pc[t].i + 1
        BY <3>2, GotoMapMoves
      <4>2. pc[t].i + 1 \in Maps
        BY <1>1, <3>2, MapIndices DEF CallOK
      <4> QED
        BY <1>1, <2>3, <4>1, <4>2 DEF ThreadOK, CallOK, MutexOK, VisitorOK, Owning, Places
    <3>3. CASE pc[t].i # MNum - 1 /\ GotoMap(t, "sum", pc[t].i + 1)
      <4>1. /\ DOMAIN pc' = Threads /\ \A u \in Threads : u # t => pc'[u] = pc[u]
            /\ DOMAIN pc'[t] = DOMAIN pc[t] /\ pc'[t].call = pc[t].call
            /\ pc'[t].at = "sum" /\ pc'[t].i = pc[t].i + 1
        BY <3>3, GotoMapMoves
      <4>2. pc[t].i + 1 \in Maps
        BY <1>1, <3>3, MapIndices DEF CallOK
      <4> QED
        BY <1>1, <2>3, <4>1, <4>2 DEF ThreadOK, CallOK, MutexOK, VisitorOK, Owning, Places
    <3> QED
      BY <2>4, <3>1, <3>2, <3>3
  <2>6. Shapes'
    BY <2>1, <2>2, <2>5 DEF Inv, Shapes
  <2> QED
    BY <2>1, <2>2, <2>5, <2>6, StepKeeps
<1> QED
  BY <1>2, <1>3

\* tcmdbforeach.
LEMMA ForeachKeeps ==
  ASSUME Inv, NEW t \in Threads, Collect(t) \/ Visit(t) \/ Restore(t) \/ Release(t)
  PROVE  Inv'
<1>1. pc[t].i \in Maps /\ CallOK(t) /\ VisitorOK(t)
  BY DEF Inv, ThreadOK, CallOK
<1>2. CASE Collect(t)
  <2>1. /\ WrLock(t, pc[t].i) /\ UNCHANGED <<maps, imtx, iter, left>> /\ pc[t].at = "collect"
        /\ IF pc[t].i = MNum - 1 THEN GotoMap(t, "visit", 0)
           ELSE GotoMap(t, "collect", pc[t].i + 1)
    BY <1>2 DEF Collect, Is
  <2>2. \A j \in Maps : j <= pc[t].i => mmtx'[j].w = t
    <3>1. \A j \in Maps : j < pc[t].i => mmtx[j].w = t
      BY <1>1, <2>1 DEF VisitorOK
    <3>2. \A j \in Maps : mmtx[j].w = t => mmtx'[j].w = t
      <4>1. CASE Unlock(t, pc[t].i)
        <5>1. mmtx'[pc[t].i].w = None
          BY <1>1, <2>1, <4>1, WrLocked, MemDBAssumption DEF Inv, Shapes, Unlock, Without
        <5> QED
          BY <1>1, <2>1, <5>1, WrLocked, MemDBAssumption
      <4>2. CASE ~Unlock(t, pc[t].i)
        BY <1>1, <2>1, <4>2, LocksKept
      <4> QED
        BY <4>1, <4>2
    <3>3. mmtx'[pc[t].i].w = t
      BY <1>1, <2>1, WrLocked
    <3>4. PICK n \in Maps : n = pc[t].i
      BY <1>1
    <3>5. /\ n \in Nat /\ Maps \subseteq Nat /\ mmtx'[n].w = t
          /\ \A j \in Maps : j < n => mmtx'[j].w = t
      BY <3>1, <3>2, <3>3, <3>4, MapIndices
    <3>6. \A j \in Maps : j <= n => j < n \/ j = n
      BY <3>5
    <3> QED
      BY <3>4, <3>5, <3>6
  <2>3. /\ DOMAIN pc' = Threads /\ ThreadOK(t)'
        /\ \A u \in Threads : u # t => pc'[u] = pc[u]
    <3>1. CASE pc[t].i = MNum - 1
      <4>1. GotoMap(t, "visit", 0)
        BY <2>1, <3>1
      <4>2. \A j \in Maps : mmtx'[j].w = t
        BY <2>2, <3>1, MemDBAssumption DEF Maps
      <4>3. /\ DOMAIN pc' = Threads /\ \A u \in Threads : u # t => pc'[u] = pc[u]
            /\ DOMAIN pc'[t] = DOMAIN pc[t] /\ pc'[t].call = pc[t].call
            /\ pc'[t].at = "visit" /\ pc'[t].i = 0
        BY <4>1, GotoMapMoves
      <4>4. CallOK(t)' /\ MutexOK(t)'
        BY <1>1, <2>1, <4>3, MapIndices DEF CallOK, MutexOK, Owning, Places
      <4>5. VisitorOK(t)'
        BY <4>2, <4>3 DEF VisitorOK
      <4> QED
        BY <4>3, <4>4, <4>5 DEF ThreadOK
    <3>2. CASE pc[t].i # MNum - 1
      <4>1. GotoMap(t, "collect", pc[t].i + 1)
        BY <2>1, <3>2
      <4>2. \A j \in Maps : j < pc[t].i + 1 => mmtx'[j].w = t
        <5>1. PICK n \in Maps : n = pc[t].i
          BY <1>1 DEF CallOK
        <5>2. /\ n \in Nat /\ Maps \subseteq Nat
              /\ \A j \in Maps : j <= n => mmtx'[j].w = t
          BY <2>2, <5>1, MapIndices
        <5>3. \A j \in Maps : j < n + 1 => j <= n
          BY <5>2
        <5> QED
          BY <5>1, <5>2, <5>3
      <4>3. /\ DOMAIN pc' = Threads /\ \A u \in Threads : u # t => pc'[u] = pc[u]
            /\ DOMAIN pc'[t] = DOMAIN pc[t] /\ pc'[t].call = pc[t].call
            /\ pc'[t].at = "collect" /\ pc'[t].i = pc[t].i + 1
        BY <4>1, GotoMapMoves
      <4>4. pc[t].i + 1 \in Maps
        BY <1>1, <3>2, MapIndices
      <4>5. CallOK(t)' /\ MutexOK(t)'
        BY <1>1, <2>1, <4>3, <4>4 DEF CallOK, MutexOK, Owning, Places
      <4>6. VisitorOK(t)'
        <5>1. PICK n \in Maps : n = pc[t].i + 1
          BY <4>4
        <5>2. pc'[t].i = n /\ \A j \in Maps : j < n => mmtx'[j].w = t
          BY <4>2, <4>3, <5>1
        <5> QED
          BY <4>3, <5>2 DEF VisitorOK
      <4> QED
        BY <4>3, <4>5, <4>6 DEF ThreadOK
    <3> QED
      BY <3>1, <3>2
  <2>4. Shapes'
    BY <1>1, <2>1, <2>3, LocksKept DEF Inv, Shapes
  <2> QED
    BY <1>1, <2>1, <2>3, <2>4, LocksKept, StepKeeps
<1>3. CASE Visit(t)
  <2>1. /\ pc[t].at = "visit" /\ DOMAIN maps' = DOMAIN maps /\ UNCHANGED <<mmtx, imtx, iter, left>>
        /\ pc' = [pc EXCEPT ![t].at = "restore", ![t].x = maps[pc[t].i].cur]
    BY <1>3 DEF Visit, Is
  <2>2. /\ DOMAIN pc' = Threads /\ \A u \in Threads : u # t => pc'[u] = pc[u]
        /\ DOMAIN pc'[t] = DOMAIN pc[t] /\ pc'[t].call = pc[t].call
        /\ pc'[t].at = "restore" /\ pc'[t].i = pc[t].i
    BY <1>1, <2>1 DEF Inv, Shapes, CallOK
  <2>3. Shapes'
    BY <2>1, <2>2 DEF Inv, Shapes
  <2>4. ThreadOK(t)'
    BY <1>1, <2>1, <2>2 DEF ThreadOK, CallOK, MutexOK, VisitorOK, Owning, Places
  <2> QED
    BY <2>1, <2>2, <2>3, <2>4, StepKeeps
<1>4. CASE Restore(t)
  <2>1. /\ pc[t].at = "restore" /\ DOMAIN maps' = DOMAIN maps /\ UNCHANGED <<mmtx, imtx, iter, left>>
        /\ \/ pc[t].i < MNum - 1 /\ GotoMap(t, "visit", pc[t].i + 1)
           \/ GotoMap(t, "release", MNum - 1)
    BY <1>4 DEF Restore, Is
  <2>2. PICK p \in {"visit", "release"}, i \in Maps : GotoMap(t, p, i)
    <3>1. CASE pc[t].i < MNum - 1 /\ GotoMap(t, "visit", pc[t].i + 1)
      <4>1. pc[t].i + 1 \in Maps
        BY <1>1, <3>1, MemDBAssumption DEF Maps
      <4> QED
        BY <3>1, <4>1
    <3>2. CASE GotoMap(t, "release", MNum - 1)
      BY <3>2, MapIndices
    <3> QED
      BY <2>1, <3>1, <3>2
  <2>3. /\ DOMAIN pc' = Threads /\ \A u \in Threads : u # t => pc'[u] = pc[u]
        /\ DOMAIN pc'[t] = DOMAIN pc[t] /\ pc'[t].call = pc[t].call
        /\ pc'[t].at = p /\ pc'[t].i = i
    BY <2>2, GotoMapMoves
  <2>4. Shapes'
    BY <2>1, <2>3 DEF Inv, Shapes
  <2>5. ThreadOK(t)'
    BY <1>1, <2>1, <2>2, <2>3 DEF ThreadOK, CallOK, MutexOK, VisitorOK, Owning, Places
  <2> QED
    BY <2>1, <2>3, <2>4, <2>5, StepKeeps
<1>5. CASE Release(t)
  <2>1. /\ pc[t].at = "release" /\ Unlock(t, pc[t].i) /\ UNCHANGED <<maps, imtx, iter, left>>
        /\ IF pc[t].i = 0 THEN Return(t) ELSE GotoMap(t, "release", pc[t].i - 1)
    BY <1>5 DEF Release, Is
  <2>2. /\ DOMAIN pc' = Threads /\ ThreadOK(t)'
        /\ \A u \in Threads : u # t => pc'[u] = pc[u]
    <3>1. CASE pc[t].i = 0
      BY <2>1, <3>1, ReturnMoves
    <3>2. CASE pc[t].i # 0
      <4>1. /\ DOMAIN pc' = Threads /\ \A u \in Threads : u # t => pc'[u] = pc[u]
            /\ DOMAIN pc'[t] = DOMAIN pc[t] /\ pc'[t].call = pc[t].call
            /\ pc'[t].at = "release" /\ pc'[t].i = pc[t].i - 1
        BY <2>1, <3>2, GotoMapMoves
      <4>2. pc[t].i - 1 \in Maps
        BY <1>1, <3>2, MapIndices
      <4> QED
        BY <1>1, <2>1, <4>1, <4>2 DEF ThreadOK, CallOK, MutexOK, VisitorOK, Owning, Places
    <3> QED
      BY <3>1, <3>2
  <2>3. Shapes'
    BY <1>1, <2>1, <2>2, LocksKept DEF Inv, Shapes
  <2> QED
    BY <1>1, <2>1, <2>2, <2>3, LocksKept, StepKeeps
<1> QED
  BY <1>2, <1>3, <1>4, <1>5

\* The mutex, and the calls that start an iteration.
LEMMA IterInitKeeps ==
  ASSUME Inv, NEW t \in Threads,
         LockImtx(t) \/ Find(t) \/ ReadFirst(t) \/ WriteCur(t) \/ Begin(t)
  PROVE  Inv'
<1>1. pc[t].i \in Maps /\ CallOK(t) /\ MutexOK(t) /\ Shapes
  BY DEF Inv, ThreadOK, CallOK
<1>2. CASE LockImtx(t)
  <2>1. /\ pc[t].at = "imtx" /\ imtx = None /\ UNCHANGED <<maps, mmtx, iter, left>>
    BY <1>2 DEF LockImtx, Is
  <2>2. CASE InCall(t, {"iternext"}) /\ iter \notin Maps
    <3>1. Return(t) /\ imtx' = imtx
      BY <1>2, <2>2 DEF LockImtx
    <3>2. Shapes'
      BY <1>1, <2>1, <3>1, ReturnMoves DEF Shapes
    <3> QED
      BY <2>1, <3>1, <3>2, ReturnMoves, StepKeeps
  <2>3. CASE ~(InCall(t, {"iternext"}) /\ iter \notin Maps)
    <3>1. /\ imtx' = t
          /\ GotoMap(t, AfterImtx[pc[t].call[1]], IF InCall(t, {"iternext"}) THEN iter ELSE 0)
      BY <1>2, <2>3 DEF LockImtx
    <3>2. PICK i \in Maps : /\ i = IF InCall(t, {"iternext"}) THEN iter ELSE 0
      BY <2>3, MapIndices
    <3>3. PICK p \in {"first", "find", "next", "scan"} : p = AfterImtx[pc[t].call[1]]
      BY <1>1, <2>1 DEF CallOK, AfterImtx
    <3>4. /\ p = "find" => pc[t].call[1] = "iterinit2"
          /\ p = "next" => pc[t].call[1] = "iternext"
      BY <1>1, <2>1, <3>3 DEF CallOK, AfterImtx
    <3>5. /\ DOMAIN pc' = Threads /\ \A u \in Threads : u # t => pc'[u] = pc[u]
          /\ DOMAIN pc'[t] = DOMAIN pc[t] /\ pc'[t].call = pc[t].call
          /\ pc'[t].at = p /\ pc'[t].i = i
      BY <3>1, <3>2, <3>3, GotoMapMoves
    <3>6. Shapes'
      BY <1>1, <2>1, <3>1, <3>5 DEF Shapes
    <3>7. CallOK(t)'
      BY <1>1, <2>1, <3>4, <3>5 DEF CallOK, Owning, Places
    <3>8. MutexOK(t)' /\ VisitorOK(t)'
      BY <2>1, <3>1, <3>2, <3>4, <3>5 DEF MutexOK, VisitorOK, Owning, InCall
    <3> QED
      BY <2>1, <3>5, <3>6, <3>7, <3>8, StepKeeps, MemDBAssumption DEF ThreadOK
  <2> QED
    BY <2>2, <2>3
<1>3. CASE Find(t)
  <2>1. PICK k : k = pc[t].call[2]
    OBVIOUS
  <2>2. /\ pc[t].at = "find" /\ RdLock(t, MapOf[k])
        /\ Goto(t, IF k \in KeysOf(MapOf[k]) THEN "first" ELSE "done")
        /\ UNCHANGED <<maps, imtx, iter, left>>
    BY <1>3, <2>1 DEF Find, Is
  <2>3. MapOf[k] \in Maps
    BY <1>1, <2>1, <2>2, MemDBAssumption DEF CallOK
  <2>4. PICK p \in {"first", "done"} : Goto(t, p)
    BY <2>2
  <2>5. Shapes'
    BY <1>1, <2>2, <2>3, <2>4, GotoMoves, LocksKept DEF Shapes
  <2>6. ThreadOK(t)'
    BY <1>1, <2>2, <2>4, GotoMoves DEF ThreadOK, CallOK, MutexOK, VisitorOK, Owning, Places
  <2> QED
    BY <2>2, <2>3, <2>4, <2>5, <2>6, GotoMoves, LocksKept, StepKeeps
<1>4. CASE ReadFirst(t)
  <2>1. /\ pc[t].at = "first" /\ UNCHANGED <<maps, mmtx, imtx, iter, left>>
        /\ pc' = [pc EXCEPT ![t].at = "cur", ![t].x = maps[pc[t].i].first]
    BY <1>4 DEF ReadFirst, Is
  <2>2. /\ DOMAIN pc' = Threads /\ \A u \in Threads : u # t => pc'[u] = pc[u]
        /\ DOMAIN pc'[t] = DOMAIN pc[t] /\ pc'[t].call = pc[t].call
        /\ pc'[t].at = "cur" /\ pc'[t].i = pc[t].i
    BY <1>1, <2>1 DEF Shapes, CallOK
  <2>3. Shapes'
    BY <1>1, <2>1, <2>2 DEF Shapes
  <2>4. ThreadOK(t)'
    BY <1>1, <2>1, <2>2 DEF ThreadOK, CallOK, MutexOK, VisitorOK, Owning, Places
  <2> QED
    BY <2>1, <2>2, <2>3, <2>4, StepKeeps
<1>5. CASE WriteCur(t)
  <2>1. /\ pc[t].at = "cur" /\ DOMAIN maps' = DOMAIN maps /\ UNCHANGED <<mmtx, imtx, iter, left>>
        /\ IF pc[t].i = MNum - 1 THEN Goto(t, "begin") ELSE GotoMap(t, "first", pc[t].i + 1)
    BY <1>5 DEF WriteCur, Is
  <2>2. /\ DOMAIN pc' = Threads /\ \A u \in Threads : u # t => pc'[u] = pc[u]
        /\ DOMAIN pc'[t] = DOMAIN pc[t] /\ pc'[t].call = pc[t].call
        /\ pc'[t].at \in {"begin", "first"} /\ pc'[t].i \in Maps
    <3>1. CASE pc[t].i = MNum - 1
      BY <1>1, <2>1, <3>1, GotoMoves
    <3>2. CASE pc[t].i # MNum - 1
      <4>1. GotoMap(t, "first", pc[t].i + 1) /\ pc[t].i \in Maps
        BY <1>1, <2>1, <3>2
      <4>2. pc[t].i + 1 \in Maps
        BY <3>2, <4>1, MapIndices
      <4> QED
        BY <1>1, <4>1, <4>2, GotoMapMoves
    <3> QED
      BY <3>1, <3>2
  <2>3. Shapes'
    BY <1>1, <2>1, <2>2 DEF Shapes
  <2>4. ThreadOK(t)'
    BY <1>1, <2>1, <2>2 DEF ThreadOK, CallOK, MutexOK, VisitorOK, Owning, Places
  <2> QED
    BY <2>1, <2>2, <2>3, <2>4, StepKeeps
<1>6. CASE Begin(t)
  <2>1. /\ pc[t].at = "begin" /\ Goto(t, "done") /\ UNCHANGED <<mmtx, imtx, left>>
    BY <1>6 DEF Begin, Is
  <2>2. iter' \in Maps /\ DOMAIN maps' = DOMAIN maps
    <3>1. CASE InCall(t, {"iterinit2"})
      <4>1. pc[t].call \in Calls[t] /\ pc[t].call[1] = "iterinit2"
        BY <1>1, <2>1, <3>1 DEF CallOK, InCall
      <4>2. MapOf[pc[t].call[2]] \in Maps
        BY <4>1, MemDBAssumption
      <4>3. /\ iter' = MapOf[pc[t].call[2]]
            /\ \E m : maps' = [maps EXCEPT ![MapOf[pc[t].call[2]]] = m]
        BY <1>6, <3>1 DEF Begin
      <4> QED
        BY <4>2, <4>3
    <3>2. CASE ~InCall(t, {"iterinit2"})
      BY <1>6, <3>2, MapIndices DEF Begin
    <3> QED
      BY <3>1, <3>2
  <2>3. Shapes'
    BY <1>1, <2>1, <2>2, GotoMoves DEF Shapes, Maps
  <2>4. ThreadOK(t)'
    BY <1>1, <2>1, GotoMoves DEF ThreadOK, CallOK, MutexOK, VisitorOK, Owning, Places
  <2>5. imtx = t
    BY <1>1, <2>1 DEF MutexOK, Owning
  <2> QED
    BY <2>1, <2>3, <2>4, <2>5, GotoMoves, StepKeeps
<1> QED
  BY <1>2, <1>3, <1>4, <1>5, <1>6

\* The calls that go on with the iteration, and the end of the calls about it.
LEMMA IterNextKeeps ==
  ASSUME Inv, NEW t \in Threads,
         Next1(t) \/ Skip(t) \/ Scan(t) \/ ScanNext(t) \/ Done(t)
  PROVE  Inv'
<1>1. pc[t].i \in Maps /\ CallOK(t) /\ MutexOK(t) /\ Shapes
  BY DEF Inv, ThreadOK, CallOK
<1>2. CASE Next1(t)
  <2>1. PICK i \in Maps : i = pc[t].i
    BY <1>1
  <2>2. PICK p \in {"skip", "done"} :
          p = IF maps[i].cur = None /\ i < MNum - 1 THEN "skip" ELSE "done"
    OBVIOUS
  <2>3. /\ pc[t].at = "next" /\ WrLock(t, i) /\ UNCHANGED <<imtx, iter, left>>
        /\ DOMAIN maps' = DOMAIN maps
        /\ pc' = [pc EXCEPT ![t].at = p, ![t].x = maps[i].cur]
    BY <1>2, <2>1, <2>2 DEF Next1, Is
  <2>4. /\ DOMAIN pc' = Threads /\ \A u \in Threads : u # t => pc'[u] = pc[u]
        /\ DOMAIN pc'[t] = DOMAIN pc[t] /\ pc'[t].call = pc[t].call
        /\ pc'[t].at = p /\ pc'[t].i = i
    BY <1>1, <2>1, <2>3 DEF Shapes, CallOK
  <2>5. Shapes'
    BY <1>1, <2>3, <2>4, LocksKept DEF Shapes
  <2>6. CallOK(t)'
    BY <1>1, <2>3, <2>4 DEF CallOK, Owning, Places
  <2>7. MutexOK(t)' /\ VisitorOK(t)'
    BY <1>1, <2>1, <2>2, <2>3, <2>4 DEF MutexOK, VisitorOK, Owning
  <2> QED
    BY <2>3, <2>4, <2>5, <2>6, <2>7, LocksKept, StepKeeps DEF ThreadOK
<1>3. CASE Skip(t)
  <2>1. PICK i \in Maps : i = pc[t].i
    BY <1>1
  <2>2. /\ pc[t].at = "skip" /\ Unlock(t, i) /\ UNCHANGED <<maps, imtx, left>>
        /\ iter' = iter + 1 /\ GotoMap(t, "next", iter + 1)
    BY <1>3, <2>1 DEF Skip, Is
  <2>3. iter = i /\ i < MNum - 1 /\ imtx = t
    BY <1>1, <2>1, <2>2 DEF MutexOK, Owning
  <2>4. PICK n \in Maps : n = i + 1
    BY <2>3, MemDBAssumption DEF Maps
  <2>5. /\ DOMAIN pc' = Threads /\ \A u \in Threads : u # t => pc'[u] = pc[u]
        /\ DOMAIN pc'[t] = DOMAIN pc[t] /\ pc'[t].call = pc[t].call
        /\ pc'[t].at = "next" /\ pc'[t].i = n
    BY <2>2, <2>3, <2>4, GotoMapMoves
  <2>6. iter' = n /\ n \in -1 .. MNum - 1
    BY <2>2, <2>3, <2>4, MemDBAssumption DEF Maps
  <2>7. Shapes'
    BY <1>1, <2>2, <2>5, <2>6, LocksKept DEF Shapes
  <2>8. ThreadOK(t)'
    BY <1>1, <2>2, <2>3, <2>5, <2>6 DEF ThreadOK, CallOK, MutexOK, VisitorOK, Owning, Places
  <2> QED
    BY <2>2, <2>3, <2>5, <2>7, <2>8, LocksKept, StepKeeps
<1>4. CASE Scan(t)
  <2>1. /\ pc[t].at = "scan" /\ WrLock(t, pc[t].i) /\ Goto(t, "scanned")
        /\ UNCHANGED <<maps, imtx, iter, left>>
    BY <1>4 DEF Scan, Is
  <2>2. Shapes'
    BY <1>1, <2>1, GotoMoves, LocksKept DEF Shapes
  <2>3. ThreadOK(t)'
    BY <1>1, <2>1, GotoMoves DEF ThreadOK, CallOK, MutexOK, VisitorOK, Owning, Places
  <2> QED
    BY <1>1, <2>1, <2>2, <2>3, GotoMoves, LocksKept, StepKeeps
<1>5. CASE ScanNext(t)
  <2>1. /\ pc[t].at = "scanned" /\ Unlock(t, pc[t].i) /\ UNCHANGED <<maps, imtx, iter, left>>
        /\ \/ pc[t].i < MNum - 1 /\ GotoMap(t, "scan", pc[t].i + 1)
           \/ Goto(t, "done")
    BY <1>5 DEF ScanNext, Is
  <2>2. /\ DOMAIN pc' = Threads /\ \A u \in Threads : u # t => pc'[u] = pc[u]
        /\ DOMAIN pc'[t] = DOMAIN pc[t] /\ pc'[t].call = pc[t].call
        /\ pc'[t].at \in {"scan", "done"} /\ pc'[t].i \in Maps
    <3>1. CASE pc[t].i < MNum - 1 /\ GotoMap(t, "scan", pc[t].i + 1)
      <4>1. pc[t].i + 1 \in Maps
        BY <1>1, <3>1, MemDBAssumption DEF Maps
      <4> QED
        BY <3>1, <4>1, GotoMapMoves
    <3>2. CASE Goto(t, "done")
      BY <1>1, <3>2, GotoMoves
    <3> QED
      BY <2>1, <3>1, <3>2
  <2>3. Shapes'
    BY <1>1, <2>1, <2>2, LocksKept DEF Shapes
  <2>4. ThreadOK(t)'
    BY <1>1, <2>1, <2>2 DEF ThreadOK, CallOK, MutexOK, VisitorOK, Owning, Places
  <2> QED
    BY <1>1, <2>1, <2>2, <2>3, <2>4, LocksKept, StepKeeps
<1>6. CASE Done(t)
  <2>1. /\ pc[t].at = "done" /\ Return(t) /\ imtx' = None /\ UNCHANGED <<maps, iter, left>>
        /\ mmtx' = [i \in Maps |-> Without(mmtx[i], t)]
    BY <1>6 DEF Done, Is
  <2>2. /\ mmtx' \in [Maps -> [w : Threads \cup {None}, r : SUBSET Threads]]
        /\ \A u \in Threads : u # t => \A j \in Maps : mmtx[j].w = u => mmtx'[j].w = u
    BY <1>1, <2>1, MemDBAssumption DEF Shapes, Without
  <2>3. Shapes'
    BY <1>1, <2>1, <2>2, ReturnMoves DEF Shapes
  <2>4. imtx = t
    BY <1>1, <2>1 DEF MutexOK, Owning
  <2> QED
    BY <2>1, <2>2, <2>3, <2>4, ReturnMoves, StepKeeps
<1> QED
  BY <1>2, <1>3, <1>4, <1>5, <1>6

\* So does any step.
LEMMA InvNext == Inv /\ [Next]_vars => Inv'
<1> SUFFICES ASSUME Inv, [Next]_vars PROVE Inv'
  OBVIOUS
<1>1. ASSUME NEW t \in Threads, Step(t) PROVE Inv'
  BY <1>1, KeyKeeps, SweepKeeps, ForeachKeeps, IterInitKeeps, IterNextKeeps DEF Step
<1>2. ASSUME NEW t \in Threads, NEW c \in Calls[t], Start(t, c) PROVE Inv'
  BY <1>2, StartKeeps
<1>3. CASE UNCHANGED vars
  BY <1>3 DEF vars, Inv, Shapes, ThreadOK, CallOK, MutexOK, VisitorOK
<1> QED
  BY <1>1, <1>2, <1>3 DEF Next, Finished

\* The locks are held as the places say, whatever the threads do at once.
THEOREM LocksAreHeld == Spec => []Inv
BY InvInit, InvNext, PTL DEF Spec

\* The variables stay in type: no lock is held by anything but a thread, and
\* the iterator's index is that of a map, or -1.
THEOREM TypeCorrect == Spec => []TypeOK
<1>1. Inv => TypeOK
  BY MemDBAssumption DEF Inv, Shapes, ThreadOK, CallOK, TypeOK
<1> QED
  BY <1>1, LocksAreHeld, PTL

---------------------------------------------------------------------------
(* What tcmdbforeach visits is one state *)

\* A map whose iterator is moved keeps everything else.
LEMMA CursorOnly ==
  ASSUME NEW i \in Maps, DOMAIN maps = Maps, NEW j \in Maps, NEW x,
         maps' = [maps EXCEPT ![j].cur = x]
  PROVE  OnlyCursor(i)
BY DEF OnlyCursor

\* A step that takes the lock of map j for writing, while another thread visits
\* the maps, cannot be.
LEMMA VisitorShutsOut ==
  ASSUME Inv, NEW v \in Threads, pc[v].at \in {"visit", "restore"},
         NEW t \in Threads, NEW j \in Maps, WrLock(t, j)
  PROVE  FALSE
BY WrLocked, MemDBAssumption DEF Inv, ThreadOK, VisitorOK

\* While a thread is between the maps of tcmdbforeach, no step of any thread
\* changes more of a map than the place of its iterator.
LEMMA VisitUndisturbed ==
  ASSUME Inv, NEW v \in Threads, pc[v].at \in {"visit", "restore"}, [Next]_vars,
         NEW i \in Maps
  PROVE  OnlyCursor(i)
<1>1. DOMAIN maps = Maps /\ \A t \in Threads : pc[t].i \in Maps /\ CallOK(t)
  BY DEF Inv, Shapes, ThreadOK, CallOK
<1>2. ASSUME maps' = maps PROVE OnlyCursor(i)
  BY <1>2 DEF OnlyCursor
<1>3. ASSUME NEW t \in Threads, Step(t) PROVE OnlyCursor(i)
  <2>1. CASE Leave(t) \/ SweepNext(t) \/ Sum(t) \/ Collect(t) \/ Release(t)
    BY <1>2, <2>1 DEF Leave, SweepNext, Sum, Collect, Release
  <2>2. CASE LockImtx(t) \/ Find(t) \/ ReadFirst(t) \/ Skip(t) \/ Scan(t) \/ ScanNext(t) \/ Done(t)
    BY <1>2, <2>2 DEF LockImtx, Find, ReadFirst, Skip, Scan, ScanNext, Done
  <2>3. CASE OnKey(t)
    BY <1>1, <1>2, <2>3, VisitorShutsOut DEF OnKey, Becomes
  <2>4. CASE Sweep(t)
    BY <1>1, <2>4, VisitorShutsOut DEF Sweep, Becomes
  <2>5. CASE Next1(t)
    BY <1>1, <2>5, VisitorShutsOut DEF Next1
  <2>6. CASE Visit(t)
    BY <1>1, <2>6, CursorOnly DEF Visit
  <2>7. CASE Restore(t)
    BY <1>1, <2>7, CursorOnly DEF Restore
  <2>8. CASE WriteCur(t)
    BY <1>1, <2>8, CursorOnly DEF WriteCur
  <2>9. CASE Begin(t)
    <3>1. CASE InCall(t, {"iterinit2"})
      <4>1. PICK k : k = pc[t].call[2]
        OBVIOUS
      <4>2. maps' = [maps EXCEPT ![MapOf[k]] = MapIterInit2(maps[MapOf[k]], k)]
        BY <2>9, <3>1, <4>1 DEF Begin
      <4>3. MapOf[k] \in Maps
        BY <1>1, <2>9, <3>1, <4>1, MemDBAssumption DEF CallOK, InCall, Begin, Is
      <4> QED
        BY <1>1, <4>2, <4>3 DEF MapIterInit2, OnlyCursor
    <3>2. CASE ~InCall(t, {"iterinit2"})
      BY <1>2, <2>9, <3>2 DEF Begin
    <3> QED
      BY <3>1, <3>2
  <2> QED
    BY <1>3, <2>1, <2>2, <2>3, <2>4, <2>5, <2>6, <2>7, <2>8, <2>9 DEF Step
<1>4. ASSUME NEW t \in Threads, NEW c \in Calls[t], Start(t, c) PROVE OnlyCursor(i)
  BY <1>2, <1>4 DEF Start
<1>5. CASE UNCHANGED vars
  BY <1>2, <1>5 DEF vars
<1> QED
  BY <1>3, <1>4, <1>5 DEF Next, Finished

\* What tcmdbforeach visits is one state of the database, for any number of
\* threads and maps, whatever the other threads call meanwhile.
THEOREM ForeachIsAtomic == Spec => ForeachAtomic
<1>1. Inv /\ [Next]_vars =>
        [\A t \in Threads : pc[t].at \in {"visit", "restore"} =>
           \A i \in Maps : OnlyCursor(i)]_vars
  BY VisitUndisturbed
<1> QED
  BY <1>1, LocksAreHeld, PTL DEF Spec, ForeachAtomic

---------------------------------------------------------------------------
(* The iterator's index *)

\* No two threads are at once in the parts of calls that read or move the
\* iterator (the mutex imtx of tcmdbiterinit, tcmdbiternext and tcmdbfwmkeys).
THEOREM OneIterates ==
  Spec => [](\A t, u \in Threads : pc[t].at \in Owning /\ pc[u].at \in Owning => t = u)
<1>1. Inv => \A t, u \in Threads : pc[t].at \in Owning /\ pc[u].at \in Owning => t = u
  BY DEF Inv, ThreadOK, MutexOK
<1> QED
  BY <1>1, LocksAreHeld, PTL

---------------------------------------------------------------------------
(* No two calls wait for each other.  Only tcmdbforeach waits for a lock   *)
(* with others in its hands, and it takes them in order; no call waits for *)
(* the mutex with a lock in its hands.                                     *)

Held(t, j) == mmtx[j].w = t \/ t \in mmtx[j].r

\* The locks a thread may hold at its place.
HeldAt(t, j) ==
  \/ pc[t].at \in {"unlock", "swept", "scanned", "skip"} /\ j = pc[t].i
  \/ pc[t].at = "collect" /\ j < pc[t].i
  \/ pc[t].at = "release" /\ j <= pc[t].i
  \/ pc[t].at \in {"visit", "restore", "first", "cur", "begin", "done"}

\* A thread holds no lock but those of its place, and the mutex only from the
\* place after it to the end of the call.
HolderOK(t) ==
  /\ \A j \in Maps : Held(t, j) => HeldAt(t, j)
  /\ imtx = t => pc[t].at \in Owning

HoldersOK == \A t \in Threads : HolderOK(t)

\* The map whose lock a thread is about to take, which is in the hands of
\* others: to read, or to write.
WaitsToRead(t, j) ==
  /\ ~CanRead(j)
  /\ \/ pc[t].at = "key" /\ InCall(t, Reads) /\ j = pc[t].i
     \/ pc[t].at = "find" /\ j = MapOf[pc[t].call[2]]

WaitsToWrite(t, j) ==
  /\ ~CanWrite(j) /\ j = pc[t].i
  /\ \/ pc[t].at = "key" /\ InCall(t, Writes)
     \/ pc[t].at \in {"sweep", "collect", "next", "scan"}

WaitsForMap(t, j) == WaitsToRead(t, j) \/ WaitsToWrite(t, j)

WaitsForMutex(t) == pc[t].at = "imtx" /\ imtx # None

Waits(t) == WaitsForMutex(t) \/ \E j \in Maps : WaitsForMap(t, j)

\* While there is a call that has not returned, one of them waits for no lock.
SomeCallGoesOn ==
  (\E t \in Threads : pc[t].at # "idle") => \E t \in Threads : pc[t].at # "idle" /\ ~Waits(t)

\* A lock taken adds that one to those the thread holds, and none to those of
\* another thread.
LEMMA LockTaken ==
  ASSUME Inv, NEW t \in Threads, NEW i \in Maps, WrLock(t, i) \/ RdLock(t, i)
  PROVE  /\ \A u \in Threads : u # t => \A j \in Maps : Held(u, j)' => Held(u, j)
         /\ \A j \in Maps : Held(t, j)' => j = i \/ Held(t, j)
<1>1. CASE WrLock(t, i)
  BY <1>1, MemDBAssumption DEF Inv, Shapes, WrLock, Held
<1>2. CASE RdLock(t, i)
  BY <1>2, MemDBAssumption DEF Inv, Shapes, RdLock, Held
<1> QED
  BY <1>1, <1>2

\* A lock given back is the thread's no more.
LEMMA LockGiven ==
  ASSUME Inv, NEW t \in Threads, NEW i \in Maps, Unlock(t, i)
  PROVE  /\ \A u \in Threads : u # t => \A j \in Maps : Held(u, j)' => Held(u, j)
         /\ \A j \in Maps : Held(t, j)' => j # i /\ Held(t, j)
BY MemDBAssumption DEF Inv, Shapes, Unlock, Without, Held

\* A step of t that gives no other thread a lock or the mutex keeps the
\* holders right if t is.
LEMMA HoldersStep ==
  ASSUME HoldersOK, NEW t \in Threads, HolderOK(t)',
         \A u \in Threads : u # t => pc'[u] = pc[u],
         \A u \in Threads : u # t => \A j \in Maps : Held(u, j)' => Held(u, j),
         \A u \in Threads : u # t /\ imtx' = u => imtx = u
  PROVE  HoldersOK'
<1> SUFFICES ASSUME NEW u \in Threads, u # t PROVE HolderOK(u)'
  BY DEF HoldersOK
<1>1. HolderOK(u) /\ pc'[u] = pc[u]
  BY DEF HoldersOK
<1>2. \A j \in Maps : HeldAt(u, j)' = HeldAt(u, j)
  BY <1>1 DEF HeldAt
<1> QED
  BY <1>1, <1>2 DEF HolderOK, Owning

\* At first nobody holds anything.
LEMMA HoldersInit == Init => HoldersOK
BY MemDBAssumption DEF Init, HoldersOK, HolderOK, Held, HeldAt, Idle

\* The calls about keys, about one map after the other, and tcmdbforeach.
LEMMA HoldersKept1 ==
  ASSUME Inv, HoldersOK, NEW t \in Threads,
         \/ OnKey(t) \/ Leave(t) \/ Sweep(t) \/ SweepNext(t) \/ Sum(t)
         \/ Collect(t) \/ Visit(t) \/ Restore(t) \/ Release(t)
  PROVE  HoldersOK'
<1>1. PICK i \in Maps : i = pc[t].i
  BY DEF Inv, ThreadOK, CallOK
<1>2. HolderOK(t) /\ Shapes
  BY DEF HoldersOK, Inv
<1>3. imtx' = imtx
  BY DEF OnKey, Becomes, Leave, Sweep, SweepNext, Sum, Collect, Visit, Restore, Release
<1>4. CASE OnKey(t)
  <2>1. pc[t].at = "key" /\ Goto(t, "unlock") /\ (WrLock(t, i) \/ RdLock(t, i))
    BY <1>1, <1>4 DEF OnKey, Becomes, Is
  <2>2. HolderOK(t)'
    BY <1>1, <1>2, <1>3, <2>1, GotoMoves, LockTaken DEF HolderOK, HeldAt, Owning
  <2> QED
    BY <1>3, <2>1, <2>2, GotoMoves, LockTaken, HoldersStep
<1>5. CASE Leave(t)
  <2>1. pc[t].at = "unlock" /\ Return(t) /\ Unlock(t, i)
    BY <1>1, <1>5 DEF Leave, Is
  <2>2. HolderOK(t)'
    BY <1>1, <1>2, <1>3, <2>1, LockGiven DEF HolderOK, HeldAt, Owning
  <2> QED
    BY <1>3, <2>1, <2>2, ReturnMoves, LockGiven, HoldersStep
<1>6. CASE Sweep(t)
  <2>1. pc[t].at = "sweep" /\ Goto(t, "swept") /\ WrLock(t, i)
    BY <1>1, <1>6 DEF Sweep, Becomes, Is
  <2>2. HolderOK(t)'
    BY <1>1, <1>2, <1>3, <2>1, GotoMoves, LockTaken DEF HolderOK, HeldAt, Owning
  <2> QED
    BY <1>3, <2>1, <2>2, GotoMoves, LockTaken, HoldersStep
<1>7. CASE SweepNext(t)
  <2>1. /\ pc[t].at = "swept" /\ Unlock(t, i)
        /\ Return(t) \/ GotoMap(t, "sweep", i + 1)
    BY <1>1, <1>7 DEF SweepNext, Is
  <2>2. \A j \in Maps : ~Held(t, j)'
    BY <1>1, <1>2, <2>1, LockGiven DEF HolderOK, HeldAt
  <2>3. HolderOK(t)'
    BY <1>2, <1>3, <2>1, <2>2 DEF HolderOK, Owning
  <2> QED
    BY <1>3, <2>1, <2>3, ReturnMoves, GotoMapMoves, LockGiven, HoldersStep
<1>8. CASE Sum(t)
  <2>1. /\ pc[t].at = "sum" /\ mmtx' = mmtx
        /\ Return(t) \/ GotoMap(t, "sum", i + 1)
    BY <1>1, <1>8 DEF Sum, Is
  <2>2. HolderOK(t)'
    BY <1>2, <1>3, <2>1 DEF HolderOK, Held, HeldAt, Owning
  <2> QED
    BY <1>3, <2>1, <2>2, ReturnMoves, GotoMapMoves, HoldersStep DEF Held
<1>9. CASE Collect(t)
  <2>1. /\ pc[t].at = "collect" /\ WrLock(t, i)
        /\ GotoMap(t, "visit", 0) \/ GotoMap(t, "collect", i + 1)
    BY <1>1, <1>9 DEF Collect, Is
  <2>2. \A j \in Maps : Held(t, j)' => j < i + 1
    <3>1. \A j \in Maps : Held(t, j)' => j = i \/ j < i
      BY <1>1, <1>2, <2>1, LockTaken DEF HolderOK, HeldAt
    <3> QED
      BY <3>1, MapIndices
  <2>3. HolderOK(t)'
    <3>1. CASE GotoMap(t, "visit", 0)
      BY <1>2, <1>3, <2>1, <3>1, GotoMapMoves DEF HolderOK, HeldAt, Owning
    <3>2. CASE GotoMap(t, "collect", i + 1)
      <4>1. PICK n : n = i + 1
        OBVIOUS
      <4>2. pc'[t].at = "collect" /\ pc'[t].i = n
        BY <3>2, <4>1, GotoMapMoves
      <4> QED
        BY <1>2, <1>3, <2>1, <2>2, <4>1, <4>2 DEF HolderOK, HeldAt, Owning
    <3> QED
      BY <2>1, <3>1, <3>2
  <2> QED
    BY <1>3, <2>1, <2>3, GotoMapMoves, LockTaken, HoldersStep
<1>10. CASE Visit(t)
  <2>1. /\ pc[t].at = "visit" /\ mmtx' = mmtx
        /\ pc' = [pc EXCEPT ![t].at = "restore", ![t].x = maps[pc[t].i].cur]
    BY <1>10 DEF Visit, Is
  <2>2. pc'[t].at = "restore" /\ \A u \in Threads : u # t => pc'[u] = pc[u]
    BY <1>2, <2>1 DEF Shapes, Inv, ThreadOK, CallOK
  <2>3. HolderOK(t)'
    BY <1>2, <1>3, <2>1, <2>2 DEF HolderOK, Held, HeldAt, Owning
  <2> QED
    BY <1>3, <2>1, <2>2, <2>3, HoldersStep DEF Held
<1>11. CASE Restore(t)
  <2>1. /\ pc[t].at = "restore" /\ mmtx' = mmtx
        /\ GotoMap(t, "visit", i + 1) \/ GotoMap(t, "release", MNum - 1)
    BY <1>1, <1>11 DEF Restore, Is
  <2>2. HolderOK(t)'
    <3>1. CASE GotoMap(t, "visit", i + 1)
      BY <1>2, <1>3, <2>1, <3>1, GotoMapMoves DEF HolderOK, Held, HeldAt, Owning
    <3>2. CASE GotoMap(t, "release", MNum - 1)
      <4>1. pc'[t].at = "release" /\ pc'[t].i = MNum - 1
        BY <3>2, GotoMapMoves
      <4>2. \A j \in Maps : j <= MNum - 1
        BY MemDBAssumption DEF Maps
      <4> QED
        BY <1>2, <1>3, <2>1, <4>1, <4>2 DEF HolderOK, HeldAt, Owning
    <3> QED
      BY <2>1, <3>1, <3>2
  <2> QED
    BY <1>3, <2>1, <2>2, GotoMapMoves, HoldersStep DEF Held
<1>12. CASE Release(t)
  <2>1. /\ pc[t].at = "release" /\ Unlock(t, i)
        /\ (i = 0 /\ Return(t)) \/ (i # 0 /\ GotoMap(t, "release", i - 1))
    BY <1>1, <1>12 DEF Release, Is
  <2>2. \A j \in Maps : Held(t, j)' => j < i
    <3>1. \A j \in Maps : Held(t, j)' => j # i /\ j <= i
      BY <1>1, <1>2, <2>1, LockGiven DEF HolderOK, HeldAt
    <3> QED
      BY <3>1, MapIndices
  <2>3. HolderOK(t)'
    <3>1. CASE i = 0 /\ Return(t)
      <4>1. \A j \in Maps : ~Held(t, j)'
        BY <2>2, <3>1, MapIndices
      <4> QED
        BY <1>2, <1>3, <2>1, <4>1 DEF HolderOK, Owning
    <3>2. CASE i # 0 /\ GotoMap(t, "release", i - 1)
      <4>1. PICK n : n = i - 1
        OBVIOUS
      <4>2. pc'[t].at = "release" /\ pc'[t].i = n
        BY <3>2, <4>1, GotoMapMoves
      <4>3. \A j \in Maps : Held(t, j)' => j <= n
        BY <2>2, <4>1, MapIndices
      <4> QED
        BY <1>2, <1>3, <2>1, <4>2, <4>3 DEF HolderOK, HeldAt, Owning
    <3> QED
      BY <2>1, <3>1, <3>2
  <2> QED
    BY <1>3, <2>1, <2>3, ReturnMoves, GotoMapMoves, LockGiven, HoldersStep
<1> QED
  BY <1>4, <1>5, <1>6, <1>7, <1>8, <1>9, <1>10, <1>11, <1>12

\* The calls about the iterator.
LEMMA HoldersKept2 ==
  ASSUME Inv, HoldersOK, NEW t \in Threads,
         \/ LockImtx(t) \/ Find(t) \/ ReadFirst(t) \/ WriteCur(t) \/ Begin(t)
         \/ Next1(t) \/ Skip(t) \/ Scan(t) \/ ScanNext(t) \/ Done(t)
  PROVE  HoldersOK'
<1>1. PICK i \in Maps : i = pc[t].i
  BY DEF Inv, ThreadOK, CallOK
<1>2. HolderOK(t) /\ Shapes /\ CallOK(t) /\ MutexOK(t)
  BY DEF HoldersOK, Inv, ThreadOK
<1>3. CASE LockImtx(t)
  <2>1. pc[t].at = "imtx" /\ imtx = None /\ mmtx' = mmtx
    BY <1>3 DEF LockImtx, Is
  <2>2. \A j \in Maps : ~Held(t, j)'
    BY <1>2, <2>1 DEF HolderOK, HeldAt, Held
  <2>3. CASE Return(t) /\ imtx' = imtx
    BY <2>1, <2>2, <2>3, ReturnMoves, HoldersStep, MemDBAssumption DEF HolderOK, Held
  <2>4. CASE /\ imtx' = t
             /\ GotoMap(t, AfterImtx[pc[t].call[1]], IF InCall(t, {"iternext"}) THEN iter ELSE 0)
    <3>1. PICK p \in {"first", "find", "next", "scan"} : p = AfterImtx[pc[t].call[1]]
      BY <1>2, <2>1 DEF CallOK, AfterImtx
    <3>2. PICK m : m = IF InCall(t, {"iternext"}) THEN iter ELSE 0
      OBVIOUS
    <3>3. pc'[t].at = p /\ \A u \in Threads : u # t => pc'[u] = pc[u]
      BY <2>4, <3>1, <3>2, GotoMapMoves
    <3>4. HolderOK(t)'
      BY <2>2, <3>3 DEF HolderOK, Owning
    <3> QED
      BY <2>1, <2>4, <3>3, <3>4, HoldersStep DEF Held
  <2> QED
    BY <1>3, <2>3, <2>4 DEF LockImtx
<1>4. CASE Find(t)
  <2>1. PICK k : k = pc[t].call[2]
    OBVIOUS
  <2>2. /\ pc[t].at = "find" /\ RdLock(t, MapOf[k]) /\ imtx' = imtx
        /\ Goto(t, IF k \in KeysOf(MapOf[k]) THEN "first" ELSE "done")
    BY <1>4, <2>1 DEF Find, Is
  <2>3. MapOf[k] \in Maps
    BY <1>2, <2>1, <2>2, MemDBAssumption DEF CallOK
  <2>4. PICK p \in {"first", "done"} : Goto(t, p)
    BY <2>2
  <2>5. HolderOK(t)'
    BY <2>4, GotoMoves DEF HolderOK, HeldAt, Owning
  <2> QED
    BY <2>2, <2>3, <2>4, <2>5, GotoMoves, LockTaken, HoldersStep
<1>5. CASE ReadFirst(t)
  <2>1. /\ pc[t].at = "first" /\ mmtx' = mmtx /\ imtx' = imtx
        /\ pc' = [pc EXCEPT ![t].at = "cur", ![t].x = maps[pc[t].i].first]
    BY <1>5 DEF ReadFirst, Is
  <2>2. pc'[t].at = "cur" /\ \A u \in Threads : u # t => pc'[u] = pc[u]
    BY <1>2, <2>1 DEF Shapes, CallOK
  <2>3. HolderOK(t)'
    BY <2>2 DEF HolderOK, HeldAt, Owning
  <2> QED
    BY <2>1, <2>2, <2>3, HoldersStep DEF Held
<1>6. CASE WriteCur(t)
  <2>1. /\ mmtx' = mmtx /\ imtx' = imtx
        /\ Goto(t, "begin") \/ GotoMap(t, "first", i + 1)
    BY <1>1, <1>6 DEF WriteCur
  <2>2. HolderOK(t)'
    BY <2>1, GotoMoves, GotoMapMoves DEF HolderOK, HeldAt, Owning
  <2> QED
    BY <2>1, <2>2, GotoMoves, GotoMapMoves, HoldersStep DEF Held
<1>7. CASE Begin(t)
  <2>1. mmtx' = mmtx /\ imtx' = imtx /\ Goto(t, "done")
    BY <1>7 DEF Begin
  <2>2. HolderOK(t)'
    BY <2>1, GotoMoves DEF HolderOK, HeldAt, Owning
  <2> QED
    BY <2>1, <2>2, GotoMoves, HoldersStep DEF Held
<1>8. CASE Next1(t)
  <2>1. PICK p \in {"skip", "done"} :
          p = IF maps[i].cur = None /\ i < MNum - 1 THEN "skip" ELSE "done"
    OBVIOUS
  <2>2. /\ pc[t].at = "next" /\ WrLock(t, i) /\ imtx' = imtx
        /\ pc' = [pc EXCEPT ![t].at = p, ![t].x = maps[i].cur]
    BY <1>1, <1>8, <2>1 DEF Next1, Is
  <2>3. /\ pc'[t].at = p /\ pc'[t].i = i
        /\ \A u \in Threads : u # t => pc'[u] = pc[u]
    BY <1>1, <1>2, <2>2 DEF Shapes, CallOK
  <2>4. \A j \in Maps : Held(t, j)' => j = i
    BY <1>2, <2>2, LockTaken DEF HolderOK, HeldAt
  <2>5. HolderOK(t)'
    BY <2>3, <2>4 DEF HolderOK, HeldAt, Owning
  <2> QED
    BY <2>2, <2>3, <2>5, LockTaken, HoldersStep
<1>9. CASE Skip(t)
  <2>1. PICK m : m = iter + 1
    OBVIOUS
  <2>2. pc[t].at = "skip" /\ Unlock(t, i) /\ imtx' = imtx /\ GotoMap(t, "next", m)
    BY <1>1, <1>9, <2>1 DEF Skip, Is
  <2>3. \A j \in Maps : ~Held(t, j)'
    BY <1>1, <1>2, <2>2, LockGiven DEF HolderOK, HeldAt
  <2>4. HolderOK(t)'
    BY <2>2, <2>3, GotoMapMoves DEF HolderOK, Owning
  <2> QED
    BY <2>2, <2>4, GotoMapMoves, LockGiven, HoldersStep
<1>10. CASE Scan(t)
  <2>1. pc[t].at = "scan" /\ WrLock(t, i) /\ Goto(t, "scanned") /\ imtx' = imtx
    BY <1>1, <1>10 DEF Scan, Is
  <2>2. HolderOK(t)'
    BY <1>1, <1>2, <2>1, GotoMoves, LockTaken DEF HolderOK, HeldAt, Owning
  <2> QED
    BY <2>1, <2>2, GotoMoves, LockTaken, HoldersStep
<1>11. CASE ScanNext(t)
  <2>1. /\ pc[t].at = "scanned" /\ Unlock(t, i) /\ imtx' = imtx
        /\ GotoMap(t, "scan", i + 1) \/ Goto(t, "done")
    BY <1>1, <1>11 DEF ScanNext, Is
  <2>2. \A j \in Maps : ~Held(t, j)'
    BY <1>1, <1>2, <2>1, LockGiven DEF HolderOK, HeldAt
  <2>3. HolderOK(t)'
    BY <2>1, <2>2, GotoMoves, GotoMapMoves DEF HolderOK, Owning
  <2> QED
    BY <2>1, <2>3, GotoMoves, GotoMapMoves, LockGiven, HoldersStep
<1>12. CASE Done(t)
  <2>1. /\ Return(t) /\ imtx' = None /\ mmtx' = [j \in Maps |-> Without(mmtx[j], t)]
    BY <1>12 DEF Done
  <2>2. /\ \A j \in Maps : ~Held(t, j)'
        /\ \A u \in Threads : u # t => \A j \in Maps : Held(u, j)' => Held(u, j)
    BY <1>2, <2>1, MemDBAssumption DEF Shapes, Without, Held
  <2>3. HolderOK(t)'
    BY <2>1, <2>2, MemDBAssumption DEF HolderOK
  <2> QED
    BY <2>1, <2>2, <2>3, ReturnMoves, HoldersStep, MemDBAssumption
<1> QED
  BY <1>3, <1>4, <1>5, <1>6, <1>7, <1>8, <1>9, <1>10, <1>11, <1>12

\* Every step keeps the holders right.
LEMMA HoldersNext == Inv /\ HoldersOK /\ [Next]_vars => HoldersOK'
<1> SUFFICES ASSUME Inv, HoldersOK, [Next]_vars PROVE HoldersOK'
  OBVIOUS
<1>1. ASSUME NEW t \in Threads, Step(t) PROVE HoldersOK'
  BY <1>1, HoldersKept1, HoldersKept2 DEF Step
<1>2. ASSUME NEW t \in Threads, NEW c \in Calls[t], Start(t, c) PROVE HoldersOK'
  <2>1. pc[t].at = "idle" /\ mmtx' = mmtx /\ imtx' = imtx
    BY <1>2 DEF Start, Idle
  <2>2. (\A j \in Maps : ~Held(t, j)') /\ imtx' # t
    BY <2>1 DEF HoldersOK, HolderOK, HeldAt, Held, Owning
  <2>3. \A u \in Threads : u # t => pc'[u] = pc[u]
    BY <1>2 DEF Start, Inv, Shapes
  <2> QED
    BY <2>1, <2>2, <2>3, HoldersStep DEF HolderOK, Held
<1>3. CASE UNCHANGED vars
  BY <1>3 DEF vars, HoldersOK, HolderOK, Held, HeldAt
<1> QED
  BY <1>1, <1>2, <1>3 DEF Next, Finished

\* Of some of the maps one has the largest index.
LEMMA LargestMap ==
  ASSUME NEW W \in SUBSET Maps, W # {}
  PROVE  \E m \in W : \A j \in W : j <= m
<1> DEFINE below == {MNum - 1 - j : j \in W}
<1>1. MNum \in Nat /\ \A j \in W : j \in Nat /\ j <= MNum - 1
  BY MemDBAssumption DEF Maps
<1>2. below \subseteq Nat /\ below # {}
  BY <1>1
<1>3. PICK n \in below : \A k \in below : <<k, n>> \notin OpToRel(<, Nat)
  BY <1>2, NatLessThanWellFounded, WFMin
<1>4. PICK m \in W : n = MNum - 1 - m
  OBVIOUS
<1>5. ASSUME NEW j \in W PROVE j <= m
  <2>1. MNum - 1 - j \in below
    OBVIOUS
  <2>2. ~(MNum - 1 - j < n)
    BY <1>2, <1>3, <2>1 DEF OpToRel
  <2> QED
    BY <1>1, <1>4, <2>2
<1> QED
  BY <1>5

\* A lock a call waits for is in another call's hands.
LEMMA WaitsForHolder ==
  ASSUME Inv, HoldersOK, NEW t \in Threads, NEW j \in Maps, WaitsForMap(t, j)
  PROVE  \E u \in Threads : Held(u, j) /\ HeldAt(u, j)
<1>1. mmtx[j] # [w |-> None, r |-> {}]
  BY DEF WaitsForMap, WaitsToRead, WaitsToWrite, CanRead, CanWrite
<1>2. mmtx[j] \in [w : Threads \cup {None}, r : SUBSET Threads]
  BY DEF Inv, Shapes
<1>3. mmtx[j].w # None \/ mmtx[j].r # {}
  BY <1>1, <1>2
<1>4. \E u \in Threads : Held(u, j)
  BY <1>2, <1>3 DEF Held
<1> QED
  BY <1>4 DEF HoldersOK, HolderOK

\* Were all calls waiting, each lock waited for would be in the hands of a call
\* that waits for the lock of a later map.
LEMMA WaitsForLater ==
  ASSUME Inv, HoldersOK, \A u \in Threads : pc[u].at # "idle" => Waits(u),
         NEW t \in Threads, NEW j \in Maps, WaitsForMap(t, j)
  PROVE  \E u \in Threads : \E l \in Maps : WaitsForMap(u, l) /\ j < l
<1>1. PICK u \in Threads : HeldAt(u, j)
  BY WaitsForHolder
<1>2. pc[u].at # "idle" /\ pc[u].at # "imtx"
  BY <1>1 DEF HeldAt
<1>3. PICK l \in Maps : WaitsForMap(u, l)
  BY <1>2 DEF Waits, WaitsForMutex
<1>4. pc[u].at = "collect" /\ l = pc[u].i
  BY <1>1, <1>3 DEF HeldAt, WaitsForMap, WaitsToRead, WaitsToWrite
<1> QED
  BY <1>1, <1>3, <1>4 DEF HeldAt

\* Not all of them wait: the lock waited for that is last in the order of the
\* maps would be in the hands of a call that waits for a later one.
LEMMA SomeoneGoesOn == Inv /\ HoldersOK => SomeCallGoesOn
<1> SUFFICES ASSUME Inv, HoldersOK, NEW t \in Threads, pc[t].at # "idle",
                    \A u \in Threads : pc[u].at # "idle" => Waits(u)
             PROVE  FALSE
  BY DEF SomeCallGoesOn
<1> DEFINE W == {j \in Maps : \E u \in Threads : WaitsForMap(u, j)}
<1>1. W # {}
  <2>1. CASE WaitsForMutex(t)
    <3>1. imtx \in Threads /\ pc[imtx].at \in Owning
      BY <2>1 DEF WaitsForMutex, Inv, Shapes, HoldersOK, HolderOK
    <3>2. Waits(imtx) /\ ~WaitsForMutex(imtx)
      BY <3>1 DEF Owning, WaitsForMutex
    <3> QED
      BY <3>1, <3>2 DEF Waits
  <2>2. CASE ~WaitsForMutex(t)
    BY <2>2 DEF Waits
  <2> QED
    BY <2>1, <2>2
<1>2. PICK m \in W : \A j \in W : j <= m
  BY <1>1, LargestMap
<1>3. PICK u \in Threads : \E l \in Maps : WaitsForMap(u, l) /\ m < l
  BY WaitsForLater
<1>4. PICK l \in Maps : WaitsForMap(u, l) /\ m < l
  BY <1>3
<1>5. l <= m
  BY <1>2, <1>4
<1>6. l \in Nat /\ m \in Nat
  BY MapIndices
<1> QED
  BY <1>4, <1>5, <1>6

\* For any number of threads and maps, no state is a deadlock: of the calls that
\* have not returned one waits for no lock (tcmdbforeach, which takes all the
\* locks, against the calls on one map, and the mutex against the locks).
THEOREM NoDeadlock == Spec => []SomeCallGoesOn
BY InvInit, InvNext, HoldersInit, HoldersNext, SomeoneGoesOn, PTL DEF Spec

\* A call that has returned has given back every lock and the mutex.
THEOREM LocksGivenBack ==
  Spec => [](\A t \in Threads : pc[t].at = "idle" =>
               imtx # t /\ \A j \in Maps : ~Held(t, j))
<1>1. HoldersOK => \A t \in Threads : pc[t].at = "idle" =>
                     imtx # t /\ \A j \in Maps : ~Held(t, j)
  BY DEF HoldersOK, HolderOK, HeldAt, Owning
<1> QED
  BY <1>1, InvInit, InvNext, HoldersInit, HoldersNext, PTL DEF Spec

---------------------------------------------------------------------------
(* Every map is in order *)

\* The calls at the places that change maps or pointers are the ones that
\* should be there, and an idle thread is in none.
AboutOK(t) ==
  /\ pc[t].at \in {"sweep", "swept"} => InCall(t, Sweeps)
  /\ pc[t].at \in {"collect", "visit", "restore", "release"} => InCall(t, {"foreach"})
  /\ pc[t].at \in {"first", "cur", "begin"} => InCall(t, Starts)
  /\ pc[t].at = "idle" => pc[t].call = <<"none">>

\* The pointer that a thread has read and is about to store is one of the map
\* it is at: no record of that map has gone in between.
PointerOK(t) == pc[t].at \in {"cur", "restore"} => pc[t].x \in Ptr(KeysOf(pc[t].i))

\* No iteration begins while records are changed.
ApartOK == \A t, u \in Threads : ~(InCall(t, Starts) /\ InCall(u, Changes))

MapsOK ==
  /\ \A i \in Maps : Intact(maps[i])
  /\ \A t \in Threads : AboutOK(t) /\ PointerOK(t)
  /\ ApartOK

\* Each call on one key leaves its map in order.
LEMMA BodyIntact ==
  ASSUME NEW m, Intact(m), NEW c, c[1] \in Writes, c[2] \in Keys
  PROVE  Intact(Body(m, c))
<1>1. PICK k \in Keys : k = c[2]
  OBVIOUS
<1>2. \A v : /\ Intact(MapPut(m, k, v)) /\ Intact(MapPut3(m, k, v)) /\ Intact(MapPutKeep(m, k, v))
             /\ Intact(MapPutCat(m, k, v)) /\ Intact(MapPutCat3(m, k, v))
  BY StoresIntact
<1>3. \A v, w : Intact(MapPut4(m, k, v, w))
  BY <1>2 DEF MapPut4
<1>4. \A v, w : /\ Intact(MapOut(m, k)) /\ Intact(MapGet3(m, k)) /\ Intact(MapAddInt(m, k, v))
                /\ Intact(MapPutProc(m, k, v, w))
  BY OutsIntact
<1>5. CASE c[1] \in {"put", "putkeep", "putcat", "put3", "put4"}
  BY <1>1, <1>2, <1>3, <1>5 DEF Body
<1>6. CASE c[1] \in {"putcat3", "putproc", "addint", "out", "get3"}
  BY <1>1, <1>2, <1>4, <1>6 DEF Body
<1> QED
  BY <1>5, <1>6 DEF Writes

\* So does each call that goes through the maps.
LEMMA SweptIntact ==
  ASSUME NEW m, Intact(m), NEW c, c[1] \in Sweeps, c[1] = "cutfront" => c[2] \in Nat
  PROVE  Intact(Swept(m, c))
<1>1. CASE c[1] = "vanish"
  <2>1. Intact(MapClear(m))
    BY NewHolds DEF MapClear, Intact
  <2> QED
    BY <1>1, <2>1 DEF Swept
<1>2. CASE c[1] = "cutfront"
  <2>1. PICK num : num = c[2] \div MNum + 1
    OBVIOUS
  <2>2. num \in Nat
    BY <1>2, <2>1, MemDBAssumption
  <2>3. Intact(MapCutFront(m, num))
    BY <2>2, CutsIntact
  <2> QED
    BY <1>2, <2>1, <2>3 DEF Swept
<1> QED
  BY <1>1, <1>2 DEF Sweeps

\* Building up the map i from the keys ks, one after the other.
FillOne(m, i, k) == IF MapOf[k] = i THEN MapPut(m, k, <<>>) ELSE m

IsFill(i, ks, num, f) ==
  f = [n \in 0 .. num |-> IF n = 0 THEN NewMap ELSE FillOne(f[n - 1], i, ks[n])]

\* The recursive function of Filled exists.
LEMMA FillExists ==
  ASSUME NEW i, NEW ks, NEW num \in Nat
  PROVE  \E f : IsFill(i, ks, num, f)
<1>1. PICK P : P = {n \in 0 .. num : \E f : IsFill(i, ks, n, f)}
  OBVIOUS
<1>2. 0 \in P
  <2>1. PICK f : f = [n \in 0 .. 0 |-> NewMap]
    OBVIOUS
  <2>2. IsFill(i, ks, 0, f)
    BY <2>1 DEF IsFill
  <2> QED
    BY <1>1, <2>2
<1>3. ASSUME NEW n \in 1 .. num, n - 1 \in P
      PROVE  n \in P
  <2>1. PICK f : IsFill(i, ks, n - 1, f)
    BY <1>1, <1>3
  <2>2. PICK g : g = [j \in 0 .. n |-> IF j = n THEN FillOne(f[n - 1], i, ks[n]) ELSE f[j]]
    OBVIOUS
  <2>3. ASSUME NEW j \in 0 .. n
        PROVE  g[j] = IF j = 0 THEN NewMap ELSE FillOne(g[j - 1], i, ks[j])
    <3>1. CASE j = n
      <4>1. g[j] = FillOne(f[n - 1], i, ks[n]) /\ j # 0 /\ j - 1 \in 0 .. n /\ j - 1 # n
        BY <2>2, <3>1
      <4> QED
        BY <2>2, <3>1, <4>1
    <3>2. CASE j # n
      <4>1. j \in 0 .. n - 1 /\ g[j] = f[j]
        BY <2>2, <3>2
      <4>2. f[j] = IF j = 0 THEN NewMap ELSE FillOne(f[j - 1], i, ks[j])
        BY <2>1, <4>1 DEF IsFill
      <4>3. j # 0 => j - 1 \in 0 .. n /\ j - 1 # n
        BY <4>1
      <4> QED
        BY <2>2, <4>1, <4>2, <4>3
    <3> QED
      BY <3>1, <3>2
  <2>4. IsFill(i, ks, n, g)
    BY <2>2, <2>3 DEF IsFill
  <2> QED
    BY <1>1, <2>4
<1>4. \A n \in 0 .. num : n \in P
  BY <1>2, <1>3, Reached
<1> QED
  BY <1>1, <1>4

\* The maps that a program has built up are in order.
LEMMA FilledIntact ==
  ASSUME NEW i, NEW ks \in Seq(Keys)
  PROVE  Intact(Filled(i, ks))
<1>1. PICK num \in Nat : num = Len(ks)
  OBVIOUS
<1>2. PICK f : f = CHOOSE g : IsFill(i, ks, num, g)
  OBVIOUS
<1>3. IsFill(i, ks, num, f)
  BY <1>2, FillExists
<1>4. Filled(i, ks) = f[num]
  <2>1. Filled(i, ks) = (CHOOSE g : IsFill(i, ks, num, g))[num]
    BY <1>1 DEF Filled, IsFill, FillOne
  <2> QED
    BY <1>2, <2>1
<1>5. PICK P : P = {n \in 0 .. num : Intact(f[n])}
  OBVIOUS
<1>6. 0 \in P
  <2>1. f[0] = NewMap
    BY <1>3 DEF IsFill
  <2> QED
    BY <1>5, <2>1, NewHolds DEF Intact
<1>7. ASSUME NEW n \in 1 .. num, n - 1 \in P
      PROVE  n \in P
  <2>1. PICK m, k : m = f[n - 1] /\ k = ks[n]
    OBVIOUS
  <2>2. Intact(m) /\ k \in Keys
    BY <1>1, <1>5, <1>7, <2>1
  <2>3. f[n] = FillOne(m, i, k)
    BY <1>3, <2>1 DEF IsFill
  <2>4. Intact(FillOne(m, i, k))
    BY <2>2, StoresIntact DEF FillOne
  <2> QED
    BY <1>5, <2>3, <2>4
<1>8. \A n \in 0 .. num : n \in P
  BY <1>6, <1>7, Reached
<1> QED
  BY <1>4, <1>5, <1>8

\* The maps are in order when the object is shared.
LEMMA MapsBegin == Init => MapsOK
<1> SUFFICES ASSUME Init PROVE MapsOK
  OBVIOUS
<1>1. \A i \in Maps : Intact(maps[i])
  <2>1. PICK ks \in Prior : maps = [i \in Maps |-> Filled(i, ks)]
    BY DEF Init
  <2>2. ks \in Seq(Keys)
    BY MemDBAssumption
  <2> QED
    BY <2>1, <2>2, FilledIntact
<1>2. \A t \in Threads : pc[t] = Idle
  BY DEF Init
<1>3. \A t \in Threads : pc[t].at = "idle" /\ pc[t].call = <<"none">>
  BY <1>2 DEF Idle
<1> QED
  BY <1>1, <1>3
  DEF MapsOK, AboutOK, PointerOK, ApartOK, InCall, Starts, Changes, Writes, Sweeps

\* A step of t, by which every map and t stay right, keeps all right if it
\* leaves the other threads at their places and the keys they point to stored.
LEMMA MapsStep ==
  ASSUME MapsOK, NEW t \in Threads, \A i \in Maps : Intact(maps'[i]),
         AboutOK(t)', PointerOK(t)', pc'[t].call \in {pc[t].call, <<"none">>},
         \A u \in Threads : u # t => pc'[u] = pc[u],
         \A u \in Threads : u # t /\ pc[u].at \in {"cur", "restore"} =>
           KeysOf(pc[u].i)' = KeysOf(pc[u].i)
  PROVE  MapsOK'
<1>1. ASSUME NEW u \in Threads, u # t
      PROVE  AboutOK(u)' /\ PointerOK(u)'
  <2>1. pc'[u] = pc[u] /\ AboutOK(u) /\ PointerOK(u)
    BY <1>1 DEF MapsOK
  <2>2. AboutOK(u)'
    BY <2>1 DEF AboutOK, InCall
  <2>3. PointerOK(u)'
    <3>1. SUFFICES ASSUME pc[u].at \in {"cur", "restore"}
                   PROVE  pc'[u].x \in Ptr(KeysOf(pc[u].i)')
      BY <2>1 DEF PointerOK
    <3>2. KeysOf(pc[u].i)' = KeysOf(pc[u].i)
      BY <1>1, <3>1
    <3> QED
      BY <2>1, <3>1, <3>2 DEF PointerOK
  <2> QED
    BY <2>2, <2>3
<1>2. ASSUME NEW u \in Threads, NEW v \in Threads
      PROVE  ~(InCall(u, Starts)' /\ InCall(v, Changes)')
  <2>1. \A x \in Threads : pc'[x].call = pc[x].call \/ pc'[x].call = <<"none">>
    OBVIOUS
  <2>2. \A x \in Threads : /\ InCall(x, Starts)' => InCall(x, Starts)
                           /\ InCall(x, Changes)' => InCall(x, Changes)
    BY <2>1 DEF InCall, Starts, Changes, Writes, Sweeps
  <2> QED
    BY <2>2 DEF MapsOK, ApartOK
<1>3. ApartOK'
  BY <1>2 DEF ApartOK
<1> QED
  BY <1>1, <1>3 DEF MapsOK

\* A thread that changes the records of a map finds no other thread with a
\* pointer into it: an iteration does not begin meanwhile, and a visitor has
\* the lock.
LEMMA NoPointer ==
  ASSUME Inv, MapsOK, NEW t \in Threads, InCall(t, Changes), NEW i \in Maps, WrLock(t, i),
         NEW u \in Threads, pc[u].at \in {"cur", "restore"}
  PROVE  FALSE
<1>1. CASE pc[u].at = "cur"
  BY <1>1 DEF MapsOK, AboutOK, ApartOK
<1>2. CASE pc[u].at = "restore"
  BY <1>2, VisitorShutsOut
<1> QED
  BY <1>1, <1>2

\* A call on one key.
LEMMA MapsKey ==
  ASSUME Inv, MapsOK, NEW t \in Threads, OnKey(t)
  PROVE  MapsOK'
<1>1. PICK i \in Maps : i = pc[t].i
  BY DEF Inv, ThreadOK, CallOK
<1>2. /\ pc[t].at = "key" /\ Goto(t, "unlock") /\ CallOK(t) /\ DOMAIN maps = Maps
      /\ \A j \in Maps : Intact(maps[j])
  BY DEF OnKey, Becomes, Is, Inv, ThreadOK, Shapes, MapsOK
<1>3. /\ pc'[t].at = "unlock" /\ pc'[t].call = pc[t].call
      /\ \A u \in Threads : u # t => pc'[u] = pc[u]
  BY <1>2, GotoMoves
<1>4. AboutOK(t)' /\ PointerOK(t)'
  BY <1>3 DEF AboutOK, PointerOK
<1>5. CASE UNCHANGED maps
  BY <1>2, <1>3, <1>4, <1>5, MapsStep DEF KeysOf
<1>6. CASE /\ InCall(t, Writes) /\ WrLock(t, i)
           /\ maps' = [maps EXCEPT ![i] = Body(maps[i], pc[t].call)]
  <2>1. PICK m : m = Body(maps[i], pc[t].call)
    OBVIOUS
  <2>2. pc[t].call[1] \in Writes /\ pc[t].call[2] \in Keys
    BY <1>2, <1>6, MemDBAssumption DEF CallOK, InCall
  <2>3. Intact(m)
    BY <1>2, <2>1, <2>2, BodyIntact
  <2>4. \A j \in Maps : Intact(maps'[j])
    BY <1>2, <1>6, <2>1, <2>3
  <2>5. InCall(t, Changes)
    BY <1>6 DEF InCall, Changes
  <2>6. \A u \in Threads : u # t => ~(pc[u].at \in {"cur", "restore"})
    BY <1>6, <2>5, NoPointer
  <2> QED
    BY <1>3, <1>4, <2>4, <2>6, MapsStep
<1> QED
  BY <1>1, <1>5, <1>6 DEF OnKey, Becomes

\* A map is cleared, or loses its front records.
LEMMA MapsSweep ==
  ASSUME Inv, MapsOK, NEW t \in Threads, Sweep(t)
  PROVE  MapsOK'
<1>1. PICK i \in Maps : i = pc[t].i
  BY DEF Inv, ThreadOK, CallOK
<1>2. /\ pc[t].at = "sweep" /\ WrLock(t, i) /\ Goto(t, "swept") /\ CallOK(t)
      /\ DOMAIN maps = Maps /\ (\A j \in Maps : Intact(maps[j])) /\ InCall(t, Sweeps)
      /\ maps' = [maps EXCEPT ![i] = Swept(maps[i], pc[t].call)]
  BY <1>1 DEF Sweep, Becomes, Is, Inv, ThreadOK, Shapes, MapsOK, AboutOK
<1>3. /\ pc'[t].at = "swept" /\ pc'[t].call = pc[t].call
      /\ \A u \in Threads : u # t => pc'[u] = pc[u]
  BY <1>2, GotoMoves
<1>4. AboutOK(t)' /\ PointerOK(t)'
  BY <1>2, <1>3 DEF AboutOK, PointerOK, InCall
<1>5. PICK m : m = Swept(maps[i], pc[t].call)
  OBVIOUS
<1>6. pc[t].call[1] \in Sweeps /\ (pc[t].call[1] = "cutfront" => pc[t].call[2] \in Nat)
  BY <1>2, MemDBAssumption DEF CallOK, InCall
<1>7. Intact(m)
  BY <1>2, <1>5, <1>6, SweptIntact
<1>8. \A j \in Maps : Intact(maps'[j])
  BY <1>2, <1>5, <1>7
<1>9. InCall(t, Changes)
  BY <1>2 DEF InCall, Changes
<1>10. \A u \in Threads : u # t => ~(pc[u].at \in {"cur", "restore"})
  BY <1>2, <1>9, NoPointer
<1> QED
  BY <1>3, <1>4, <1>8, <1>10, MapsStep

\* The iterator of one map is put on a record of it, or on none.
LEMMA MapsCursor ==
  ASSUME Inv, MapsOK, NEW i \in Maps, NEW d \in Ptr(KeysOf(i)),
         maps' = [maps EXCEPT ![i].cur = d]
  PROVE  \A j \in Maps : Intact(maps'[j]) /\ KeysOf(j)' = KeysOf(j)
<1>1. DOMAIN maps = Maps /\ \A j \in Maps : Intact(maps[j])
  BY DEF Inv, Shapes, MapsOK
<1>2. PICK m, n : m = maps[i] /\ n = [m EXCEPT !.cur = d]
  OBVIOUS
<1>3. Intact(n) /\ DOMAIN n.recs = DOMAIN m.recs
  BY <1>1, <1>2, ItersIntact, ItersKeepKeys DEF KeysOf
<1>4. maps' = [maps EXCEPT ![i] = n]
  BY <1>2
<1> QED
  BY <1>1, <1>2, <1>3, <1>4 DEF KeysOf

\* tcmdbforeach keeps the place of an iterator aside, and puts it back.
LEMMA MapsVisit ==
  ASSUME Inv, MapsOK, NEW t \in Threads, Visit(t) \/ Restore(t)
  PROVE  MapsOK'
<1>1. PICK i \in Maps : i = pc[t].i
  BY DEF Inv, ThreadOK, CallOK
<1>2. /\ CallOK(t) /\ DOMAIN maps = Maps /\ DOMAIN pc = Threads /\ Intact(maps[i])
      /\ AboutOK(t) /\ PointerOK(t)
  BY DEF Inv, ThreadOK, Shapes, MapsOK
<1>3. CASE Visit(t)
  <2>1. /\ pc[t].at = "visit" /\ maps' = [maps EXCEPT ![i].cur = None]
        /\ pc' = [pc EXCEPT ![t].at = "restore", ![t].x = maps[i].cur]
    BY <1>1, <1>3 DEF Visit, Is
  <2>2. PICK d : d = maps[i].cur
    OBVIOUS
  <2>3. d \in Ptr(KeysOf(i)) /\ None \in Ptr(KeysOf(i))
    BY <1>2, <2>2, IntactFacts DEF KeysOf, Ptr
  <2>4. \A j \in Maps : Intact(maps'[j]) /\ KeysOf(j)' = KeysOf(j)
    BY <2>1, <2>3, MapsCursor
  <2>5. /\ pc'[t].at = "restore" /\ pc'[t].x = d /\ pc'[t].i = i /\ pc'[t].call = pc[t].call
        /\ \A u \in Threads : u # t => pc'[u] = pc[u]
    BY <1>1, <1>2, <2>1, <2>2 DEF CallOK
  <2>6. AboutOK(t)'
    BY <1>2, <2>1, <2>5 DEF AboutOK, InCall
  <2>7. PointerOK(t)'
    BY <2>3, <2>4, <2>5 DEF PointerOK
  <2>8. \A u \in Threads : pc[u].i \in Maps
    BY DEF Inv, ThreadOK, CallOK
  <2> QED
    BY <2>4, <2>5, <2>6, <2>7, <2>8, MapsStep
<1>4. CASE Restore(t)
  <2>1. /\ pc[t].at = "restore" /\ maps' = [maps EXCEPT ![i].cur = pc[t].x]
        /\ GotoMap(t, "visit", i + 1) \/ GotoMap(t, "release", MNum - 1)
    BY <1>1, <1>4 DEF Restore, Is
  <2>2. PICK d \in Ptr(KeysOf(i)) : d = pc[t].x
    BY <1>1, <1>2, <2>1 DEF PointerOK
  <2>3. \A j \in Maps : Intact(maps'[j]) /\ KeysOf(j)' = KeysOf(j)
    BY <2>1, <2>2, MapsCursor
  <2>4. /\ pc'[t].at \in {"visit", "release"} /\ pc'[t].call = pc[t].call
        /\ \A u \in Threads : u # t => pc'[u] = pc[u]
    BY <2>1, GotoMapMoves
  <2>5. AboutOK(t)' /\ PointerOK(t)'
    BY <1>2, <2>1, <2>4 DEF AboutOK, PointerOK, InCall
  <2>6. \A u \in Threads : pc[u].i \in Maps
    BY DEF Inv, ThreadOK, CallOK
  <2> QED
    BY <2>3, <2>4, <2>5, <2>6, MapsStep
<1> QED
  BY <1>3, <1>4

\* tcmdbiterinit reads the first record of a map and puts the iterator on it;
\* tcmdbiterinit2 moves one of them on to its key.
LEMMA MapsIterInit ==
  ASSUME Inv, MapsOK, NEW t \in Threads, ReadFirst(t) \/ WriteCur(t) \/ Begin(t)
  PROVE  MapsOK'
<1>1. PICK i \in Maps : i = pc[t].i
  BY DEF Inv, ThreadOK, CallOK
<1>2. /\ CallOK(t) /\ DOMAIN maps = Maps /\ DOMAIN pc = Threads
      /\ (\A j \in Maps : Intact(maps[j])) /\ AboutOK(t) /\ PointerOK(t)
      /\ \A u \in Threads : pc[u].i \in Maps
  BY DEF Inv, ThreadOK, CallOK, Shapes, MapsOK
<1>3. CASE ReadFirst(t)
  <2>1. /\ pc[t].at = "first" /\ maps' = maps
        /\ pc' = [pc EXCEPT ![t].at = "cur", ![t].x = maps[i].first]
    BY <1>1, <1>3 DEF ReadFirst, Is
  <2>2. PICK d : d = maps[i].first
    OBVIOUS
  <2>3. d \in Ptr(KeysOf(i))
    BY <1>2, <2>2, IntactFacts DEF KeysOf
  <2>4. /\ pc'[t].at = "cur" /\ pc'[t].x = d /\ pc'[t].i = i /\ pc'[t].call = pc[t].call
        /\ \A u \in Threads : u # t => pc'[u] = pc[u]
    BY <1>1, <1>2, <2>1, <2>2 DEF CallOK
  <2>5. AboutOK(t)'
    BY <1>2, <2>1, <2>4 DEF AboutOK, InCall
  <2>6. PointerOK(t)'
    BY <2>1, <2>3, <2>4 DEF PointerOK, KeysOf
  <2> QED
    BY <1>2, <2>1, <2>4, <2>5, <2>6, MapsStep DEF KeysOf
<1>4. CASE WriteCur(t)
  <2>1. /\ pc[t].at = "cur" /\ maps' = [maps EXCEPT ![i].cur = pc[t].x]
        /\ Goto(t, "begin") \/ GotoMap(t, "first", i + 1)
    BY <1>1, <1>4 DEF WriteCur, Is
  <2>2. PICK d \in Ptr(KeysOf(i)) : d = pc[t].x
    BY <1>1, <1>2, <2>1 DEF PointerOK
  <2>3. \A j \in Maps : Intact(maps'[j]) /\ KeysOf(j)' = KeysOf(j)
    BY <2>1, <2>2, MapsCursor
  <2>4. /\ pc'[t].at \in {"begin", "first"} /\ pc'[t].call = pc[t].call
        /\ \A u \in Threads : u # t => pc'[u] = pc[u]
    BY <2>1, GotoMoves, GotoMapMoves
  <2>5. AboutOK(t)' /\ PointerOK(t)'
    BY <1>2, <2>1, <2>4 DEF AboutOK, PointerOK, InCall
  <2> QED
    BY <1>2, <2>3, <2>4, <2>5, MapsStep
<1>5. CASE Begin(t)
  <2>1. pc[t].at = "begin" /\ Goto(t, "done")
    BY <1>5 DEF Begin, Is
  <2>2. /\ pc'[t].at = "done" /\ pc'[t].call = pc[t].call
        /\ \A u \in Threads : u # t => pc'[u] = pc[u]
    BY <2>1, GotoMoves
  <2>3. AboutOK(t)' /\ PointerOK(t)'
    BY <2>2 DEF AboutOK, PointerOK
  <2>4. \A j \in Maps : Intact(maps'[j]) /\ KeysOf(j)' = KeysOf(j)
    <3>1. CASE maps' = maps
      BY <1>2, <3>1 DEF KeysOf
    <3>2. CASE InCall(t, {"iterinit2"})
      <4>1. PICK k \in Keys : k = pc[t].call[2]
        BY <1>2, <2>1, <3>2, MemDBAssumption DEF CallOK, InCall
      <4>2. PICK l \in Maps : l = MapOf[k]
        BY MemDBAssumption
      <4>3. PICK n : n = MapIterInit2(maps[l], k)
        OBVIOUS
      <4>4. maps' = [maps EXCEPT ![l] = n]
        BY <1>5, <3>2, <4>1, <4>2, <4>3 DEF Begin
      <4>5. Intact(n) /\ DOMAIN n.recs = DOMAIN maps[l].recs
        BY <1>2, <4>3, ItersIntact, ItersKeepKeys
      <4> QED
        BY <1>2, <4>4, <4>5 DEF KeysOf
    <3> QED
      BY <1>5, <3>1, <3>2 DEF Begin
  <2> QED
    BY <1>2, <2>2, <2>3, <2>4, MapsStep
<1> QED
  BY <1>3, <1>4, <1>5

\* tcmdbiternext moves the iterator of a map on.
LEMMA MapsIterNext ==
  ASSUME Inv, MapsOK, NEW t \in Threads, Next1(t)
  PROVE  MapsOK'
<1>1. PICK i \in Maps : i = pc[t].i
  BY DEF Inv, ThreadOK, CallOK
<1>2. /\ CallOK(t) /\ DOMAIN maps = Maps /\ DOMAIN pc = Threads
      /\ (\A j \in Maps : Intact(maps[j])) /\ \A u \in Threads : pc[u].i \in Maps
  BY DEF Inv, ThreadOK, CallOK, Shapes, MapsOK
<1>3. PICK p \in {"skip", "done"} :
        p = IF maps[i].cur = None /\ i < MNum - 1 THEN "skip" ELSE "done"
  OBVIOUS
<1>4. PICK n : n = MapIterNext(maps[i])
  OBVIOUS
<1>5. /\ maps' = [maps EXCEPT ![i] = n]
      /\ pc' = [pc EXCEPT ![t].at = p, ![t].x = maps[i].cur]
  BY <1>1, <1>3, <1>4 DEF Next1
<1>6. /\ pc'[t].at = p /\ pc'[t].call = pc[t].call
      /\ \A u \in Threads : u # t => pc'[u] = pc[u]
  BY <1>2, <1>5 DEF CallOK
<1>7. Intact(n) /\ DOMAIN n.recs = DOMAIN maps[i].recs
  BY <1>2, <1>4, ItersIntact, ItersKeepKeys
<1>8. \A j \in Maps : Intact(maps'[j]) /\ KeysOf(j)' = KeysOf(j)
  BY <1>2, <1>5, <1>7 DEF KeysOf
<1>9. AboutOK(t)' /\ PointerOK(t)'
  BY <1>6 DEF AboutOK, PointerOK
<1> QED
  BY <1>2, <1>6, <1>8, <1>9, MapsStep

\* The other steps leave the maps alone.
LEMMA MapsStay ==
  ASSUME Inv, MapsOK, NEW t \in Threads,
         \/ Leave(t) \/ SweepNext(t) \/ Sum(t) \/ Collect(t) \/ Release(t) \/ LockImtx(t)
         \/ Find(t) \/ Skip(t) \/ Scan(t) \/ ScanNext(t) \/ Done(t)
  PROVE  MapsOK'
<1>1. /\ CallOK(t) /\ AboutOK(t) /\ \A j \in Maps : Intact(maps[j])
  BY DEF Inv, ThreadOK, MapsOK
<1>2. maps' = maps
  BY DEF Leave, SweepNext, Sum, Collect, Release, LockImtx, Find, Skip, Scan, ScanNext, Done
<1>3. SUFFICES /\ AboutOK(t)' /\ PointerOK(t)'
               /\ pc'[t].call \in {pc[t].call, <<"none">>}
               /\ \A u \in Threads : u # t => pc'[u] = pc[u]
  BY <1>1, <1>2, MapsStep DEF KeysOf
<1>4. CASE Return(t)
  <2>1. pc'[t] = Idle /\ \A u \in Threads : u # t => pc'[u] = pc[u]
    BY <1>4 DEF Return, Inv, Shapes
  <2>2. pc'[t].at = "idle" /\ pc'[t].call = <<"none">>
    BY <2>1 DEF Idle
  <2> QED
    BY <2>1, <2>2 DEF AboutOK, PointerOK
<1>5. ASSUME NEW p \in {"swept", "scanned", "scan", "done", "next", "sum", "find"},
             \/ Goto(t, p) \/ \E i \in Int : GotoMap(t, p, i)
      PROVE  /\ pc[t].at = "swept" \/ p # "swept" => AboutOK(t)' /\ PointerOK(t)'
             /\ pc'[t].call \in {pc[t].call, <<"none">>}
             /\ \A u \in Threads : u # t => pc'[u] = pc[u]
  <2>1. /\ pc'[t].at = p /\ pc'[t].call = pc[t].call
        /\ \A u \in Threads : u # t => pc'[u] = pc[u]
    BY <1>5, GotoMoves, GotoMapMoves
  <2> QED
    BY <1>1, <2>1 DEF AboutOK, PointerOK, InCall
<1>6. CASE \E i \in Int : GotoMap(t, "sweep", i) /\ pc[t].at = "swept"
  <2>1. /\ pc'[t].at = "sweep" /\ pc'[t].call = pc[t].call /\ pc[t].at = "swept"
        /\ \A u \in Threads : u # t => pc'[u] = pc[u]
    BY <1>6, GotoMapMoves
  <2> QED
    BY <1>1, <2>1 DEF AboutOK, PointerOK, InCall
<1>7. CASE /\ pc[t].at \in {"collect", "release"}
           /\ \E p \in {"collect", "visit", "release"}, i \in Int : GotoMap(t, p, i)
  <2>1. /\ pc'[t].at \in {"collect", "visit", "release"} /\ pc'[t].call = pc[t].call
        /\ \A u \in Threads : u # t => pc'[u] = pc[u]
    BY <1>7, GotoMapMoves
  <2> QED
    BY <1>1, <1>7, <2>1 DEF AboutOK, PointerOK, InCall
<1>8. CASE /\ InCall(t, Starts)
           /\ Goto(t, "first") \/ \E i \in Int : GotoMap(t, "first", i)
  <2>1. /\ pc'[t].at = "first" /\ pc'[t].call = pc[t].call
        /\ \A u \in Threads : u # t => pc'[u] = pc[u]
    BY <1>8, GotoMoves, GotoMapMoves
  <2> QED
    BY <1>8, <2>1 DEF AboutOK, PointerOK, InCall
<1>9. pc[t].i \in Int /\ pc[t].i + 1 \in Int /\ pc[t].i - 1 \in Int /\ iter \in Int /\ iter + 1 \in Int
  BY MemDBAssumption DEF Inv, Shapes, ThreadOK, CallOK, Maps
<1>10. CASE Leave(t) \/ Done(t)
  BY <1>4, <1>10 DEF Leave, Done
<1>11. CASE SweepNext(t)
  BY <1>4, <1>6, <1>9, <1>11 DEF SweepNext, Is
<1>12. CASE Sum(t) \/ Skip(t) \/ Scan(t) \/ ScanNext(t)
  <2>1. \/ Return(t)
        \/ \E p \in {"scanned", "scan", "done", "next", "sum"} :
             Goto(t, p) \/ \E i \in Int : GotoMap(t, p, i)
    BY <1>9, <1>12 DEF Sum, Skip, Scan, ScanNext
  <2> QED
    BY <1>4, <1>5, <2>1
<1>13. CASE Collect(t) \/ Release(t)
  <2>1. \/ Return(t)
        \/ /\ pc[t].at \in {"collect", "release"}
           /\ \E p \in {"collect", "visit", "release"}, i \in Int : GotoMap(t, p, i)
    BY <1>9, <1>13 DEF Collect, Release, Is
  <2> QED
    BY <1>4, <1>7, <2>1
<1>14. CASE Find(t)
  <2>1. InCall(t, Starts)
    BY <1>1, <1>14 DEF Find, Is, CallOK, InCall, Starts
  <2>2. Goto(t, "first") \/ Goto(t, "done")
    BY <1>14 DEF Find
  <2> QED
    BY <1>5, <1>8, <2>1, <2>2
<1>15. CASE LockImtx(t)
  <2>1. PICK i \in Int : i = IF InCall(t, {"iternext"}) THEN iter ELSE 0
    BY <1>9
  <2>2. Return(t) \/ GotoMap(t, AfterImtx[pc[t].call[1]], i)
    BY <1>15, <2>1 DEF LockImtx
  <2>3. pc[t].call[1] \in DOMAIN AfterImtx
    BY <1>1, <1>15 DEF LockImtx, Is, CallOK
  <2>4. \/ AfterImtx[pc[t].call[1]] \in {"find", "next", "scan"}
        \/ AfterImtx[pc[t].call[1]] = "first" /\ InCall(t, Starts)
    BY <2>3 DEF AfterImtx, InCall, Starts
  <2> QED
    BY <1>4, <1>5, <1>8, <2>2, <2>4
<1> QED
  BY <1>10, <1>11, <1>12, <1>13, <1>14, <1>15

\* A call begins: not one that starts an iteration while records are changed.
LEMMA MapsStart ==
  ASSUME Apart, Inv, MapsOK, NEW t \in Threads, NEW c \in Calls[t], Start(t, c)
  PROVE  MapsOK'
<1> DEFINE begun == [Idle EXCEPT !.at = Door(c), !.call = c,
                             !.i = IF Door(c) = "key" THEN MapOf[c[2]] ELSE 0]
<1>1. pc' = [pc EXCEPT ![t] = begun] /\ maps' = maps /\ MayStart(c)
  BY DEF Start
<1>2. begun.at = Door(c) /\ begun.call = c
  BY DEF Idle
<1> HIDE DEF begun
<1>3. /\ pc'[t].at = Door(c) /\ pc'[t].call = c
      /\ \A u \in Threads : u # t => pc'[u] = pc[u]
  BY <1>1, <1>2 DEF Inv, Shapes
<1>4. /\ Door(c) \in {"key", "sweep", "sum", "collect", "imtx"}
      /\ Door(c) = "sweep" => c[1] \in Sweeps
      /\ Door(c) = "collect" => c[1] = "foreach"
  BY DEF Door
<1>5. \A u \in Threads : AboutOK(u)' /\ PointerOK(u)'
  <2>1. AboutOK(t)' /\ PointerOK(t)'
    BY <1>3, <1>4 DEF AboutOK, PointerOK, InCall
  <2>2. ASSUME NEW u \in Threads, u # t
        PROVE  AboutOK(u)' /\ PointerOK(u)'
    <3>1. pc'[u] = pc[u] /\ AboutOK(u) /\ PointerOK(u)
      BY <1>3, <2>2 DEF MapsOK
    <3> QED
      BY <1>1, <3>1 DEF AboutOK, PointerOK, InCall, KeysOf
  <2> QED
    BY <2>1, <2>2
<1>6. ApartOK'
  <2>1. /\ c[1] \in Starts => \A u \in Threads : ~InCall(u, Changes)
        /\ c[1] \in Changes => \A u \in Threads : ~InCall(u, Starts)
    BY <1>1 DEF MayStart
  <2>2. \A u \in Threads : pc'[u].call = IF u = t THEN c ELSE pc[u].call
    BY <1>3
  <2>3. ~(c[1] \in Starts /\ c[1] \in Changes)
    BY DEF Starts, Changes, Writes, Sweeps
  <2> QED
    BY <2>1, <2>2, <2>3 DEF MapsOK, ApartOK, InCall
<1> QED
  BY <1>1, <1>5, <1>6 DEF MapsOK

\* Every step keeps the maps in order.
LEMMA MapsNext == ASSUME Apart, Inv, MapsOK, [Next]_vars PROVE MapsOK'
<1>1. ASSUME NEW t \in Threads, Step(t) PROVE MapsOK'
  BY <1>1, MapsKey, MapsSweep, MapsVisit, MapsIterInit, MapsIterNext, MapsStay DEF Step
<1>2. ASSUME NEW t \in Threads, NEW c \in Calls[t], Start(t, c) PROVE MapsOK'
  BY <1>2, MapsStart
<1>3. CASE UNCHANGED vars
  BY <1>3 DEF vars, MapsOK, AboutOK, PointerOK, ApartOK, InCall, KeysOf
<1> QED
  BY <1>1, <1>2, <1>3 DEF Next, Finished

\* For every set of threads, keys and calls and every number of maps: whatever
\* the threads do at the same time, each map keeps its trees, its list and its
\* iterator in order, as long as iterations are not started while records are
\* changed (tcmdbput and the others, tcmdbforeach, tcmdbiterinit).
THEOREM MapsAreSound == ASSUME Apart PROVE Spec => []MapsSound
<1>1. Inv /\ MapsOK /\ [Next]_vars => MapsOK'
  BY MapsNext
<1>2. MapsOK => \A i \in Maps : MapSound(maps[i])
  BY IntactFacts DEF MapsOK
<1>3. TypeOK /\ (\A i \in Maps : MapSound(maps[i])) => MapsSound
  BY DEF MapsSound
<1> QED
  BY <1>1, <1>2, <1>3, InvInit, InvNext, MapsBegin, TypeCorrect, PTL DEF Spec

---------------------------------------------------------------------------
(* An iteration returns everything *)

\* The walk along next from the iterator meets what it has still to return.
LEMMA AheadIs ==
  ASSUME NEW m, Intact(m)
  PROVE  Ahead(m) = {x \in DOMAIN m.recs : Returns(m, x)}
<1>1. PICK D, ks, vs, c : Holds(m, D, ks, vs, c)
  BY DEF Intact
<1>2. /\ Lists(ks, D) /\ None \notin D /\ DOMAIN m.recs = D /\ m.cur = c /\ c \in Ptr(D)
      /\ \A x : Returns(m, x) <=> Reaches(ks, c, x)
      /\ Good(m, D, ks)
  BY <1>1, ReturnsIs, HoldsFacts
<1>3. PICK n : n = Len(ks)
  OBVIOUS
<1>4. /\ n \in Nat /\ \A i \in 1 .. n : ks[i] \in D /\ ks[i] # None
      /\ \A x \in D : \E i \in 1 .. n : ks[i] = x
      /\ \A i \in 1 .. n : m.recs[ks[i]].next = Follower(ks, i)
  BY <1>2, <1>3 DEF Lists, Good, Chain
<1> DEFINE f == [r \in D \cup {None} |-> IF r = None THEN {} ELSE {x \in D : Reaches(ks, r, x)}]
           IsWalk(w) == w = [r \in DOMAIN m.recs \cup {None} |->
                               IF r = None THEN {} ELSE {r} \cup w[m.recs[r].next]]
<1>5. \A i \in 1 .. n : Follower(ks, i) \in D \cup {None}
  <2>1. ASSUME NEW i \in 1 .. n, i # n
        PROVE  ks[i + 1] \in D
    <3>1. i + 1 \in 1 .. n
      BY <1>4, <2>1
    <3> QED
      BY <1>4, <3>1
  <2> QED
    BY <1>3, <2>1 DEF Follower
<1>6. IsWalk(f)
  <2>1. ASSUME NEW r \in D
        PROVE  f[r] = {r} \cup f[m.recs[r].next]
    <3>1. PICK i \in 1 .. n : ks[i] = r
      BY <1>4
    <3>2. PICK q : q = Follower(ks, i)
      OBVIOUS
    <3>3. m.recs[r].next = q /\ q \in D \cup {None} /\ r # None
      BY <1>4, <1>5, <3>1, <3>2
    <3>4. \A x : Reaches(ks, r, x) <=> x = r \/ Reaches(ks, q, x)
      BY <1>2, <1>3, <3>1, <3>2, ReachesOn
    <3>5. \A x : ~Reaches(ks, None, x)
      BY <1>2, ReachedKeys
    <3>6. f[r] = {x \in D : Reaches(ks, r, x)} /\ f[q] = {x \in D : Reaches(ks, q, x)}
      BY <3>3, <3>5
    <3> QED
      BY <3>3, <3>4, <3>6
  <2>2. f[None] = {}
    OBVIOUS
  <2> QED
    BY <1>2, <2>1, <2>2
<1>7. ASSUME NEW w, IsWalk(w)
      PROVE  w = f
  <2>1. \A x \in D \cup {None} : w[x] = IF x = None THEN {} ELSE {x} \cup w[m.recs[x].next]
    BY <1>2, <1>7
  <2>2. \A x \in D \cup {None} : f[x] = IF x = None THEN {} ELSE {x} \cup f[m.recs[x].next]
    BY <1>2, <1>6
  <2>3. w = [x \in D \cup {None} |-> w[x]] /\ f = [x \in D \cup {None} |-> f[x]]
    BY <1>2, <1>7
  <2> HIDE DEF f
  <2>4. PICK P : P = {j \in 0 .. n : j = 0 \/ w[ks[n + 1 - j]] = f[ks[n + 1 - j]]}
    OBVIOUS
  <2>5. w[None] = f[None]
    BY <2>1, <2>2
  <2>6. ASSUME NEW i \in 1 .. n, i - 1 \in P
        PROVE  i \in P
    <3>1. PICK j : j = n + 1 - i
      OBVIOUS
    <3>2. j \in 1 .. n /\ ks[j] \in D /\ ks[j] # None
      BY <1>4, <3>1
    <3>3. w[m.recs[ks[j]].next] = f[m.recs[ks[j]].next]
      <4>1. CASE j = n
        <5>1. m.recs[ks[j]].next = None
          BY <1>3, <1>4, <3>2, <4>1 DEF Follower
        <5> QED
          BY <2>5, <5>1
      <4>2. CASE j # n
        <5>1. n + 1 - (i - 1) = j + 1 /\ i - 1 # 0
          BY <1>4, <3>1, <4>2
        <5>2. w[ks[j + 1]] = f[ks[j + 1]]
          BY <2>4, <2>6, <5>1
        <5>3. m.recs[ks[j]].next = ks[j + 1]
          BY <1>3, <1>4, <3>2, <4>2 DEF Follower
        <5> QED
          BY <5>2, <5>3
      <4> QED
        BY <4>1, <4>2
    <3>4. w[ks[j]] = f[ks[j]]
      <4>1. PICK y \in D : y = ks[j] /\ y # None
        BY <3>2
      <4>2. w[y] = {y} \cup w[m.recs[y].next] /\ f[y] = {y} \cup f[m.recs[y].next]
        BY <2>1, <2>2, <4>1
      <4>3. w[m.recs[y].next] = f[m.recs[y].next]
        BY <3>3, <4>1
      <4> QED
        BY <4>1, <4>2, <4>3
    <3>5. w[ks[n + 1 - i]] = f[ks[n + 1 - i]]
      BY <3>1, <3>4
    <3>6. i \in 0 .. n
      BY <1>4
    <3> QED
      BY <2>4, <3>5, <3>6
  <2>7. \A j \in 0 .. n : j \in P
    <3>1. 0 \in P
      BY <1>4, <2>4
    <3> QED
      BY <1>4, <2>6, <3>1, Reached
  <2>8. \A x \in D : w[x] = f[x]
    <3>1. ASSUME NEW x \in D
          PROVE  w[x] = f[x]
      <4>1. PICK i \in 1 .. n : ks[i] = x
        BY <1>4
      <4>2. n + 1 - i \in 0 .. n /\ n + 1 - i # 0 /\ n + 1 - (n + 1 - i) = i
        BY <1>4
      <4> QED
        BY <2>4, <2>7, <4>1, <4>2
    <3> QED
      BY <3>1
  <2> QED
    BY <2>3, <2>5, <2>8
<1>8. Ahead(m) = f[m.cur]
  <2>1. (CHOOSE w : IsWalk(w)) = f
    BY <1>6, <1>7
  <2> HIDE DEF IsWalk, f
  <2>2. Ahead(m) = (CHOOSE w : IsWalk(w))[m.cur]
    BY DEF Ahead, IsWalk
  <2> QED
    BY <2>1, <2>2
<1>9. \A x : ~Reaches(ks, None, x)
  BY <1>2, ReachedKeys
<1>10. f[c] = {x \in D : Reaches(ks, c, x)}
  BY <1>2, <1>9 DEF Ptr
<1> QED
  BY <1>2, <1>8, <1>10

\* Thread t has kept the place of the iterator of map i aside.
Aside(t, i) == pc[t].at = "restore" /\ pc[t].i = i

\* The iteration over map i, from the place kept aside if there is one, will
\* come to x.
Owes(i, x) ==
  /\ \A t \in Threads : Aside(t, i) => Reaches(Order(maps[i]), pc[t].x, x)
  /\ (\A t \in Threads : ~Aside(t, i)) => Returns(maps[i], x)

\* What the iteration will return yet of what was stored all along: all but the
\* keys it was taken past.
Owed == due \ passed

\* What is owed is ahead: in the map the iteration is at, or in a later one.
DueOK == \A x \in Owed : \E i \in Maps : iter <= i /\ Owes(i, x)

\* tcmdbiterinit puts the iterator on what is still the first record, a map is
\* left behind while its iterator is at its end, and the iteration says that
\* it is at its end when nothing is owed.
IteratorOK(t) ==
  /\ pc[t].at = "cur" => pc[t].x = maps[pc[t].i].first
  /\ pc[t].at = "skip" => mmtx[pc[t].i].w = t /\ maps[pc[t].i].cur = None
  /\ pc[t].at \in {"scan", "scanned"} => InCall(t, {"fwmkeys"})
  /\ pc[t].at = "done" /\ InCall(t, {"iternext"}) /\ pc[t].x = None => Owed = {}

IterationOK == DueOK /\ \A t \in Threads : IteratorOK(t)

\* A map whose iterator is in place owes what the iterator returns.
LEMMA OwesInPlace ==
  ASSUME NEW i, \A t \in Threads : ~Aside(t, i), NEW x
  PROVE  Owes(i, x) <=> Returns(maps[i], x)
BY DEF Owes

\* Who changes a record, or the place of an iterator under its lock, finds the
\* iterator in place.
LEMMA InPlace ==
  ASSUME Inv, NEW t \in Threads, NEW i \in Maps, WrLock(t, i)
  PROVE  \A u \in Threads : pc[u].at # "restore"
BY VisitorShutsOut

\* Who visits the maps or puts their iterators back is alone.
LEMMA OneVisits ==
  ASSUME Inv, NEW t \in Threads, NEW u \in Threads,
         pc[t].at \in {"visit", "restore"}, pc[u].at \in {"visit", "restore"}
  PROVE  t = u
BY MapIndices DEF Inv, ThreadOK, VisitorOK

\* A step that leaves a map alone, or lets a map in place return what it did,
\* keeps what is owed.
LEMMA OwesStays ==
  ASSUME NEW t \in Threads, \A u \in Threads : u # t => pc'[u] = pc[u],
         pc[t].at # "restore", pc'[t].at # "restore", NEW i, NEW x, Owes(i, x),
         \/ maps'[i] = maps[i]
         \/ (\A u \in Threads : ~Aside(u, i)) /\ (Returns(maps[i], x) => Returns(maps'[i], x))
  PROVE  Owes(i, x)'
<1>1. \A u \in Threads : Aside(u, i)' <=> Aside(u, i)
  BY DEF Aside
<1>2. \A u \in Threads : Aside(u, i) => pc'[u].x = pc[u].x
  BY DEF Aside
<1>3. CASE maps'[i] = maps[i]
  BY <1>1, <1>2, <1>3 DEF Owes
<1>4. CASE (\A u \in Threads : ~Aside(u, i)) /\ (Returns(maps[i], x) => Returns(maps'[i], x))
  BY <1>1, <1>4 DEF Owes
<1> QED
  BY <1>3, <1>4

\* Nothing becomes due by a step that does not begin an iteration.
LEMMA DueStays ==
  ASSUME DueOK, Owed' \subseteq Owed, iter' = iter,
         \A x \in Owed', i \in Maps : Owes(i, x) => Owes(i, x)'
  PROVE  DueOK'
BY DEF DueOK

\* A step of t, by which t stays right, keeps the other threads right if t has
\* the mutex, or if it leaves the maps they are at alone.
LEMMA IteratorStep ==
  ASSUME Inv, NEW t \in Threads, \A u \in Threads : IteratorOK(u), IteratorOK(t)',
         \A u \in Threads : u # t => pc'[u] = pc[u],
         \/ imtx = t
         \/ /\ Owed' \subseteq Owed
            /\ \A u \in Threads : u # t /\ pc[u].at = "cur" =>
                 maps'[pc[u].i].first = maps[pc[u].i].first
            /\ \A u \in Threads : u # t /\ pc[u].at = "skip" =>
                 /\ mmtx[pc[u].i].w = u => mmtx'[pc[u].i].w = u
                 /\ maps'[pc[u].i].cur = maps[pc[u].i].cur
  PROVE  \A u \in Threads : IteratorOK(u)'
<1> SUFFICES ASSUME NEW u \in Threads, u # t PROVE IteratorOK(u)'
  OBVIOUS
<1>1. IteratorOK(u) /\ pc'[u] = pc[u] /\ (pc[u].at \in Owning => imtx = u)
  BY DEF Inv, ThreadOK, MutexOK
<1>2. CASE imtx = t
  <2>1. pc'[u].at \notin {"cur", "skip", "scan", "scanned", "done"}
    BY <1>1, <1>2 DEF Owning
  <2> QED
    BY <2>1 DEF IteratorOK
<1>3. CASE imtx # t
  <2>1. /\ Owed' \subseteq Owed
        /\ pc[u].at = "cur" => maps'[pc[u].i].first = maps[pc[u].i].first
        /\ pc[u].at = "skip" => /\ mmtx[pc[u].i].w = u => mmtx'[pc[u].i].w = u
                                /\ maps'[pc[u].i].cur = maps[pc[u].i].cur
    BY <1>3
  <2>2. InCall(u, {"iternext"})' <=> InCall(u, {"iternext"})
    BY <1>1 DEF InCall
  <2>3. InCall(u, {"fwmkeys"})' <=> InCall(u, {"fwmkeys"})
    BY <1>1 DEF InCall
  <2> QED
    BY <1>1, <2>1, <2>2, <2>3 DEF IteratorOK
<1> QED
  BY <1>2, <1>3

\* Nothing is due at first.
LEMMA IterationInit == Init => IterationOK
BY DEF Owed, Init, Idle, IterationOK, DueOK, IteratorOK

---------------------------------------------------------------------------
(* Steps that change records *)

\* What a call on one key leaves due of its map is still returned.
LEMMA BodyReturns ==
  ASSUME NEW m, Intact(m), NEW c, c[1] \in Writes, c[2] \in Keys, NEW x, Returns(m, x),
         IF c[1] \in {"put3", "putcat3", "get3"} /\ c[2] = m.cur THEN x = c[2]
         ELSE x \in DOMAIN Body(m, c).recs
  PROVE  Returns(Body(m, c), x)
<1>1. PICK k \in Keys : k = c[2]
  OBVIOUS
<1>2. \A v : /\ Returns(MapPut(m, k, v), x) /\ Returns(MapPutKeep(m, k, v), x)
             /\ Returns(MapPutCat(m, k, v), x) /\ Returns(MapAddInt(m, k, v), x)
  BY StoreReturns, ChangeReturns
<1>3. CASE c[1] \in {"put3", "putcat3", "get3"}
  <2>1. k # m.cur \/ x = k
    BY <1>1, <1>3
  <2>2. \A v : Returns(MapPut3(m, k, v), x) /\ Returns(MapPutCat3(m, k, v), x)
    BY <2>1, StoreReturns
  <2>3. Returns(MapGet3(m, k), x)
    BY <2>1, ChangeReturns
  <2> QED
    BY <1>1, <1>3, <2>2, <2>3 DEF Body
<1>4. CASE c[1] \in {"put", "putkeep", "putcat", "put4", "addint"}
  <2>1. \A v, w : Returns(MapPut4(m, k, v, w), x)
    BY <1>2 DEF MapPut4
  <2> QED
    BY <1>1, <1>2, <1>4, <2>1 DEF Body
<1>5. CASE c[1] \in {"putproc", "out"}
  <2>1. x \in DOMAIN Body(m, c).recs
    BY <1>5
  <2>2. \A v, w : x \in DOMAIN MapPutProc(m, k, v, w).recs => Returns(MapPutProc(m, k, v, w), x)
    BY ChangeReturns
  <2>3. x \in DOMAIN MapOut(m, k).recs => Returns(MapOut(m, k), x)
    BY ChangeReturns
  <2> QED
    BY <1>1, <1>5, <2>1, <2>2, <2>3 DEF Body
<1> QED
  BY <1>3, <1>4, <1>5 DEF Writes

\* So is what a sweep leaves.
LEMMA SweptReturns ==
  ASSUME NEW m, Intact(m), NEW c, c[1] \in Sweeps, c[1] = "cutfront" => c[2] \in Nat,
         NEW x \in DOMAIN Swept(m, c).recs
  PROVE  Returns(Swept(m, c), x)
<1>1. CASE c[1] = "vanish"
  BY <1>1 DEF Swept, MapClear, NewMap
<1>2. CASE c[1] = "cutfront"
  <2>1. PICK num : num = c[2] \div MNum + 1
    OBVIOUS
  <2>2. num \in Nat
    BY <1>2, <2>1, MemDBAssumption
  <2>3. Swept(m, c) = MapCutFront(m, num)
    BY <1>2, <2>1 DEF Swept
  <2> QED
    BY <2>2, <2>3, CutReturns
<1> QED
  BY <1>1, <1>2 DEF Sweeps

\* A thread that changes the records of map i under its lock, so that what is
\* still due of it is still returned, keeps the iteration right.
LEMMA ChangeKeeps ==
  ASSUME Inv, MapsOK, IterationOK, NEW t \in Threads, NEW i \in Maps, InCall(t, Changes),
         WrLock(t, i), NEW n, maps' = [maps EXCEPT ![i] = n], iter' = iter,
         Owed' \subseteq Owed,
         \A x \in Owed' : Returns(maps[i], x) => Returns(n, x),
         \A u \in Threads : u # t => pc'[u] = pc[u],
         pc'[t].at \in {"unlock", "swept"}
  PROVE  IterationOK'
<1>1. DOMAIN maps = Maps /\ \A u \in Threads : pc[u].i \in Maps
  BY DEF Inv, Shapes, ThreadOK, CallOK
<1>2. \A u \in Threads : pc[u].at \notin {"cur", "restore"}
  BY NoPointer
<1>3. DueOK'
  <2>1. ASSUME NEW x \in Owed', NEW j \in Maps, Owes(j, x)
        PROVE  Owes(j, x)'
    <3>1. \A u \in Threads : ~Aside(u, j)
      BY <1>2 DEF Aside
    <3>2. maps'[j] = maps[j] \/ (Returns(maps[j], x) => Returns(maps'[j], x))
      BY <1>1
    <3> QED
      BY <1>2, <2>1, <3>1, <3>2, OwesStays
  <2> QED
    BY <2>1, DueStays DEF IterationOK
<1>4. \A u \in Threads : IteratorOK(u)'
  <2>1. IteratorOK(t)'
    BY DEF IteratorOK
  <2>2. ASSUME NEW u \in Threads, u # t, pc[u].at = "skip"
        PROVE  /\ mmtx[pc[u].i].w = u => mmtx'[pc[u].i].w = u
               /\ maps'[pc[u].i].cur = maps[pc[u].i].cur
    <3>1. mmtx[pc[u].i].w = u
      BY <2>2 DEF IterationOK, IteratorOK
    <3>2. pc[u].i # i
      BY <3>1, WrLocked, MemDBAssumption
    <3> QED
      BY <1>1, <2>2, <3>2, LocksKept
  <2> QED
    BY <1>2, <2>1, <2>2, IteratorStep DEF IterationOK
<1> QED
  BY <1>3, <1>4 DEF IterationOK

\* A call on one key.
LEMMA IterationKey ==
  ASSUME Inv, MapsOK, IterationOK, NEW t \in Threads, OnKey(t), InCall(t, Writes)
  PROVE  IterationOK'
<1>1. PICK i \in Maps : i = pc[t].i
  BY DEF Inv, ThreadOK, CallOK
<1>2. PICK c, n : c = pc[t].call /\ n = Body(maps[i], c)
  OBVIOUS
<1>3. /\ pc[t].at = "key" /\ Goto(t, "unlock") /\ iter' = iter
      /\ WrLock(t, i) /\ Becomes(i, n, c)
  <2>1. ~InCall(t, Reads)
    BY DEF InCall, Reads, Writes
  <2> QED
    BY <1>1, <1>2, <2>1 DEF OnKey, Becomes, Is
<1>4. c[1] \in Writes /\ c[2] \in Keys /\ Intact(maps[i]) /\ InCall(t, Changes)
  BY <1>2, <1>3, MemDBAssumption DEF Inv, ThreadOK, CallOK, InCall, MapsOK, Changes
<1>5. ASSUME NEW x \in Owed', Returns(maps[i], x)
      PROVE  Returns(n, x)
  <2>1. x \in KeysOf(i)
    BY <1>4, <1>5, ReturnsIs DEF Intact, KeysOf
  <2>2. x \in DOMAIN n.recs /\ x \notin Carried(i, c)
    BY <1>3, <1>5, <2>1 DEF Becomes, Owed
  <2>3. x \in Ahead(maps[i])
    BY <1>4, <1>5, <2>1, AheadIs DEF KeysOf
  <2>4. IF c[1] \in {"put3", "putcat3", "get3"} /\ c[2] = maps[i].cur THEN x = c[2]
        ELSE x \in DOMAIN n.recs
    BY <2>2, <2>3 DEF Carried
  <2> QED
    BY <1>2, <1>4, <1>5, <2>4, BodyReturns
<1>6. Owed' \subseteq Owed
  BY <1>3 DEF Becomes, Owed
<1>7. pc'[t].at = "unlock" /\ \A u \in Threads : u # t => pc'[u] = pc[u]
  BY <1>3, GotoMoves
<1> QED
  BY <1>3, <1>4, <1>5, <1>6, <1>7, ChangeKeeps DEF Becomes

\* A map is cleared, or loses its front records.
LEMMA IterationSweep ==
  ASSUME Inv, MapsOK, IterationOK, NEW t \in Threads, Sweep(t)
  PROVE  IterationOK'
<1>1. PICK i \in Maps : i = pc[t].i
  BY DEF Inv, ThreadOK, CallOK
<1>2. PICK c, n : c = pc[t].call /\ n = Swept(maps[i], c)
  OBVIOUS
<1>3. /\ pc[t].at = "sweep" /\ Goto(t, "swept") /\ iter' = iter
      /\ WrLock(t, i) /\ Becomes(i, n, c)
  BY <1>1, <1>2 DEF Sweep, Becomes, Is
<1>4. InCall(t, Sweeps) /\ InCall(t, Changes) /\ c[1] \in Sweeps /\ Intact(maps[i])
  BY <1>2, <1>3 DEF MapsOK, AboutOK, InCall, Changes
<1>5. c[1] = "cutfront" => c[2] \in Nat
  BY <1>2, <1>3, MemDBAssumption DEF Inv, ThreadOK, CallOK
<1>6. ASSUME NEW x \in Owed', Returns(maps[i], x)
      PROVE  Returns(n, x)
  <2>1. x \in KeysOf(i)
    BY <1>4, <1>6, ReturnsIs DEF Intact, KeysOf
  <2>2. x \in DOMAIN n.recs
    BY <1>3, <1>6, <2>1 DEF Becomes, Owed
  <2> QED
    BY <1>2, <1>4, <1>5, <2>2, SweptReturns
<1>7. Owed' \subseteq Owed
  BY <1>3 DEF Becomes, Owed
<1>8. pc'[t].at = "swept" /\ \A u \in Threads : u # t => pc'[u] = pc[u]
  BY <1>3, GotoMoves
<1> QED
  BY <1>3, <1>4, <1>6, <1>7, <1>8, ChangeKeeps DEF Becomes

\* tcmdbforeach keeps the place of an iterator aside, and puts it back.
LEMMA IterationVisit ==
  ASSUME Inv, MapsOK, IterationOK, NEW t \in Threads, Visit(t) \/ Restore(t)
  PROVE  IterationOK'
<1>1. PICK i \in Maps : i = pc[t].i
  BY DEF Inv, ThreadOK, CallOK
<1>2. /\ CallOK(t) /\ DOMAIN maps = Maps /\ DOMAIN pc = Threads /\ Intact(maps[i])
      /\ PointerOK(t) /\ pc[t].at \in {"visit", "restore"}
      /\ UNCHANGED history /\ iter' = iter /\ mmtx' = mmtx
  BY DEF Inv, ThreadOK, Shapes, MapsOK, Visit, Restore, Is
<1>3. PICK d : d = IF pc[t].at = "visit" THEN None ELSE pc[t].x
  OBVIOUS
<1>4. d \in Ptr(DOMAIN maps[i].recs)
  BY <1>1, <1>2, <1>3 DEF PointerOK, KeysOf, Ptr
<1>5. PICK n : n = [maps[i] EXCEPT !.cur = d]
  OBVIOUS
<1>6. /\ Order(n) = Order(maps[i]) /\ n.first = maps[i].first
      /\ \A x : Returns(n, x) <=> Reaches(Order(maps[i]), d, x)
  BY <1>2, <1>4, <1>5, PutOnReturns
<1>7. maps' = [maps EXCEPT ![i] = n]
  BY <1>1, <1>3, <1>5 DEF Visit, Restore, Is
<1>8. /\ \A u \in Threads : u # t => pc'[u] = pc[u]
      /\ pc[t].at = "visit" => /\ pc'[t].at = "restore" /\ pc'[t].i = i
                               /\ pc'[t].x = maps[i].cur
      /\ pc[t].at = "restore" => pc'[t].at \in {"visit", "release"}
  <2>1. CASE Visit(t)
    <3>1. pc' = [pc EXCEPT ![t].at = "restore", ![t].x = maps[i].cur]
      BY <1>1, <2>1 DEF Visit
    <3> QED
      BY <1>1, <1>2, <2>1, <3>1 DEF CallOK, Visit, Is
  <2>2. CASE Restore(t)
    <3>1. GotoMap(t, "visit", i + 1) \/ GotoMap(t, "release", MNum - 1)
      BY <1>1, <2>2 DEF Restore
    <3> QED
      BY <2>2, <3>1, GotoMapMoves DEF Restore, Is
  <2> QED
    BY <2>1, <2>2
<1>9. \A u \in Threads : u # t => pc[u].at # "restore" /\ pc'[u].at # "restore"
  BY <1>2, <1>8, OneVisits
<1>10. DueOK'
  <2>1. ASSUME NEW x \in Owed', NEW j \in Maps, Owes(j, x)
        PROVE  Owes(j, x)'
    <3>1. CASE pc[t].at = "visit"
      <4>1. \A u \in Threads : ~Aside(u, j)
        BY <1>9, <3>1 DEF Aside
      <4>2. Returns(maps[j], x)
        BY <2>1, <4>1, OwesInPlace
      <4>3. \A u \in Threads : Aside(u, j)' <=> u = t /\ j = i
        BY <1>8, <1>9, <3>1 DEF Aside
      <4>4. CASE j = i
        <5>1. Order(maps'[j]) = Order(maps[j]) /\ pc'[t].x = maps[j].cur
          BY <1>2, <1>6, <1>7, <1>8, <3>1, <4>4
        <5>2. Reaches(Order(maps'[j]), pc'[t].x, x)
          BY <4>2, <5>1 DEF Returns
        <5> QED
          BY <4>3, <4>4, <5>2 DEF Owes
      <4>5. CASE j # i
        <5>1. maps'[j] = maps[j]
          BY <1>2, <1>7, <4>5
        <5> QED
          BY <4>2, <4>3, <4>5, <5>1 DEF Owes
      <4> QED
        BY <4>4, <4>5
    <3>2. CASE pc[t].at = "restore"
      <4>1. \A u \in Threads : ~Aside(u, j)'
        BY <1>8, <1>9, <3>2 DEF Aside
      <4>2. Returns(maps'[j], x)
        <5>1. CASE j = i
          <6>1. Aside(t, j)
            BY <1>1, <3>2, <5>1 DEF Aside
          <6>2. Reaches(Order(maps[i]), d, x)
            BY <1>3, <2>1, <3>2, <5>1, <6>1 DEF Owes
          <6> QED
            BY <1>2, <1>6, <1>7, <5>1, <6>2
        <5>2. CASE j # i
          <6>1. \A u \in Threads : ~Aside(u, j)
            BY <1>1, <1>9, <5>2 DEF Aside
          <6> QED
            BY <1>2, <1>7, <2>1, <5>2, <6>1, OwesInPlace
        <5> QED
          BY <5>1, <5>2
      <4> QED
        BY <4>1, <4>2 DEF Owes
    <3> QED
      BY <1>2, <3>1, <3>2
  <2> QED
    BY <1>2, <2>1, DueStays DEF Owed, IterationOK
<1>11. \A u \in Threads : IteratorOK(u)'
  <2>1. IteratorOK(t)'
    BY <1>2, <1>8 DEF IteratorOK
  <2>2. \A j \in Maps : maps'[j].first = maps[j].first
    BY <1>2, <1>6, <1>7
  <2>3. ASSUME NEW u \in Threads, u # t, pc[u].at = "skip"
        PROVE  maps'[pc[u].i].cur = maps[pc[u].i].cur
    <3>1. mmtx[pc[u].i].w = u
      BY <2>3 DEF IterationOK, IteratorOK
    <3>2. mmtx[i].w = t
      BY <1>2 DEF Inv, ThreadOK, VisitorOK
    <3> QED
      BY <1>2, <1>7, <2>3, <3>1, <3>2
  <2>4. \A u \in Threads : pc[u].i \in Maps
    BY DEF Inv, ThreadOK, CallOK
  <2> QED
    BY <1>2, <1>8, <2>1, <2>2, <2>3, <2>4, IteratorStep DEF Owed, IterationOK
<1> QED
  BY <1>10, <1>11 DEF IterationOK

\* tcmdbiterinit puts each iterator on the first record; with the last of them
\* begins another iteration, to which all that is ahead is due.
LEMMA IterationInits ==
  ASSUME Inv, MapsOK, MapsOK', IterationOK, NEW t \in Threads, WriteCur(t) \/ Begin(t)
  PROVE  IterationOK'
<1>1. PICK i \in Maps : i = pc[t].i
  BY DEF Inv, ThreadOK, CallOK
<1>2. /\ CallOK(t) /\ DOMAIN maps = Maps /\ DOMAIN pc = Threads /\ Intact(maps[i])
      /\ AboutOK(t) /\ PointerOK(t) /\ pc[t].at \in {"cur", "begin"} /\ IteratorOK(t)
  BY DEF Inv, ThreadOK, Shapes, MapsOK, WriteCur, Begin, Is, IterationOK
<1>3. imtx = t /\ InCall(t, Starts)
  BY <1>2 DEF Inv, ThreadOK, MutexOK, Owning, AboutOK
<1>4. \A u \in Threads : pc[u].at # "restore"
  BY <1>3 DEF MapsOK, AboutOK, ApartOK, InCall, Changes
<1>5. CASE WriteCur(t)
  <2>1. /\ pc[t].at = "cur" /\ maps' = [maps EXCEPT ![i].cur = pc[t].x]
        /\ UNCHANGED history /\ iter' = iter
        /\ Goto(t, "begin") \/ GotoMap(t, "first", i + 1)
    BY <1>1, <1>5 DEF WriteCur, Is
  <2>2. PICK d : d = pc[t].x
    OBVIOUS
  <2>3. d = maps[i].first /\ d \in Ptr(DOMAIN maps[i].recs)
    BY <1>1, <1>2, <2>1, <2>2 DEF IteratorOK, PointerOK, KeysOf
  <2>4. PICK n : n = [maps[i] EXCEPT !.cur = d]
    OBVIOUS
  <2>5. maps' = [maps EXCEPT ![i] = n]
    BY <2>1, <2>2, <2>4
  <2>6. \A x : Returns(maps[i], x) => Returns(n, x)
    <3>1. \A x \in DOMAIN maps[i].recs : Returns(n, x)
      BY <1>2, <2>3, <2>4, PutOnReturns
    <3>2. \A x : Returns(maps[i], x) => x \in DOMAIN maps[i].recs
      BY <1>2, ReturnsIs DEF Intact
    <3> QED
      BY <3>1, <3>2
  <2>7. /\ pc'[t].at \in {"begin", "first"}
        /\ \A u \in Threads : u # t => pc'[u] = pc[u]
    BY <2>1, GotoMoves, GotoMapMoves
  <2>8. ASSUME NEW x \in Owed', NEW j \in Maps, Owes(j, x)
        PROVE  Owes(j, x)'
    <3>1. \A u \in Threads : ~Aside(u, j)
      BY <1>4 DEF Aside
    <3>2. Returns(maps[j], x) => Returns(maps'[j], x)
      BY <1>2, <2>5, <2>6
    <3> QED
      BY <1>4, <2>7, <2>8, <3>1, <3>2, OwesStays
  <2>9. DueOK'
    BY <2>1, <2>8, DueStays DEF Owed, IterationOK
  <2>10. IteratorOK(t)'
    BY <2>7 DEF IteratorOK
  <2> QED
    BY <1>3, <2>7, <2>9, <2>10, IteratorStep DEF IterationOK
<1>6. CASE Begin(t)
  <2>1. /\ pc[t].at = "begin" /\ Goto(t, "done")
        /\ due' = UNION {Ahead(maps'[j]) : j \in iter' .. MNum - 1}
    BY <1>6 DEF Begin, Is
  <2>2. /\ pc'[t].at = "done" /\ pc'[t].call = pc[t].call
        /\ \A u \in Threads : u # t => pc'[u] = pc[u]
    BY <2>1, GotoMoves
  <2>3. iter' \in Maps
    <3>1. CASE InCall(t, {"iterinit2"})
      <4>1. pc[t].call[2] \in Keys
        BY <1>2, <2>1, <3>1, MemDBAssumption DEF CallOK, InCall
      <4> QED
        BY <1>6, <3>1, <4>1, MemDBAssumption DEF Begin
    <3>2. CASE ~InCall(t, {"iterinit2"})
      BY <1>6, <3>2, MapIndices DEF Begin
    <3> QED
      BY <3>1, <3>2
  <2>4. ASSUME NEW x \in Owed'
        PROVE  \E j \in Maps : iter' <= j /\ Owes(j, x)'
    <3>1. PICK j \in iter' .. MNum - 1 : x \in Ahead(maps'[j])
      BY <2>1 DEF Owed
    <3>2. j \in Maps /\ iter' <= j
      BY <2>3, MemDBAssumption DEF Maps
    <3>3. Returns(maps'[j], x)
      <4>1. Intact(maps'[j])
        BY <3>2 DEF MapsOK
      <4> QED
        BY <3>1, <4>1, AheadIs
    <3>4. \A u \in Threads : ~Aside(u, j)'
      BY <1>4, <2>2 DEF Aside
    <3> QED
      BY <3>2, <3>3, <3>4 DEF Owes
  <2>5. DueOK'
    BY <2>4 DEF DueOK
  <2>6. IteratorOK(t)'
    BY <1>3, <2>2 DEF IteratorOK, InCall, Starts
  <2> QED
    BY <1>3, <2>2, <2>5, <2>6, IteratorStep DEF IterationOK
<1> QED
  BY <1>5, <1>6

\* tcmdbiternext returns what the iterator is on, and says at the end of the
\* last map that there is no more; it leaves a map behind at its end.
LEMMA IterationNext ==
  ASSUME Inv, MapsOK, IterationOK, NEW t \in Threads, Next1(t) \/ Skip(t)
  PROVE  IterationOK'
<1>1. PICK i \in Maps : i = pc[t].i
  BY DEF Inv, ThreadOK, CallOK
<1>2. /\ CallOK(t) /\ DOMAIN maps = Maps /\ DOMAIN pc = Threads /\ Intact(maps[i])
      /\ pc[t].at \in {"next", "skip"} /\ IteratorOK(t)
  BY DEF Inv, ThreadOK, Shapes, MapsOK, Next1, Skip, Is, IterationOK
<1>3. imtx = t /\ iter = i
  BY <1>1, <1>2 DEF Inv, ThreadOK, MutexOK, Owning
<1>4. \A x : Returns(maps[i], x) => maps[i].cur # None
  BY <1>2, NextReturns
<1>5. CASE Next1(t)
  <2>1. PICK p : p = IF maps[i].cur = None /\ i < MNum - 1 THEN "skip" ELSE "done"
    OBVIOUS
  <2>2. PICK n : n = MapIterNext(maps[i])
    OBVIOUS
  <2>3. /\ maps' = [maps EXCEPT ![i] = n] /\ WrLock(t, i) /\ pc[t].at = "next"
        /\ pc' = [pc EXCEPT ![t].at = p, ![t].x = maps[i].cur]
        /\ due' = due \ {maps[i].cur} /\ passed' = passed /\ iter' = iter
    BY <1>1, <1>5, <2>1, <2>2 DEF Next1, Is
  <2>4. /\ pc'[t].at = p /\ pc'[t].x = maps[i].cur /\ pc'[t].i = i
        /\ \A u \in Threads : u # t => pc'[u] = pc[u]
    BY <1>1, <1>2, <2>3 DEF CallOK
  <2>5. p \in {"skip", "done"}
    BY <2>1
  <2>6. \A u \in Threads : pc[u].at # "restore"
    BY <2>3, InPlace
  <2>7. ASSUME NEW x \in Owed', NEW j \in Maps, Owes(j, x)
        PROVE  Owes(j, x)'
    <3>1. \A u \in Threads : ~Aside(u, j)
      BY <2>6 DEF Aside
    <3>2. maps'[j] = maps[j] \/ (Returns(maps[j], x) => Returns(maps'[j], x))
      <4>1. CASE j = i
        <5>1. x # maps[i].cur
          BY <2>3 DEF Owed
        <5> QED
          BY <1>2, <2>2, <2>3, <4>1, <5>1, NextReturns
      <4>2. CASE j # i
        BY <1>2, <2>3, <4>2
      <4> QED
        BY <4>1, <4>2
    <3> QED
      BY <2>4, <2>5, <2>6, <2>7, <3>1, <3>2, OwesStays
  <2>8. DueOK'
    BY <2>3, <2>7, DueStays DEF Owed, IterationOK
  <2>9. IteratorOK(t)'
    <3>1. CASE p = "skip"
      <4>1. maps[i].cur = None
        BY <2>1, <3>1
      <4>2. maps'[i].cur = None
        BY <1>2, <2>2, <2>3, <4>1 DEF MapIterNext
      <4>3. mmtx'[i].w = t
        BY <2>3, WrLocked
      <4> QED
        BY <2>4, <3>1, <4>2, <4>3 DEF IteratorOK
    <3>2. CASE p = "done" /\ maps[i].cur # None
      BY <2>4, <3>2 DEF IteratorOK
    <3>3. CASE p = "done" /\ maps[i].cur = None
      <4>1. i = MNum - 1
        BY <2>1, <3>3, MapIndices
      <4>2. ASSUME NEW x \in Owed
            PROVE  FALSE
        <5>1. PICK j \in Maps : iter <= j /\ Owes(j, x)
          BY DEF IterationOK, DueOK
        <5>2. j = i
          BY <1>3, <4>1, <5>1, MemDBAssumption DEF Maps
        <5>3. Returns(maps[i], x)
          BY <2>6, <5>1, <5>2, OwesInPlace DEF Aside
        <5> QED
          BY <1>4, <3>3, <5>3
      <4>3. Owed' = {}
        BY <2>3, <4>2 DEF Owed
      <4> QED
        BY <2>4, <3>3, <4>3 DEF IteratorOK
    <3> QED
      BY <2>5, <3>1, <3>2, <3>3
  <2> QED
    BY <1>3, <2>4, <2>8, <2>9, IteratorStep DEF IterationOK
<1>6. CASE Skip(t)
  <2>1. PICK l : l = iter + 1
    OBVIOUS
  <2>2. /\ pc[t].at = "skip" /\ maps' = maps /\ UNCHANGED history /\ iter' = l
        /\ GotoMap(t, "next", l)
    BY <1>6, <2>1 DEF Skip, Is
  <2>3. pc'[t].at = "next" /\ \A u \in Threads : u # t => pc'[u] = pc[u]
    BY <2>2, GotoMapMoves
  <2>4. mmtx[i].w = t /\ maps[i].cur = None
    BY <1>1, <1>2, <2>2 DEF IteratorOK
  <2>5. ASSUME NEW x \in Owed'
        PROVE  \E j \in Maps : iter' <= j /\ Owes(j, x)'
    <3>1. PICK j \in Maps : iter <= j /\ Owes(j, x)
      BY <2>2 DEF Owed, IterationOK, DueOK
    <3>2. j # i
      <4>1. SUFFICES ASSUME j = i PROVE FALSE
        OBVIOUS
      <4>2. \A u \in Threads : ~Aside(u, i)
        BY <1>2, <2>2, <2>4 DEF Aside, Inv, ThreadOK, VisitorOK
      <4>3. Returns(maps[i], x)
        BY <3>1, <4>1, <4>2, OwesInPlace
      <4> QED
        BY <1>4, <2>4, <4>3
    <3>3. iter' <= j
      BY <1>3, <2>1, <2>2, <3>1, <3>2, MapIndices
    <3>4. Owes(j, x)'
      BY <2>2, <2>3, <3>1, OwesStays
    <3> QED
      BY <3>3, <3>4
  <2>6. DueOK'
    BY <2>5 DEF DueOK
  <2>7. IteratorOK(t)'
    BY <2>3 DEF IteratorOK
  <2> QED
    BY <1>3, <2>3, <2>6, <2>7, IteratorStep DEF IterationOK
<1> QED
  BY <1>5, <1>6

---------------------------------------------------------------------------
(* Steps that leave the maps alone *)

\* What is due stays, and so do the other threads.
LEMMA IterationStays ==
  ASSUME Inv, IterationOK, NEW t \in Threads, maps' = maps, UNCHANGED history, iter' = iter,
         \A u \in Threads : u # t => pc'[u] = pc[u],
         pc[t].at # "restore", pc'[t].at # "restore", IteratorOK(t)',
         \A u \in Threads : u # t => \A j \in Maps : mmtx[j].w = u => mmtx'[j].w = u
  PROVE  IterationOK'
<1>1. DueOK'
  BY OwesStays, DueStays DEF Owed, IterationOK
<1>2. \A u \in Threads : pc[u].i \in Maps
  BY DEF Inv, ThreadOK, CallOK
<1> QED
  BY <1>1, <1>2, IteratorStep DEF Owed, IterationOK

\* A step by which t takes or gives back a lock, or none.
LEMMA IterationGoes ==
  ASSUME Inv, IterationOK, NEW t \in Threads, maps' = maps, UNCHANGED history, iter' = iter,
         NEW p, \/ Goto(t, p) \/ (\E i : GotoMap(t, p, i)) \/ Return(t),
         pc[t].at # "restore", p \notin {"restore", "cur", "skip"},
         p \in {"scan", "scanned"} => InCall(t, {"fwmkeys"}),
         p = "done" => ~InCall(t, {"iternext"}),
         \/ mmtx' = mmtx
         \/ \E i \in Maps : WrLock(t, i) \/ RdLock(t, i) \/ Unlock(t, i)
         \/ mmtx' = [i \in Maps |-> Without(mmtx[i], t)]
  PROVE  IterationOK'
<1>1. /\ \A u \in Threads : u # t => pc'[u] = pc[u]
      /\ \/ pc'[t].at = p /\ pc'[t].call = pc[t].call
         \/ pc'[t].at = "idle"
  <2>1. CASE Return(t)
    <3>1. pc'[t] = Idle
      BY <2>1 DEF Return, Inv, Shapes
    <3> QED
      BY <2>1, <3>1, ReturnMoves DEF Idle
  <2>2. CASE Goto(t, p) \/ \E i : GotoMap(t, p, i)
    BY <2>2, GotoMoves, GotoMapMoves
  <2> QED
    BY <2>1, <2>2
<1>2. IteratorOK(t)'
  BY <1>1 DEF IteratorOK, InCall
<1>3. \A u \in Threads : u # t => \A j \in Maps : mmtx[j].w = u => mmtx'[j].w = u
  <2>1. CASE mmtx' = [i \in Maps |-> Without(mmtx[i], t)]
    BY <2>1 DEF Without
  <2>2. CASE \E i \in Maps : WrLock(t, i) \/ RdLock(t, i) \/ Unlock(t, i)
    BY <2>2, LocksKept
  <2> QED
    BY <2>1, <2>2
<1>4. pc'[t].at # "restore"
  BY <1>1
<1> QED
  BY <1>1, <1>2, <1>3, <1>4, IterationStays

\* The calls about keys and those that go through the maps.
LEMMA IterationStay1 ==
  ASSUME Inv, MapsOK, IterationOK, NEW t \in Threads,
         \/ OnKey(t) /\ ~InCall(t, Writes)
         \/ Leave(t) \/ SweepNext(t) \/ Sum(t) \/ Collect(t) \/ Release(t)
  PROVE  IterationOK'
<1>1. pc[t].i \in Maps
  BY DEF Inv, ThreadOK, CallOK
<1>2. maps' = maps /\ UNCHANGED history /\ iter' = iter /\ pc[t].at # "restore"
  BY DEF OnKey, Becomes, Leave, SweepNext, Sum, Collect, Release, Is
<1>3. \/ mmtx' = mmtx
      \/ \E i \in Maps : WrLock(t, i) \/ RdLock(t, i) \/ Unlock(t, i)
  BY <1>1 DEF OnKey, Becomes, Leave, SweepNext, Sum, Collect, Release
<1>4. PICK p \in {"unlock", "sweep", "sum", "visit", "collect", "release"} :
        Goto(t, p) \/ (\E i : GotoMap(t, p, i)) \/ Return(t)
  <2>1. CASE OnKey(t)
    BY <2>1 DEF OnKey, Becomes
  <2>2. CASE Leave(t)
    BY <2>2 DEF Leave
  <2>3. CASE SweepNext(t)
    BY <2>3 DEF SweepNext
  <2>4. CASE Sum(t)
    BY <2>4 DEF Sum
  <2>5. CASE Collect(t)
    BY <2>5 DEF Collect
  <2>6. CASE Release(t)
    BY <2>6 DEF Release
  <2> QED
    BY <2>1, <2>2, <2>3, <2>4, <2>5, <2>6
<1> QED
  BY <1>2, <1>3, <1>4, IterationGoes

\* The calls about the iterator.
LEMMA IterationStay2 ==
  ASSUME Inv, MapsOK, IterationOK, NEW t \in Threads,
         \/ LockImtx(t) \/ Find(t) \/ ReadFirst(t) \/ Scan(t) \/ ScanNext(t) \/ Done(t)
  PROVE  IterationOK'
<1>1. pc[t].i \in Maps /\ CallOK(t) /\ IteratorOK(t)
  BY DEF Inv, ThreadOK, CallOK, IterationOK
<1>2. maps' = maps /\ UNCHANGED history /\ iter' = iter /\ pc[t].at # "restore"
  BY DEF LockImtx, Find, ReadFirst, Scan, ScanNext, Done, Is
<1>3. CASE LockImtx(t)
  <2>1. PICK p, i : /\ p = AfterImtx[pc[t].call[1]]
                    /\ i = IF InCall(t, {"iternext"}) THEN iter ELSE 0
    OBVIOUS
  <2>2. mmtx' = mmtx /\ (GotoMap(t, p, i) \/ Return(t))
    BY <1>3, <2>1 DEF LockImtx
  <2>3. /\ p \in {"first", "find", "next", "scan"}
        /\ p = "scan" => InCall(t, {"fwmkeys"})
    BY <1>1, <1>3, <2>1 DEF LockImtx, Is, CallOK, AfterImtx, InCall
  <2> QED
    BY <1>2, <2>2, <2>3, IterationGoes
<1>4. CASE Find(t)
  <2>1. PICK k : k = pc[t].call[2]
    OBVIOUS
  <2>2. pc[t].call[1] = "iterinit2" /\ RdLock(t, MapOf[k])
    BY <1>1, <1>4, <2>1 DEF Find, Is, CallOK
  <2>3. MapOf[k] \in Maps
    BY <1>1, <1>4, <2>1, <2>2, MemDBAssumption DEF CallOK, Find, Is
  <2>4. PICK p \in {"first", "done"} : Goto(t, p)
    BY <1>4 DEF Find
  <2>5. ~InCall(t, {"iternext"})
    BY <2>2 DEF InCall
  <2> QED
    BY <1>2, <2>2, <2>3, <2>4, <2>5, IterationGoes
<1>5. CASE ReadFirst(t)
  <2>1. /\ pc' = [pc EXCEPT ![t].at = "cur", ![t].x = maps[pc[t].i].first]
        /\ mmtx' = mmtx
    BY <1>5 DEF ReadFirst
  <2>2. /\ pc'[t].at = "cur" /\ pc'[t].x = maps[pc[t].i].first /\ pc'[t].i = pc[t].i
        /\ \A u \in Threads : u # t => pc'[u] = pc[u]
    BY <1>1, <2>1 DEF Inv, Shapes, CallOK
  <2>3. IteratorOK(t)'
    BY <1>2, <2>2 DEF IteratorOK
  <2> QED
    BY <1>2, <2>1, <2>2, <2>3, IterationStays
<1>6. CASE Scan(t) \/ ScanNext(t)
  <2>1. InCall(t, {"fwmkeys"}) /\ ~InCall(t, {"iternext"})
    BY <1>1, <1>6 DEF Scan, ScanNext, Is, IteratorOK, InCall
  <2>2. PICK p \in {"scanned", "scan", "done"} : Goto(t, p) \/ \E i : GotoMap(t, p, i)
    BY <1>6 DEF Scan, ScanNext
  <2>3. \E i \in Maps : WrLock(t, i) \/ RdLock(t, i) \/ Unlock(t, i)
    BY <1>1, <1>6 DEF Scan, ScanNext
  <2> QED
    BY <1>2, <2>1, <2>2, <2>3, IterationGoes
<1>7. CASE Done(t)
  <2>1. Return(t) /\ mmtx' = [i \in Maps |-> Without(mmtx[i], t)]
    BY <1>7 DEF Done
  <2> QED
    BY <1>2, <2>1, IterationGoes
<1> QED
  BY <1>3, <1>4, <1>5, <1>6, <1>7

\* A call begins.
LEMMA IterationStart ==
  ASSUME Inv, IterationOK, NEW t \in Threads, NEW c \in Calls[t], Start(t, c)
  PROVE  IterationOK'
<1> DEFINE begun == [Idle EXCEPT !.at = Door(c), !.call = c,
                             !.i = IF Door(c) = "key" THEN MapOf[c[2]] ELSE 0]
<1>1. /\ pc[t] = Idle /\ pc' = [pc EXCEPT ![t] = begun]
      /\ maps' = maps /\ UNCHANGED history /\ iter' = iter /\ mmtx' = mmtx
  BY DEF Start
<1>2. begun.at = Door(c) /\ pc[t].at = "idle"
  BY <1>1 DEF Idle
<1> HIDE DEF begun
<1>3. pc'[t].at = Door(c) /\ \A u \in Threads : u # t => pc'[u] = pc[u]
  BY <1>1, <1>2 DEF Inv, Shapes
<1>4. Door(c) \in {"key", "sweep", "sum", "collect", "imtx"}
  BY DEF Door
<1>5. IteratorOK(t)'
  BY <1>3, <1>4 DEF IteratorOK
<1> QED
  BY <1>1, <1>2, <1>3, <1>4, <1>5, IterationStays

\* Every step keeps the iteration right.
LEMMA IterationKept ==
  ASSUME Inv, MapsOK, MapsOK', IterationOK, [Next]_vars
  PROVE  IterationOK'
<1>1. ASSUME NEW t \in Threads, Step(t) PROVE IterationOK'
  <2>1. CASE OnKey(t) \/ Leave(t) \/ SweepNext(t) \/ Sum(t) \/ Collect(t) \/ Release(t)
    BY <2>1, IterationKey, IterationStay1
  <2>2. CASE Sweep(t) \/ Visit(t) \/ Restore(t)
    BY <2>2, IterationSweep, IterationVisit
  <2>3. CASE WriteCur(t) \/ Begin(t) \/ Next1(t) \/ Skip(t)
    BY <2>3, IterationInits, IterationNext
  <2>4. CASE LockImtx(t) \/ Find(t) \/ ReadFirst(t) \/ Scan(t) \/ ScanNext(t) \/ Done(t)
    BY <2>4, IterationStay2
  <2> QED
    BY <1>1, <2>1, <2>2, <2>3, <2>4 DEF Step
<1>2. ASSUME NEW t \in Threads, NEW c \in Calls[t], Start(t, c) PROVE IterationOK'
  BY <1>2, IterationStart
<1>3. CASE UNCHANGED vars
  BY <1>3 DEF Owed, vars, IterationOK, DueOK, Owes, Aside, IteratorOK, InCall
<1> QED
  BY <1>1, <1>2, <1>3 DEF Next, Finished

\* For every set of threads, keys and calls and every number of maps: when an
\* iteration says that it is at its end, it has returned every key that was ahead
\* of it when it began and was stored all along, but for those that it was taken
\* past when another call moved the record it stood on to the end of its map; as
\* long as iterations are not started while records are changed (tcmdbiternext
\* against tcmdbput3, tcmdbget3, tcmdbout, tcmdbforeach, tcmdbfwmkeys and the
\* others).
THEOREM IterationIsComplete == ASSUME Apart PROVE Spec => []IterationComplete
<1>1. Inv /\ MapsOK /\ [Next]_vars => MapsOK'
  BY MapsNext
<1>2. Inv /\ MapsOK /\ MapsOK' /\ IterationOK /\ [Next]_vars => IterationOK'
  BY IterationKept
<1>3. IterationOK => IterationComplete
  BY DEF Owed, IterationOK, IteratorOK, IterationComplete, Is
<1> QED
  BY <1>1, <1>2, <1>3, InvInit, InvNext, MapsBegin, IterationInit, PTL DEF Spec
=============================================================================
