----------------------------- MODULE BlockService -----------------------------
(***************************************************************************)
(* The service that owns the cache blocks: NBCacheService.java with its    *)
(* map of CacheImp objects, the life of a CacheImp and of the native store *)
(* behind it (CacheImp.java, CacheStorage.java and the JNI functions open  *)
(* and close), the flag file that fences off a block whose opening killed  *)
(* the process, and the boot receiver that lifts the fence.                *)
(*                                                                         *)
(* Every service object has a binder of its own, which runs one call at a  *)
(* time (its methods are synchronized): a call that a destroyed service    *)
(* has still in flight runs beside those of the service created after it.  *)
(* They share the preferences, the static exFlag, the flag file and the    *)
(* path locks of the native stores.  A call takes its steps one by one, as *)
(* far as another call, onDestroy, which runs on the main thread and takes *)
(* no lock, or a death of the process may come between them.  What a       *)
(* native call does with its data is the business of MStore; here it       *)
(* touches its store or it does not.                                       *)
(***************************************************************************)
EXTENDS Integers, FiniteSets

CONSTANTS
  Services,   \* service objects; one that has no call is used again
  Blocks,     \* block names
  Configs,    \* ConfigObjects, as far as they differ
  Removable,  \* those whose isRemovable is set
  Default,    \* what `new ConfigObject()' holds
  NoConf,     \* no entry in the preferences; null
  Ids,        \* CacheImp objects; an object nobody refers to is used again
  NoObj,      \* no object
  Limit,      \* the 10 of getCacheImp
  Day,        \* 24*60*60*1000
  Ops,        \* the operations that clients call
  InFlight,   \* whether a client may unbind, or die, with a call in flight
  FlagFails,  \* whether creating or deleting the flag file may fail
  MaxTime     \* bound: the last instant explored

Removals == {"remove", "removeBlock"}
\* The operations for which CacheImp tests sInited.
Checked == {"read", "write", "setBlockConfig"} \cup Removals

ASSUME ServiceAssumption ==
  /\ Default \in Configs /\ Removable \subseteq Configs /\ NoConf \notin Configs
  /\ NoObj \notin Ids /\ IsFiniteSet(Blocks)
  /\ Ops \subseteq Checked \cup {"getAllKey", "closeBlock"}
  /\ Limit \in Nat /\ Day \in Nat \ {0} /\ MaxTime \in Nat
  /\ InFlight \in BOOLEAN /\ FlagFails \in BOOLEAN

VARIABLES
  conf,    \* the preferences: the configuration stored for each block
  asked,   \* history: the configuration clients last set for each block
  life,    \* of each service: "none", "up", "destroying", "gone"
  co,      \* of each service: its field co, one for all blocks
  map,     \* of each service: chMap
  call,    \* of each service: the call its binder executes
  todo,    \* objects onDestroy has still to close
  block, inited, native,  \* of each CacheImp: its block, sInited, its store
  exFlag,  \* the static exFlag
  flag, mtime,  \* the flag file, and the modification time of its directory
  now,     \* System.currentTimeMillis()
  booting, \* the broadcast of the last boot is still to come
  ub,      \* history: a freed store was used
  began,   \* history: when a service's opening under way examined the flag
  mixed,   \* history: services whose opening under way another one overlapped
  crash    \* history: when the last opening that killed the process began

prefs == <<conf, asked>>
services == <<life, co, map, todo>>
objects == <<block, inited, native, exFlag, ub>>
fence == <<flag, mtime, began, mixed>>
disk == <<fence, now, booting, crash>>
vars == <<prefs, services, call, objects, disk>>

NoCall == [op |-> "none", block |-> NoObj, conf |-> NoConf, obj |-> NoObj, stage |-> "none"]
NoMap == [b \in Blocks |-> NoObj]

Longago == -Day

Mapped(s) == {map[s][b] : b \in Blocks} \ {NoObj}

\* A store is open: it has its file, or the file was unlinked under it.
Open(i) == native[i] \in {"live", "orphan"}

Free == {i \in Ids : ~Open(i)} \ (todo \cup UNION {Mapped(s) \cup {call[s].obj} : s \in Services})

Init ==
  /\ conf = [b \in Blocks |-> NoConf] /\ asked = conf
  /\ life = [s \in Services |-> "none"] /\ co = [s \in Services |-> NoConf]
  /\ map = [s \in Services |-> NoMap] /\ call = [s \in Services |-> NoCall]
  /\ todo = {} /\ block = [i \in Ids |-> NoObj]
  /\ inited = [i \in Ids |-> FALSE] /\ native = [i \in Ids |-> "none"]
  /\ exFlag = FALSE /\ flag = FALSE /\ mtime = 0 /\ now = 0 /\ booting = FALSE
  /\ ub = FALSE /\ began = [s \in Services |-> 0] /\ mixed = {} /\ crash = Longago

---------------------------------------------------------------------------
(* The binder: a call and its configuration *)

At(s, stage) == call[s].stage = stage
Goto(s, stage) == call' = [call EXCEPT ![s].stage = stage]
Got(s, i) == call' = [call EXCEPT ![s].obj = i, ![s].stage = "got"]
Return(s) == call' = [call EXCEPT ![s] = NoCall]

\* A call takes the lock of its binder: of the service that is up, or, having
\* waited for the lock, of one that is not any more.
Begin(s, op, b, c) ==
  /\ call[s] = NoCall
  /\ life[s] = "up" \/ (InFlight /\ life[s] \in {"destroying", "gone"})
  /\ call' = [call EXCEPT ![s] =
       [op |-> op, block |-> b, conf |-> c, obj |-> NoObj,
        stage |-> IF op \in Removals \cup {"setBlockConfig"} THEN "begin" ELSE "enter"]]
  /\ UNCHANGED <<prefs, services, objects, disk>>

\* Mutants: the preferences are taken as they are; they are not looked at.
OwnUnset(s) == conf[call[s].block]
OwnStale(s) == co[s]

\* The configuration of a block without one is whatever co holds.
Own(s) == IF conf[call[s].block] = NoConf THEN co[s] ELSE conf[call[s].block]

\* setBlockConfig commits the configuration before it looks for the block.
SetConfig(s) ==
  /\ At(s, "begin") /\ call[s].op = "setBlockConfig"
  /\ conf' = [conf EXCEPT ![call[s].block] = call[s].conf]
  /\ asked' = [asked EXCEPT ![call[s].block] = call[s].conf]
  /\ Goto(s, "enter")
  /\ UNCHANGED <<services, objects, disk>>

\* remove and removeBlock look at isRemovable before they look for the block.
TestRemoval(s) ==
  /\ At(s, "begin") /\ call[s].op \in Removals
  /\ co' = [co EXCEPT ![s] = Own(s)]
  /\ IF Own(s) \in Removable THEN Goto(s, "enter") ELSE Return(s)
  /\ UNCHANGED <<prefs, life, map, todo, objects, disk>>

\* getCacheImp finds no configuration in the preferences ...
Unset(s) ==
  /\ At(s, "enter") /\ conf[call[s].block] = NoConf /\ Goto(s, "store")
  /\ UNCHANGED <<prefs, services, objects, disk>>

\* ... and stores there what co holds; else co becomes the block's.
Configured(s) ==
  /\ \/ /\ At(s, "enter") /\ conf[call[s].block] # NoConf
        /\ co' = [co EXCEPT ![s] = conf[call[s].block]] /\ UNCHANGED conf
     \/ /\ At(s, "store")
        /\ conf' = [conf EXCEPT ![call[s].block] = co[s]] /\ UNCHANGED co
  /\ UNCHANGED asked

---------------------------------------------------------------------------
(* The binder: the object of a block *)

Hit(s) ==
  /\ Configured(s) /\ map[s][call[s].block] # NoObj
  /\ Got(s, map[s][call[s].block])
  /\ UNCHANGED <<life, map, todo, objects, disk>>

\* CacheImp.close: uninitialized, and its native store freed, even if it has
\* been freed before.
CloseAll(S) ==
  /\ inited' = [i \in Ids |-> inited[i] /\ i \notin S]
  /\ native' = [i \in Ids |-> IF i \in S THEN "freed" ELSE native[i]]
  /\ ub' = (ub \/ \E i \in S : native[i] = "freed")

\* Mutants: one block more before the sweep; a sweep that closes nothing; one
\* that leaves the map as it is.
SweptLate(s) == Cardinality({b \in Blocks : map[s][b] # NoObj}) > Limit + 1
GoneNone(s) == {}
KeptAll(s) == map[s]

\* More than Limit blocks: all are closed and forgotten.
Swept(s) == Cardinality({b \in Blocks : map[s][b] # NoObj}) > Limit
Gone(s) == IF Swept(s) THEN Mapped(s) ELSE {}
Kept(s) == IF Swept(s) THEN NoMap ELSE map[s]

\* The block has no object.  The static flag remembers that an opening failed:
\* the call is answered with null or false.
Miss(s) ==
  /\ Configured(s) /\ map[s][call[s].block] = NoObj
  /\ CloseAll(Gone(s)) /\ map' = [map EXCEPT ![s] = Kept(s)]
  /\ IF exFlag THEN Return(s) ELSE Goto(s, "examine")
  /\ UNCHANGED <<life, todo, block, exFlag, disk>>

---------------------------------------------------------------------------
(* The constructor of CacheImp *)

\* Mutant: the fence falls too early.
FencedShort == flag /\ now - mtime < Day - 1

\* A flag file while its directory is younger than a day.
Fenced == flag /\ now - mtime < Day

\* The constructor gives up: it is fenced off, or there is no external cache
\* directory.
Unavailable(s) ==
  /\ At(s, "examine") /\ exFlag' = TRUE /\ Return(s)
  /\ UNCHANGED <<prefs, services, block, inited, native, ub, disk>>

\* Services that have passed the fence and have not taken their flag down yet.
Opening == {s \in Services : call[s].stage \in {"replace", "raise", "open", "lower"}}

Pass(s) ==
  /\ At(s, "examine") /\ ~Fenced
  /\ Goto(s, IF flag THEN "replace" ELSE "raise")
  /\ began' = [began EXCEPT ![s] = now]
  /\ mixed' = IF Opening = {} THEN mixed ELSE mixed \cup Opening \cup {s}
  /\ UNCHANGED <<prefs, services, objects, flag, mtime, now, booting, crash>>

\* An old flag file, unless it is gone by now, is deleted ...
Replace(s) ==
  /\ At(s, "replace")
  /\ Goto(s, IF flag THEN "raise" ELSE "open")
  /\ \/ flag' = FALSE /\ mtime' = IF flag THEN now ELSE mtime
     \/ FlagFails /\ UNCHANGED <<flag, mtime>>
  /\ UNCHANGED <<prefs, services, objects, began, mixed, now, booting, crash>>

\* ... and a new one is created, unless there is one.
Raise(s) ==
  /\ At(s, "raise") /\ Goto(s, "open")
  /\ \/ flag' = TRUE /\ mtime' = IF flag THEN mtime ELSE now
     \/ FlagFails /\ UNCHANGED <<flag, mtime>>
  /\ UNCHANGED <<prefs, services, objects, began, mixed, now, booting, crash>>

\* Native functions create, unlink and rename files in the flag's directory.
Touch == mtime' \in {mtime, now}

\* The native library is missing: there is no store.
NoLibrary(s) ==
  /\ At(s, "open") /\ Goto(s, "lower")
  /\ UNCHANGED <<prefs, services, objects, disk>>

\* Another open store holds the path lock of a block's file.
Locked(b) == \E i \in Ids : block[i] = b /\ Open(i)

\* The native store is opened under the flag file.  mStore::open unlinks a
\* file it cannot open and tries again; it cannot open one whose path is
\* locked.  The JNI function returns an object whether the store is open or
\* "dead".
OpenNative(s, i, outcome) ==
  /\ At(s, "open") /\ i \in Free
  /\ Locked(call[s].block) => outcome = "dead"
  /\ block' = [block EXCEPT ![i] = call[s].block]
  /\ inited' = [inited EXCEPT ![i] = TRUE]
  /\ native' = [j \in Ids |-> IF j = i THEN outcome
                              ELSE IF block[j] = call[s].block /\ Open(j) THEN "orphan"
                              ELSE native[j]]
  /\ call' = [call EXCEPT ![s].obj = i, ![s].stage = "lower"]
  /\ Touch
  /\ UNCHANGED <<prefs, services, exFlag, ub, flag, began, mixed, now, booting, crash>>

\* The process is gone: what its memory held is void.
Vanished ==
  /\ life' = [s \in Services |-> "none"] /\ co' = [s \in Services |-> NoConf]
  /\ map' = [s \in Services |-> NoMap] /\ call' = [s \in Services |-> NoCall]
  /\ todo' = {} /\ exFlag' = FALSE /\ block' = [i \in Ids |-> NoObj]
  /\ inited' = [i \in Ids |-> FALSE] /\ native' = [i \in Ids |-> "none"]
  /\ began' = [s \in Services |-> 0] /\ mixed' = {} /\ UNCHANGED ub

\* The process dies in the opening of a store: the flag file stays.
OpenCrash(s) ==
  /\ At(s, "open") /\ Vanished
  /\ crash' = IF s \in mixed THEN crash ELSE began[s]
  /\ Touch /\ UNCHANGED <<prefs, flag, now, booting>>

\* The constructor deletes the flag file, if there is one, and getCacheImp
\* enters the object.  An iterator of onDestroy may or may not come across the
\* new entry.
Lower(s) ==
  /\ At(s, "lower")
  /\ \/ flag' = FALSE /\ mtime' = IF flag THEN now ELSE mtime
     \/ FlagFails /\ UNCHANGED <<flag, mtime>>
  /\ began' = [began EXCEPT ![s] = 0] /\ mixed' = mixed \ {s}
  /\ \/ /\ call[s].obj = NoObj /\ exFlag' = TRUE
        /\ Return(s) /\ UNCHANGED <<map, todo>>
     \/ /\ call[s].obj # NoObj
        /\ map' = [map EXCEPT ![s] = [@ EXCEPT ![call[s].block] = call[s].obj]]
        /\ todo' \in IF life[s] = "destroying" THEN {todo, todo \cup {call[s].obj}} ELSE {todo}
        /\ Goto(s, "got") /\ UNCHANGED exFlag
  /\ UNCHANGED <<prefs, life, co, block, inited, native, ub, now, booting, crash>>

---------------------------------------------------------------------------
(* The binder: the object's native store *)

\* CacheImp.read, write, remove, clear and reSetMaxSize.
Check(s) ==
  /\ At(s, "got") /\ call[s].op \in Checked
  /\ IF inited[call[s].obj] THEN Goto(s, "native") ELSE Return(s)
  /\ UNCHANGED <<prefs, services, objects, disk>>

\* The native function works on the store; CacheImp.getAllKey enters it
\* without a test.
Work(s) ==
  /\ At(s, "native") \/ (At(s, "got") /\ call[s].op = "getAllKey")
  /\ Return(s)
  /\ ub' = (ub \/ native[call[s].obj] = "freed")
  /\ Touch
  /\ UNCHANGED <<prefs, services, block, inited, native, exFlag, flag, began, mixed, now,
                 booting, crash>>

\* closeBlock closes the object, which stays in the map.
CloseBlock(s) ==
  /\ At(s, "got") /\ call[s].op = "closeBlock"
  /\ CloseAll({call[s].obj}) /\ Return(s)
  /\ UNCHANGED <<prefs, services, block, exFlag, disk>>

---------------------------------------------------------------------------
(* The service, its process and the device *)

\* onCreate, in a new process or in the old one.  onCreate and onDestroy run on
\* one thread: there is one service at a time.
Create(s) ==
  /\ \A t \in Services : life[t] \in {"none", "gone"}
  /\ call[s] = NoCall
  /\ life' = [life EXCEPT ![s] = "up"] /\ co' = [co EXCEPT ![s] = Default]
  /\ map' = [map EXCEPT ![s] = NoMap]
  /\ UNCHANGED <<prefs, call, todo, objects, disk>>

DestroyBegin(s) ==
  /\ life[s] = "up" /\ (InFlight \/ call[s] = NoCall)
  /\ life' = [life EXCEPT ![s] = "destroying"] /\ todo' = Mapped(s)
  /\ UNCHANGED <<prefs, co, map, call, objects, disk>>

DestroyClose(i) ==
  /\ i \in todo /\ CloseAll({i}) /\ todo' = todo \ {i}
  /\ UNCHANGED <<prefs, life, co, map, call, block, exFlag, disk>>

\* The iterator passes over an entry that was removed under it.
DestroySkip(s, i) ==
  /\ life[s] = "destroying" /\ i \in todo \ Mapped(s)
  /\ todo' = todo \ {i}
  /\ UNCHANGED <<prefs, life, co, map, call, objects, disk>>

\* Mutant: the map is cleared before everything is closed.
DestroyEndEarly(s) ==
  /\ life[s] = "destroying" /\ life' = [life EXCEPT ![s] = "gone"]
  /\ map' = [map EXCEPT ![s] = NoMap] /\ todo' = {}
  /\ UNCHANGED <<prefs, co, call, objects, disk>>

DestroyEnd(s) ==
  /\ life[s] = "destroying" /\ todo = {}
  /\ life' = [life EXCEPT ![s] = "gone"] /\ map' = [map EXCEPT ![s] = NoMap]
  /\ UNCHANGED <<prefs, co, call, todo, objects, disk>>

\* The system kills the process.
Kill == /\ \E s \in Services : life[s] # "none"
        /\ Vanished /\ UNCHANGED <<prefs, flag, mtime, now, booting, crash>>

\* The device boots.  Its broadcast comes some time later: a service may have
\* been created before.
Reboot == Vanished /\ booting' = TRUE /\ UNCHANGED <<prefs, flag, mtime, now, crash>>

\* CacheRebootReceiver deletes the flag file, or fails to.
Receive ==
  /\ booting /\ booting' = FALSE
  /\ \/ /\ flag' = FALSE /\ crash' = Longago
        /\ mtime' = IF flag THEN now ELSE mtime
        /\ mixed' = IF flag THEN mixed \cup Opening ELSE mixed
     \/ UNCHANGED <<flag, mtime, mixed, crash>>
  /\ UNCHANGED <<prefs, services, call, objects, began, now>>

Tick == now < MaxTime /\ now' = now + 1
        /\ UNCHANGED <<prefs, services, call, objects, fence, booting, crash>>

Resolve(s) == \/ SetConfig(s) \/ TestRemoval(s) \/ Unset(s) \/ Hit(s) \/ Miss(s)
              \/ Unavailable(s) \/ Pass(s) \/ Replace(s) \/ Raise(s)
              \/ \E i \in Ids, o \in {"live", "dead"} : OpenNative(s, i, o)
              \/ NoLibrary(s) \/ OpenCrash(s) \/ Lower(s)

Step(s) == \/ \E op \in Ops \ {"setBlockConfig"}, b \in Blocks : Begin(s, op, b, NoConf)
           \/ \E op \in Ops \cap {"setBlockConfig"}, b \in Blocks, c \in Configs :
                Begin(s, op, b, c)
           \/ Resolve(s) \/ Check(s) \/ Work(s) \/ CloseBlock(s)
           \/ Create(s) \/ DestroyBegin(s) \/ DestroyEnd(s)
           \/ \E i \in Ids : DestroySkip(s, i)

Next == \/ \E s \in Services : Step(s)
        \/ \E i \in Ids : DestroyClose(i)
        \/ Kill \/ Reboot \/ Receive \/ Tick

Spec == Init /\ [][Next]_vars

---------------------------------------------------------------------------
(* Properties *)

Stages == {"begin", "enter", "store", "examine", "replace", "raise", "open", "lower",
           "got", "native"}
Calls == [op: Ops, block: Blocks, conf: Configs \cup {NoConf},
          obj: Ids \cup {NoObj}, stage: Stages]

\* Part of TypeOK.
CallsOK ==
  /\ call \in [Services -> Calls \cup {NoCall}]
  /\ \A s \in Services :
       /\ life[s] = "none" => call[s] = NoCall
       /\ call[s].op = "setBlockConfig" => call[s].conf \in Configs
       /\ call[s].stage \in {"got", "native"} => call[s].obj \in Ids
       /\ call[s].stage \notin {"lower", "got", "native"} => call[s].obj = NoObj

TypeOK ==
  /\ conf \in [Blocks -> Configs \cup {NoConf}] /\ asked \in [Blocks -> Configs \cup {NoConf}]
  /\ life \in [Services -> {"none", "up", "destroying", "gone"}]
  /\ co \in [Services -> Configs \cup {NoConf}]
  /\ \A s \in Services : life[s] # "none" => co[s] \in Configs
  /\ map \in [Services -> [Blocks -> Ids \cup {NoObj}]] /\ CallsOK
  /\ todo \subseteq Ids /\ block \in [Ids -> Blocks \cup {NoObj}]
  /\ inited \in [Ids -> BOOLEAN]
  /\ native \in [Ids -> {"none", "live", "orphan", "dead", "freed"}]
  /\ exFlag \in BOOLEAN /\ flag \in BOOLEAN /\ booting \in BOOLEAN /\ ub \in BOOLEAN
  /\ now \in Nat /\ mtime \in Nat /\ crash \in Int
  /\ began \in [Services -> Nat] /\ mixed \subseteq Services

\* An opening that killed the process is not followed by another one, for any
\* block and by any later process, until a day has passed since it began or the
\* boot receiver has lifted the fence: the flag file of CacheImp's constructor
\* breaks the loop of crashes.  An opening that another service's opening, or the
\* boot receiver's deletion of its flag, overlapped is no such opening: the other
\* one may have taken the flag down under it.
CrashLoopBroken ==
  [][(\E s \in Services : \/ \E i \in Ids, o \in {"live", "dead"} : OpenNative(s, i, o)
                          \/ OpenCrash(s)) => now - crash >= Day]_vars

\* remove and removeBlock pass their test only on blocks for which no client
\* asked a configuration that forbids it: setBlockConfig's answer holds for the
\* block across the configurations of other blocks in the field co, other
\* services and deaths of the process, until it is called again.
RemovalsPermitted ==
  \A s \in Services :
    call[s].op \in Removals /\ call[s].stage # "begin"
      => asked[call[s].block] \in Removable \cup {NoConf}

\* An open store is the one a service's map holds for its block, or about to be
\* entered there, and the only one of its block: none is leaked, none is opened
\* a second time, and a call on a block finds the one that is open.
OpenIsMapped ==
  /\ \A i \in Ids : Open(i) => \E s \in Services :
       \/ block[i] \in Blocks /\ map[s][block[i]] = i
       \/ At(s, "lower") /\ call[s].obj = i
  /\ \A i, j \in Ids : Open(i) /\ Open(j) /\ block[i] = block[j] => i = j

\* There are never more than one above Limit open stores, the sweep of
\* getCacheImp closing what it forgets.
OpenStoresBounded == Cardinality({i \in Ids : Open(i)}) <= Limit + 1

\* No call works on, or closes once more, a native store that was freed.
NoFreedStoreUsed == ~ub

\* A call other than closeBlock gets an object whose store has not been closed
\* ("a cache operation after close will open the cache again", CacheImp.close).
ServedByOpenBlock ==
  \A s \in Services : At(s, "got") /\ call[s].op # "closeBlock"
                        => native[call[s].obj] # "freed"

\* No store loses its file to another opening of the same block.
NoFileUnlinked == \A i \in Ids : native[i] # "orphan"
=============================================================================
