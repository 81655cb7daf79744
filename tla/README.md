# A verification project for androidCache

androidCache keeps blocks of records in files on an Android device. A client library talks over a
binder to a service; the service owns the blocks; each block is a store with a quota that evicts its
oldest records; each store is a hash database of Tokyo Cabinet, whose sources (`tchdb.c`, `tcutil.c`)
the repository carries and builds. This directory holds TLA+ models of these parts, the TLC
configurations that check them on small instances, and theorems that TLAPS proves for every value of
the constants.

    tlc -config HashDBTrees.cfg MCHashDB         # a run: configuration and module, see "Runs"
    tlapm BlockServiceProofs.tla                 # the proofs of a module, see "Proofs"

Paths below are those of the repository; line numbers are in `PROJECT.json`, which maps every
definition to the code it stands for.

## 1. The system

### Components

| Component | State it keeps | Operations | What makes it correct |
|---|---|---|---|
| **Client** `MultiNBCache.java`, `NBCache.java` | the binder connection | every cache call, forwarded; bind, unbind | a call is answered by the service or refused, never lost between two connections |
| **Service** `NBCacheService.java` | preferences (configuration per block), the field `co`, the map `chMap` of `CacheImp` objects | read, write, remove, removeBlock, setBlockConfig, getAllKey, closeBlock, the catalog calls; onCreate, onDestroy | one open store per block, bounded in number, configured by its own configuration |
| **Block object** `CacheImp.java`, `CacheStorage.java` | `sInited`, the native pointer, the static `exFlag`, the flag file | open, read, write, remove, clear, reSetMaxSize, getAllKey, close | no freed native store is used; an opening that kills the process is not repeated at once |
| **Boot receiver** `CacheRebootReceiver.java` | the flag file | onReceive | lifts the fence, nothing else |
| **JNI and store** `com_yoson_cache_CacheStorage.cpp`, `mStore.cpp/.h` | the quota, in memory and in the file's header; the clock | insert, get, remove, clearAll, reMaxSize, open, close | the quota holds; eviction is first in, first out, and no more than its share |
| **Hash database** `tchdb.c` | the mapped file: bucket array, records that are nodes of a binary tree per bucket, free blocks; the free block pool; iterator and defragmentation cursors | put, putkeep, putcat, out, get, iterinit, iternext, defrag, optimize, vanish, open, close | a dictionary; the file is tiled by segments; the pool offers only free bytes |
| **Image catalogs** `NBCacheService.java` | two blocks: images, and the list of the catalogs of each image | writeCatalog, removeCatalog, readCatalog, getCatalog | what is acknowledged is stored and listed |
| **Containers** `tcutil.c` | TCMAP (hash map with an order), TCTREE and TCNDB (splay tree), TCLIST (array) | about fifty calls | ordered dictionary, sorted dictionary, sequence |
| **On-memory database** TCMDB in `tcutil.c` | eight maps, a lock per map and one for the iterator | the map calls from several threads | each map sound, a visit sees one state, an iteration is complete, every call returns |
| **Transactions** `tchdb.c` | the log file, its end, the header in memory and in the file | tranbegin, commit, abort, void, the writes through the log, copy, restoration at opening | all or nothing, over the death of the process |
| **Codecs** `ImageCache.java`, the value format of `mStore.cpp`, the strings and formats of `tcutil.c` | none | encode, decode, compare, split, sort | decoding undoes encoding; a result is what its definition says |
| **Request queue** `RequestQueue.java`, `CacheDispatcher.java`, ... | queues and worker threads | - | does not compile, see section 8 |

### Who calls whom

    client --binder--> NBCacheService --map--> CacheImp --JNI--> mStore --calls--> TCHDB --> file
                            |                      |                                   \--> TCList, TCMap
                        preferences            flag file <-- boot receiver

The methods of a binder are `synchronized`: of one service's calls one runs at a time. Every service object
makes a binder of its own, so a call that a destroyed service has still in flight runs beside those of the
next service; they share the preferences, the static `exFlag`, the flag file and the path locks of the
database. `onCreate` and `onDestroy` run on the main thread and take no lock. The process may be killed between any two steps; what it held in memory is
gone, the mapped file, the preferences and the flag file stay. The native code below the service is
single-threaded in this program: `mStore` never installs the database's mutexes. The on-memory
database and the transactions are parts of the library that `mStore` does not call; their callers are
whoever links the library, and the models let them make any sequence of calls.

### What is hard

* **Life cycle.** A service may be destroyed while a call resolves its block or works on a store, and the
  next one opens blocks beside that call.
  Objects stay in the map after they were closed. The map is swept when it is full, and the block
  being resolved is at the edge of that sweep. The configuration lives in one field for all blocks.
* **Crash loops.** A damaged file can kill the process that opens it. The flag file raised around the
  opening must be seen by the next process, age with the clock, and fall after a day or at boot.
* **The quota.** Eviction counts records, the quota counts bytes; the eviction share is truncated;
  eviction is followed by a rewriting of the file; a smaller quota may be refused half way; the JNI
  function tries a failed insertion again; clearing loses the header.
* **The file.** Free blocks are split, merged, spliced into the record before them, and moved by
  defragmentation, under an iterator and two cursors and behind a pool that forgets entries, is partly
  unsorted and lives only in memory. A removal rearranges the tree of the bucket.
* **Locks.** `tcmdbforeach` takes the locks of all maps in a row, `tcmdbiternext` a map's under the
  iterator's, other calls one each; the iterator lives in the maps, and every call that visits them
  saves and restores it. `tcmdbiterinit` takes no map's lock at all.
* **The log.** Old contents must be in the log before new ones are in the file; the header lives in
  memory and in the file; restoration itself may die and is repeated; four operations remove the log,
  and not all of them always do.
* **Formats.** Decoders read what encoders never write, escapes meet their own delimiters, a last byte,
  an empty field or a sign extension falls on a boundary.
* **Two blocks, one call.** A catalog write touches the data block and the index block; the process
  may die, or either block evict, in between.

`PROJECT.json` lists every such hazard at its line, with the properties that would catch it, or the
reason why none does yet.

## 2. Modules

| Module | Models | State and actions |
|---|---|---|
| `HashFile` | the file format and the operations of `tchdb.c` that rearrange it, as operators | a record: `seg` (offset to header), bucket roots, file size, pool, cursors |
| `HashDB` | the interface of `tchdb.c`, one action per call | `db`, `status`; `Put`, `Out`, `IterInit`, `IterNext`, `Defrag`, `DefragAll`, `Optimise`, `Vanish`, `Close`, `Open`, `CallClosed`; the death of the process between calls (`Die`), after a write of a call (`DieWithin`) and within `optimize` (`DieUnlinked`); histories `kept` and `doubt` of what the keys should hold |
| `KVStore` | abstract: a dictionary with an iterator | what `HashDB` promises |
| `MStore` | `mStore.cpp` and the JNI functions, over the same `HashFile` | `db`, `maxlen`, `saved`, `now`; `Insert` (both attempts), `Delete`, `ClearAll`, `ReMaxSize`, `Open`, `Close`, `Die`, `Tick` |
| `BlockService` | the services, their binders, the block objects, the flag file, the boot receiver | per service `life`, `co`, `map` and `call`; per object `block`, `inited`, `native`; `conf`, `exFlag`, `flag`, `mtime`, `now`, `booting`; histories `asked`, `began`, `mixed`, `crash`, `ub`. A call goes through `Begin`, one step after the other of `Resolve` (configuration: `SetConfig`, `TestRemoval`, `Unset`; object: `Hit`, `Miss`; constructor: `Unavailable`, `Pass`, `Replace`, `Raise`, `OpenNative`, `NoLibrary`, `OpenCrash`, `Lower`), and `Check`, `Work` or `CloseBlock`; `Create`, `DestroyBegin`, `DestroyClose`, `DestroySkip`, `DestroyEnd`, `Kill`, `Reboot`, `Receive`, `Tick` |
| `ImageCatalog` | the catalog calls over two blocks | `data`, `index`; one action per call and per failure, the death between the two writes an outcome of its own |
| `TCCommon`, `TCMap`, `TCTree`, `TCList` | the containers of `tcutil.c`, as operators on records | bucket trees and the linked list; the splay tree; slots, start and number |
| `ListCalls` | one action per group of calls on the array list | `list`, the last call `listcall` and its answer `listret` |
| `MapCalls` | one action per group of calls on the hash map | `map`, the last call `mapcall` and its answer `mapret` |
| `Containers` | `MapCalls`, `ListCalls`, and one action per group of calls on the tree | `focus`, the container a behaviour is about; `tree`, the last `call` and its answer `ret`; the variables of the two others |
| `OrderedMap`, `SortedMap`, `ElementList` | abstract: what a caller of a container sees | contents and iterator; the last call and its answer are the interface |
| `MemDB` | the on-memory database: `TCMap` under threads and locks | `maps`, `mmtx` (a lock per map), `imtx`, `iter`, `pc` and `left` per thread; histories `due` and `passed` of an iteration; a step takes a lock, works on one map, or gives locks back |
| `HashLog` | transactions and the log of `tchdb.c` | `file`, `log`, `hdb`, `pc`; one action per write to the file or the log, `Die` between any two |
| `AtomicFile` | abstract: updates that last at the commit or not at all, and none while the file is opened, closed or rolled back | `shown`, `fixed`, `tran`, `ready`: what `HashLog` promises |
| `CStrings` | string functions of `tcutil.c`: words, numbers, distances, UTF-8, C escapes | operators |
| `TextCodecs` | URL, base64, quoted-printable, hexadecimal, packing, variable-length numbers, XML, MIME words | operators |
| `Formats`, `Dates` | MIME bodies and parts, forms, attributes, XML sections; calendar and its printed forms | operators |
| `BlockSort` | block sorting, move-to-front, gamma codes of `tcutil.c` | operators |
| `ValueCodecs` | the value format and encryption of `mStore.cpp`, the record of `ImageCache.java` | operators |
| `Codecs` | what these functions do to a text | `kind`, `text`, `num`; `Write` adds a piece |
| `BlockServiceProofs` | theorems about `BlockService` | - |
| `HashLogProofs` | theorems about `HashLog`: its invariant and the end of the file; the free block pool; the refinement to `AtomicFile` | - |
| `TCMapProofs` | lemmas: what each operator of `TCMap` does to the trees, the list and the iterator | - |
| `ContainersProofs` | theorems about `MapCalls` and `ListCalls`: the map is sound and refines `OrderedMap`, the list refines `ElementList` | - |
| `MemDBProofs` | theorems about the locks and the maps of `MemDB` | - |
| `ImageCatalogProofs` | theorems about `ImageCatalog` | - |
| `HashFileProofs` | lemmas: what each operator of `HashFile` does to the segments, the pool and the trees | - |
| `MStoreProofs` | theorems about `MStore`: its file, how long it is, what it holds and what it evicts; its quota | - |
| `MC*` | the instances | - |

`HashFile` is pure: `HashDB` and `MStore` are two clients of it, so the quota is checked over the real
layout of the file and not over an abstract number of bytes. `BlockService` keeps of a native store
whether it is open, dead (the object exists, the open failed), freed or orphaned (its file was
unlinked); what a call does to the data is in `MStore`, and what a catalog call does to two blocks in
`ImageCatalog`, which takes a block's write as one that may succeed, fail, and evict others either way.

Some correspondences that are not obvious:

* A header in `seg` disappears when a write covers its offset. A cursor left on such an offset has no
  header to read; that is what "reads garbage" is in the model, and `CursorsOnSegments` excludes it.
* `Die` leaves the mapped file as it was between two calls; the pool is lost and the open mark stays.
  `Open` then rebuilds nothing: the pool is empty, or after a regular closing the one saved by it, as in
  `tchdb.c`. A closing saves the pool as far as its room in the header goes; `SaveMax` counts the entries where
  the code counts their bytes (`Saved`). One pool stands for memory and file, so that an older saved pool
  cannot be met here; `HashLog` keeps the two apart.
* With `Traced`, the operators of `HashFile` append to `past` what the file is after each write they make,
  in the order of the code: free block header, record, end of the file, tree entry, number of records.
  `DieWithin` leaves any one of these files. What is in memory (the pool, cursors) is in `db` only. One write
  is one step; the death inside of a `memcpy` is left out. So is what a later call does whose descent meets
  a free block: `tchdbreadrec` answers true and sets only the size, and the descent goes on with the fields of
  the record before. `Passable` and `SureOfEnd` keep to descents that end over records. Nor is a file
  defragmented that a death has damaged; `mStore` never defragments.
* A key is in `doubt` when the call that wrote it was cut short, or when it is written to a file that has keys
  in doubt. `Optimise` rebuilds the file from the walk and settles what these keys hold.
* In `MStore` a value carries the time it was written and its compression flag, and a length; the
  bytes are left out. The database's comparison of times is the one of a 4-byte `time_t`.
* In `BlockService` an object nobody refers to any more is used again under the same name
  (`Free`): the garbage collector reclaims the Java object, and objects are never compared.
* The iterator that `onDestroy` runs over the hash map is not fail-safe: it may or may not come across
  an entry added behind it (`Lower` while the service is `"destroying"`), and steps over removed ones.
* A service of the model that has no call is used again for the next one: two stand for any number, as long
  as at most one destroyed service has still a call in flight. A call may also wait for the lock of its
  binder while the service goes, so that `Begin` is possible after it (`InFlight`).
* A boot and its receiver are two steps (`Reboot`, `Receive`): the broadcast comes some time after the boot,
  and a service may have opened blocks before.
* In `Dates` a time is a pair of day and second, since TLC's integers have 32 bits. `TimeT` is the conversion to
  the 4-byte `time_t` of the libraries in `src/libs`; `Plus`, a sum of such numbers, wraps (undefined in C; the
  build is unoptimized, `Application.mk:2`). `MkTime` answers -1 for a time that does not fit, as `mktime` does.
* In `MemDB` a call on one key does its work in the step that gets the lock, and gives the lock back in
  the next: what others can do in between is to wait. `tcmdbiterinit` reads and writes each map in two
  steps, since it locks none. `tcmdbforeach` goes through `collect`, `visit`, `restore` and `release`,
  a map at a time.
* In `HashLog` a segment is a cell: the trees inside are the concern of `HashFile`, the question here
  is which writes reach the file. A write logs first (`log`), then stores (`store`), or grows the file
  (`resize`, `insert`). An opening that finds a log, an abort and a closing within a transaction
  undo it record by record (`undo`), from the last to the first. The refinement maps `fixed` to what the next
  opening would show (`Lasting`), computed from the log: of the records that hold a cell the oldest, which is
  applied last, says what the cell will be (`Undone`). `ready` is false from the moment an opening, a closing
  or an abort begins until it is done.
* `Codecs` has no state of the program: a behaviour writes a text piece by piece, and every invariant
  says what the functions of the codec modules do to every text met. References are inverses, set
  comprehensions (`RotationsSorted`, the distance as a minimum over edits), or a second way to compute
  the same.
* The three containers do not interact. `focus` says which one a behaviour is about, so that their
  states are added and not multiplied; the abstract specification of the others is fed with an idle
  call.

## 3. Runs

| Run | Configuration | Distinct states | Question |
|---|---|---|---|
| `hashdb_trees` | `HashDBTrees.cfg` | 112,245 | do the bucket trees lead to every record after any sequence of calls, and what does a death within a call leave of file and trees? |
| `hashdb_calls` | `HashDBCalls.cfg` | 162,080 | is the file always tiled, does the pool offer only free bytes, does the file grow for data only; do iterator and defragmentation cursor survive everything between two of their steps, and do the calls implement `KVStore`? |
| `store_evict` | `MStoreEvict.cfg` | 31,858 | quota, order and amount of eviction, honest resizing |
| `service_calls` | `ServiceCalls.cfg` | 1,052,106 | stores mapped, bounded, not opened twice, not used once freed; removals only where the block's own configuration permits |
| `service_fence` | `ServiceFence.cfg` | 1,182,790 | does the flag file break the loop of crashes, with calls of a destroyed service in flight? |
| `catalog_calls` | `CatalogCalls.cfg` | 1,800 | is what was acknowledged stored and listed? |
| `containers` | `Containers.cfg` | 40,978 | are the containers sound, and do they implement what they promise? |
| `mem_threads` | `MemDB.cfg` | 151,036 | under two threads: maps sound, iterations complete, visits atomic, no call stuck? |
| `log_atomic` | `HashLog.cfg` | 402,374 | are transactions all or nothing over a death between any two writes? |
| `codecs` | `Codecs.cfg` | 54,115 | does decoding undo encoding, and is what is computed of strings what it should be? |
| `service_unbind` | `ServiceUnbind.cfg` | violation | the first finding of section 5 |
| `service_close` | `ServiceClose.cfg` | violation | the second finding of section 5 |

Every property of a passing run has a mutant in `PROJECT.json`: a change of a modelled definition, as
a plausible bug would make it, under which the same run reports the property violated. The mutated
bodies stand before the definitions they replace, under a comment `Mutant:`.

### Bounds, and why they suffice

The models state the code's arithmetic over constants; the configurations scale the constants down,
keeping the relations between them on which the code branches.

* **Bytes.** `HeadSize`, `KeySize`, `Align`, `Frec` are a few bytes instead of 16 and more; a record is
  still header, key, value and padding to an alignment, so that sizes of several alignments occur, free
  blocks too small for a record occur, and a freed block may be exactly, more than, or less than what is
  wanted. `MaxPad` (`UINT16_MAX`) is 4 where the run is about splitting blocks with large padding and
  out of reach elsewhere.
* **File size** (`MaxFsiz`): room for two or three records and the free blocks between them, in
  `hashdb_trees` for four small ones or two large ones. Merging
  needs two adjacent free blocks, splicing a record with a free block behind it, defragmentation a free
  block before a record: all happen with three segments. `hashdb_calls` unites two instances (`Narrow`): two keys
  with three sizes in a file for three records without an iterator, and three keys with two sizes in a shorter
  file with one.
* **Pool** (`FbpMax`) 1 or 2, `AlwRat` 2, `MgFreq` 2 for 4096, `DfUnit` 0, 1 or 2: the pool overflows,
  merges and triggers defragmentation within a few calls. `SaveMax` is 1: in `store_evict` a closing cuts a pool of
  two to one. `RunSteps` 2 for `UINT8_MAX` makes a whole
  defragmentation take several rounds.
* **Keys.** `hashdb_trees` has four in one bucket, two with equal second hashes, ordered against their
  insertion: every case of the removal from the tree (leaf, one child, two children with the left one
  having right descendants or not) occurs. `OneDoubt` bounds the deaths within calls: one key is in doubt at a
  time, and any number of them one after the other. The view `WithoutCount` masks the number of records in the
  header of a file in doubt, which no operation reads. The other runs need fewer keys and more sizes.
* **Store.** Quotas of 8, 12 and 28 bytes with `MinLen` 12 for 1 MB: one is refused as too small, one
  fits about one record, one fits three. A value of 4 bytes is stored as it is, or compressed to 1 or to 6:
  `Stretch` is 2. `RateNum/RateDen` is 1/2 for 0.15, so that three records have a
  share of one, and one record a share of 0, as one to six have in the code. `Word` 65536 stands for the
  width of `unsigned long`; nothing but a wrap-around comes near it. Two instants give ties and a clock
  that is set back. `Shrinks = FALSE` in `store_evict` keeps a known flaw out (section 5): a cleared block
  is then opened again with the largest quota only.
* **Service.** `service_calls`: `Limit` 1 (for 10) with three blocks reaches the sweep and the block behind it.
  Three objects suffice for three open stores, one service for a run in which no call outlives its service. One
  operation of each kind, two configurations of which one forbids removals; the clock stands still, since its
  properties do not depend on it. `service_fence`: two services, so that openings overlap; `closeBlock`
  as the only operation, since it opens a block and closes it again; `Limit` 0; `Day` is 2 in a clock of five
  instants: shorter than, exactly, and longer than a day after a crash all occur. Services, blocks and objects are
  symmetric; no property names one.
* **Catalogs.** One key is a prefix of another, and the other is the first with a catalog behind it, so
  that records of two images may coincide in name. The catalog 12 begins with another's digit.
* **Containers.** `Unit` 2 for the 64 slots of a new list and `Period` 2 for the 256 at which it moves
  back to the front, up to `MaxSlots` 7 slots: growing at the front, growing at the back, moving, and
  none of these occur. `MaxVaried` limits the records that have another value than the plain one to one,
  which is enough to tell whose value an answer is. Five keys give splay trees of depth five and every
  rotation. `Base` 2 is the size of the integers that `addint` adds to.

* **On-memory database.** Two maps for eight and three keys, two of them in one map: a call may be
  between the maps, and two keys of a map may change places. One thread makes up to four calls, those that
  iterate, scan and visit; the other up to two of every kind, so that an iteration may begin, be disturbed
  twice and end. With `Apart = TRUE` no thread starts an iteration while another one changes or scans the
  maps (section 5).
* **Log.** Six cells are a header of two, a bucket, the saved pool, and two segments; appended records
  of one and two cells; a log of three records. A transaction may thus log a record, the bucket and the
  pool area, be cut at the old end of the file, and overflow nothing. `LogFails = {"file"}` lets the log
  record of a segment fail, which the code reports; `Leftovers` and `CommitFails` keep known flaws out
  (section 5).
* **Codecs.** The days of `DatesUndone` are those around the first of March and the turn of a year, in and out
  of leap years, 1969 and 1970, the ends of a 4-byte `time_t` and the days beyond them, and one that it takes for another.
  Alphabets have the bytes that mean something to the codec, a few that do not, and the
  extremes; `MCMaxLen` bounds each text by what the longest construct of its format takes (a comment of
  two pieces, a group of three bytes and one more, a pattern with its rotations). `ByteBits` 3 for 8, `Unit` 5,
  `DistMax` 3, `MaxStep` 3, `GroupBits` 2, `CryKeyLen` 3 and `CryStep` 2 scale the steps at which the code
  changes what it does. Keywords are words of two or three letters instead of eight and more.

Views leave out what no operation reads: the answer of the last call and, for the map, the size
counter `msiz`. The properties that mention the answer are action properties, which TLC evaluates on
every step it generates, before the view is applied. Deadlock is checked in every run: no model stops.

### Fairness

`MemDB` assumes weak fairness of every thread's steps, `WF_vars(Step(t))`: a thread that is in a call and
not kept waiting goes on. That is what the scheduler gives a thread whose locks are free, and no more:
beginning a call is not fair, and nothing is assumed of the order in which a lock serves its waiters. The
calls are bounded, so `EveryCallReturns` claims that there is no deadlock and no endless loop, not that a
lock is free of starvation.

The other specifications assume nothing. Nothing in that code waits: binder calls are run by the system
one after the other, native calls run to their end. The places where something *should* eventually happen
there (a flag file that is lifted, a block that becomes usable again) depend on clients calling again,
which the code does not promise.

## 4. What the properties say

The type invariant of `HashDB` is a conjunct of `LayoutSound`, that of `MStore` of `FileSound`, that of
`MemDB` of `MapsSound`, that of `HashLog` of `EndsAgree`; the other modules check theirs by name.

**Hash database.** `LayoutSound`, `TreesSound`, `FreeBlocksSound` and `CursorsOnSegments` are the
representation invariant in four parts; `TreesSound` also has every key hold what it was last given.
`WalkSound` says what survives a death after any single write: the file is tiled and the walk over it finds
every key not in doubt once, with its value. Eviction, listing and rebuilding go by that walk, lookups by the
tree, and `TreesSound` has the tree whole again once the file was rebuilt. `ImplementsDictionary` is the refinement to `KVStore`, where the
iterator's promise is stated with two history variables: `due`, the keys present since `iterinit` and
not touched since, and `seen`. `OnlyDataGrows` is what `mStore` relies on when it optimises a full file.

**Store.** `QuotaKept` bounds the file by the quota and the overhead of one record: the code compares
the file's length with the quota less key and value, before it adds header, time, flag, padding and what
compression makes longer. `EvictsOldest` compares every evicted record with every kept one. `EvictsItsShare` counts both attempts
of the JNI function. `ResizeHonest` relates the answer to the file, the quota in force and the header.

**Service.** `OpenIsMapped` is the heart: an open store is the one the map holds for its block, so none
is leaked, none is opened twice. `OpenStoresBounded` bounds the open stores by `Limit + 1`, the sweep
closing what it forgets and the new one being opened after it. `NoFileUnlinked` and `NoFreedStoreUsed`
are what follows for the native code. All four need that no call is in flight when the service goes
(`InFlight = FALSE`), the last one also that no client calls `closeBlock`. `RemovalsPermitted` compares the test
of a removal with the configuration that clients last *set* for the block (history `asked`): the field `co` and the
preferences, by which the code goes, also hold what other blocks left there. Of a block that no client configured nothing is
said: it takes over what `co` happens to hold.
`CrashLoopBroken` is an action property: no opening within a day of the beginning of one that killed the process,
with calls of a destroyed service in flight. It exempts what the flag file cannot fence: an opening that
another one, or the deletion of its flag by a late boot receiver, overlapped (history `mixed`; section 5).

**Catalogs.** `AcknowledgedIsIndexed`: after a `writeCatalog` that returned true, the image is stored
and its catalog listed, whatever failed or was evicted before.

**Containers.** `MapIsSound` and `TreeIsSound` are the representation invariants; `MapImplements`,
`TreeImplements` and `ListImplements` the refinements. The abstract specifications show call and answer,
so a refinement says that every answer is the right one, the iterator's included.

**On-memory database.** `MapsSound`: no interleaving breaks a map's tree, list or iterator.
`IterationComplete`: when `tcmdbiternext` says that it is at the end, every key that was ahead of the iterator
and there all along has been returned, whatever scans and visits others ran, which borrow the same iterator,
*except* those in the history `passed`: `get3`, `put3` and `putcat3` of the record the iterator stands on move that
record to the end of its map and the iterator with it, past what was ahead of it there. The run reaches such
skips; the property says that nothing else makes one. `ForeachAtomic`:
from its first map to its last, `tcmdbforeach` sees no change. `EveryCallReturns` is the liveness property.

**Transactions.** `TransactionsAtomic` is the refinement to `AtomicFile`; its `fixed` is computed from file
and log, so it says that at every single write a death would lose exactly the open transaction. `AtomicFile`
changes nothing that is seen while it is not `ready`: rolling back, however often it is interrupted, is one
step of it, and a new file is made before it is opened.
`EndsAgree`: the size in memory is the one in the header between calls. `PoolIsFree`: what the free block
pool offers, also the one an opening would load, is free.

**Codecs.** Six invariants with named conjuncts, one for each kind of text: `BytesRestored`,
`BlocksRestored`, `MarkupRestored`, `FormsRestored`, `RecordsRestored`, and `StringsRight` for what is
computed and not undone.

## 5. Findings

**A call in flight loses its file** (`service_unbind`, `NBCacheService.java:54`). `onDestroy` takes no
lock. A call in flight opens a store that is not, or no longer, in the map; when the next service
opens the block, the path lock fails the opening, and `mStore::open` answers a failed opening by
unlinking the file, which the first store still writes.

**A closed block does not open again** (`service_close`, `NBCacheService.java:250`). The comment on `CacheImp.close` says
that a cache operation after it will open the cache again (`CacheImp.java:258`). The closed object stays in the map, and
the next call on the block is handed it: `read`, `write` and `remove` answer null or false until the map is swept or
the service goes; `getAllKey` and a second `closeBlock` do not look at `sInited` and hand the freed pointer to the library.

Seen while modelling, and not given a run:

*In the service and the store*

* A cleared block forgets its quota (`mStore.h:167`). `clearAll` vanishes the file with the options in its
  header and does not store them again. The next opening compares the new quota with 0, takes it for an
  increase, and a file above the new quota stays as it is: `QuotaKept` is violated with `Shrinks = TRUE`.
* Overlapping openings are not fenced (`CacheImp.java:71`, `119`). A call in flight of a destroyed service and
  one of the next service open two blocks; the first to finish deletes the flag they share. If the other
  opening then kills the process, the next process opens that block at once. A boot receiver that comes after
  the first opening has begun deletes the flag in the same way.
* `setBlockConfig` can be undone (`NBCacheService.java:86`, `91`): a call in flight of a destroyed service, which
  found no configuration for the block, stores its own field over the one that was set meanwhile.
* A flag file that could not be deleted fences all blocks off for a day after the directory last changed, although no
  opening failed; one that could not be created fences nothing.
* The list of catalogs loses a digit (`NBCacheService.java:384`). `removeCatalog` cuts two characters where
  it appended one.
* `getCatalog` reads the data block under the bare key, where no list is kept, and removes a record it
  cannot parse there (`NBCacheService.java:267`); lists are in the index block.
* `writeCatalog` without overwriting, repeated after its index write failed, finds the image and is
  refused before it writes the index: the image stays unlisted.
* A block without a configuration takes the one that the service parsed last, not the 2 MB default of
  `ConfigObject.java:23`.
* `exFlag` is static and never reset: one opening that failed keeps every block that is not yet open
  from being opened until the process ends.
* `MultiNBCache.downGradeFlag` starts true, and `init` returns false then; `removeCatalog` of the client
  drops the result.
* The JNI function `open` ignores the result of `mStore::open`, so that a block whose file cannot be
  opened counts as initialised.
* A value longer than the quota passes the quota test of `mStore::insert` because the difference is
  unsigned. The client refuses quotas below 2 MB and a binder call carries at most 1 MB, so it takes
  another caller of `mStore` to get there.
* With the share 0.15 truncated, a store of fewer than seven records evicts nothing.
* With an 8-byte `time_t` the eviction compares eight bytes of the value, of which four are the time.
* A death within a call damages the tree of a bucket, and `tchdb.h:240` announces that a database that is not
  closed "will be broken". A tree may lead to a free block; a descent that meets one goes on with stale fields
  and may never end (`tchdbremoverec` when it looks for the last right child). A record that was written and
  not linked shows in listings, is not found by `get`, and comes back with the next optimization, over a value
  that was put later when that one lies before it in the file. The number of records in the header drifts.
  The open mark is not looked at for anything but the saved pool. A death between `unlink` and `rename` in
  `tchdboptimizeimpl` leaves an empty block.
* `tcmapaddint` and `tcmapadddouble` do not count the record they create in `msiz`, its removal does;
  `tcmapcutfront` loses the caller's iterator; `tcmapmove`, `get3`
  and `put3` within an iteration make it skip or repeat a key; `tcmdbcutfront` removes up to `num/8 + 1`
  records from each of its maps; `tctreeiterinit` on an empty tree, and `iterinit2` behind the last key,
  leave an old cursor in place. The abstract specifications say what the code does in these cases.

*In the on-memory database and the transactions*

* `tcmdbiterinit` does not lock the maps, although `tcutil.h:1457` has the object "shared by plural threads
  because of the internal mutex". Against a call that moves or frees the record it reads, the iterator may
  be left on a freed record (`Apart = FALSE`).
* The log is not always removed when its transaction is over, and then the next opening rolls back what
  was updated since (`Leftovers` with `"log"`). A failed commit leaves it too (`CommitFails`).
* When the last record of the log is torn, restoration applies the others, truncates the file, and then
  answers false; the size in memory is not read again: `EndsAgree` is violated (`Leftovers` with `"torn"`).
* `tchdbcopy` leaves the saved pool in the file, where a restoration may load it later: `PoolIsFree` is
  violated (`Leftovers` with `"pool"`). `tchdbsetbucket` ignores that its log record was not written
  (`LogFails` with `"bucket"`).

*In the codecs*

* The user data of an image record grow by a zero byte at every round trip (`ImageCache.java:93`).
* `encrypt` and `decrypt` take the length of a key that has no terminating zero when it is shorter than
  three bytes (`mStore.cpp:648`).
* `tcpackdecode` takes counts as signed: where `char` is unsigned, as on ARM, runs are misread
  (`SignedChar = FALSE`).
* `tcmimeencode` with quoted-printable leaves a question mark as it is, which ends the word when it is
  decoded. `tchexdecode` and `tcstrtokenize` read past the end after trailing blanks. A comment or CDATA
  section that is not closed repeats the text before it. An empty multipart field is reported with
  its headers as its body. An HTTP date before 1969 reads as one 1900 years later. A date more than 2^31 seconds from 1970,
  in any zone, comes back a multiple of 2^32 seconds away (`time_t` has 4 bytes in the libraries). The escape `\8` gives a zero byte and
  then an `8`.

## 6. Proofs

Eight modules hold theorems. Each theorem is about every value of the constants that the assumptions of the
module it extends allow; further hypotheses are named. They are the exact edges of the findings: what the
runs keep out because it breaks the property, the theorem has as a hypothesis.

| Theorem | Statement | Hypotheses |
|---|---|---|
| `BlockServiceProofs!TypeCorrect` | `Spec => []TypeOK` | - |
| `FenceHolds` | `Spec => CrashLoopBroken` | `~FlagFails` |
| `RemovalsArePermitted` | `Spec => []RemovalsPermitted` | `~InFlight` |
| `OpenStoresMapped` | `Spec => []OpenIsMapped` | `~InFlight` |
| `NoFileIsUnlinked` | `Spec => []NoFileUnlinked` | `~InFlight` |
| `OpenStoresFew` | `Spec => []OpenStoresBounded` | `~InFlight` |
| `FreedStoresUnused` | `Spec => []NoFreedStoreUsed` | `~InFlight`, `"closeBlock" \notin Ops` |
| `HashLogProofs!LogIsSound` | `Spec => []Inv` | - |
| `EndsAgreeAlways` | `Spec => []EndsAgree` | `"torn" \notin Leftovers` |
| `PoolIsFreeAlways` | `Spec => []PoolIsFree` | `"log"`, `"pool" \notin Leftovers` |
| `LogIsAtomic` | `Spec => TransactionsAtomic` | `"log" \notin Leftovers`, `"bucket" \notin LogFails` |
| `MemDBProofs!LocksAreHeld` | `Spec => []Inv` | - |
| `TypeCorrect` | `Spec => []TypeOK` | - |
| `ForeachIsAtomic` | `Spec => ForeachAtomic` | - |
| `OneIterates` | never two threads where the mutex `imtx` guards | - |
| `NoDeadlock` | `Spec => []SomeCallGoesOn` | - |
| `LocksGivenBack` | a thread between calls holds no lock | - |
| `MapsAreSound` | `Spec => []MapsSound` | `Apart` |
| `IterationIsComplete` | `Spec => []IterationComplete` | `Apart` |
| `ContainersProofs!MapIsSoundAlways` | `MapSpec => []MapIsSound` | - |
| `MapIsImplemented` | `MapSpec => MapImplements` | - |
| `ListIsImplemented` | `ListSpec => ListImplements` | - |
| `ImageCatalogProofs!TypeCorrect` | `Spec => []TypeOK` | - |
| `AcknowledgedAlways` | `Spec => AcknowledgedIsIndexed` | - |
| `MStoreProofs!ResizeIsHonest` | `Spec => ResizeHonest` | - |
| `HeaderTellsQuota` | `Spec => []QuotaInHeader` | - |
| `FileIsSound` | `Spec => []FileSound` | - |
| `QuotaIsKept` | `Spec => []QuotaKept` | `QuotaAmple` |
| `EvictsTheOldest` | `Spec => EvictsOldest` | - |
| `EvictsAShare` | `Spec => EvictsItsShare` | - |
| `StoreIsAMap` | `Spec => MapSteps`: each call changes what readers find as it would a map that loses what is evicted | - |

### The service

If the flag file cannot be created or deleted there is no fence. If a call may outlive its service,
`service_unbind` refutes `NoFileUnlinked`, and a call in flight may undo a `setBlockConfig`. If clients close blocks,
a second close, or a listing of keys, works on a freed store. `FenceHolds` allows any number of services and
calls in flight.

* **`FenceInv`**, for `FenceHolds`. `Lasting`: since the last crash that counts a day has passed, or the flag file is
  there and its directory no older than the beginning of the opening that crashed. `CrashLoopBroken` speaks of a step and is
  not inductive; `Lasting` says what the disk must remember between the crash and the step, and
  `FenceStops` turns it into the property. A service between fence and flag keeps it only with three more facts:
  what has passed the fence did so when a day had passed (`OpeningsAged`); two services that have passed
  it at the same time are marked (`OverlapsMixed`); and for one that is not, the flag file is where the
  constructor believes it to be, and as young (`FlagMeant`). So when an unmarked opening dies, its flag is there.
* **`Alone`** says what `~InFlight` means: a call belongs to the one service that is up. `StepOfCall` gives the frame of
  a step of a call, which is used in all of what follows.
* **`AskedInv`**, for `RemovalsArePermitted`: what a client set for a block is what the preferences hold, and a call
  is about to store the field `co` only for a block that has no entry. The test of a removal and the storing of a
  configuration are different steps of different calls; between them other blocks, sweeps, new services and deaths of the process
  change `co`, and none changes an entry that a client set.
* **`MapInv`** strengthens `OpenIsMapped`: the map and a call about to enter an object agree about its block
  (`MapMatches`, `LowerMatches`); a call that opens a block found none in the map (`MissingIs`); an open store
  is at home with a *living* service (`OpenIsHome`); and while the service is being destroyed every open store is in
  `todo` (`ClosingAll`), without which a step that clears the map (`DestroyEnd`, `Create`) would not be known
  to leave no open store behind. `NoFileUnlinked` is part of it, since an unlinked store is open.
* **`UseInv`** adds that what the map of a service that is up refers to, what a destruction has still to close, and what a
  call works on, is not freed. It gives `FreedStoresUnused`.
* **`MapBounded`**: a map holds at most `Limit + 1` blocks, and at most `Limit` while a call opens one. It is
  inductive, with or without calls in flight. `MapInv` makes the block of an open object an
  injection into the blocks of the map and the one about to be entered, which bounds the open stores.

### Transactions

* **`Inv`** of `HashLogProofs` has four parts. `Shapes` types the file, the log, the object and the step under
  way. `TranOK`: while a transaction is open the log is one that the next opening applies, it begins with
  the record of the header as it was when the file was closed, and every record lies below the size the
  file had. `BeginOK` says how far a beginning has come: a log is there before the header says "open". `RestoreOK`
  says that an undoing goes on with a log that is still whole. It holds without hypotheses: it says what the
  log *is*, whatever fails and whatever an earlier abort left behind.
* **The ends** (`EndsInv`): the size in memory is that in the header, except between the two assignments of
  a growth and where the end is read again. A log cut within a record breaks it, as section 5 says.
* **The pool** (`PoolInv`): what is saved in the file is free in the file that the next opening will *have*,
  that is, in `UndoneFile` when the log will be applied, and in the file otherwise. This is the part that
  the property does not say and a restoration needs.
* **The refinement.** Every step of `HashLog` is a step of `AtomicFile` or a stutter. The lemmas are about
  `Undone`: a write of cells whose old contents are in the log changes nothing that the undoing gives
  (`Updated`, `UndoneSame`); appending the record of what a cell now holds does not either; applying the last record and
  removing it gives the same undone file (`RecordBack`, `Restored`), so that a death in the middle of a
  restoration loses nothing; and when no record is left the file is what was promised (`AllBack`).
  Most steps stutter; a store outside a transaction is `Update`, `Commit` is the removal of the log, and
  `RollBack` is the step in which undoing begins.

### The on-memory database

* **`Inv`** of `MemDBProofs`: `Shapes`, and for each thread `CallOK` (what it carries along is of the right kind for its
  place), `MutexOK` (who is in a place that the mutex guards has it, and the object's index is the map the
  place is at) and `VisitorOK` (who collects has the locks of the maps before its own, who visits or restores has all
  of them, who releases those from its own on). Only locks are mentioned, so nothing needs to be known of the
  trees and lists of the maps. A lock for writing excludes every other lock of its map, so while a visitor is at
  work no other thread can be in a step that changes a map: `ForeachIsAtomic`. The steps of `tcmdbiterinit` take no
  map's lock, but change only an iterator, which is not what a visit sees.
* **`HoldersOK`** is the converse of these: a thread holds *nothing but* what its place says. It gives
  `LocksGivenBack`, and `NoDeadlock`: were every call waiting, let m be the last map whose lock is waited for;
  its holder is a call that waits too, for the lock of a later map, since who takes several locks takes
  them in the order of the maps, and who holds a map's lock never waits for the mutex. This is the safety
  half of `EveryCallReturns`, for any number of maps and threads; that under fairness every call does
  return stays with TLC.
* **`MapsOK`**, for `MapsAreSound`, rests on `Inv` and on the lemmas of the next section. Every map is `Intact`.
  What a thread has read and is about to store as a map's iterator (`cur` of `tcmdbiterinit`, and the
  iterators that `tcmdbforeach` collected) is a record of that map or none (`PointerOK`): the visitor's stay
  so because it holds the locks of the maps, those of `tcmdbiterinit` because no writer runs beside it
  (`ApartOK`). The latter is the hypothesis `Apart`, without which the property is false (section 5).
* **`IterationOK`**, for `IterationIsComplete`, rests on both. What is owed (`Owed`) is what is due and was not passed.
  `DueOK`: a key that is owed is ahead of the iterator in the map that the
  index names or in a later one. "Ahead" (`Reaches`, `Returns`) is a matter of positions in the order of the list. The
  place of an iterator is not always in the map: while `tcmdbforeach` has moved it, it is the place that the
  visitor keeps aside and will put back, and the records do not change then (`Owes`). `IteratorOK` says what the thread that
  iterates has seen: it leaves a map behind only while it holds that map's lock and its iterator is at the end, and
  it answers that there is nothing more only when nothing is owed. `ChangeReturns` and its companions say of every
  writing operation what becomes of what is ahead: a new record goes to the end of the list, a removal moves the
  iterator on when it stands on that record, `tcmdbput3` may move a record to the end, which is still ahead, unless the iterator stands on that record: then what
  was ahead of it is `passed`.

### The hash map

`TCMapProofs` proves, for any keys, number of buckets and pair of hash functions, what each operator of `TCMap`
does. A state says only what each slot (a bucket, a record's left or right) refers to and what each record's
neighbours are. The proofs describe it by two things that the code does not keep:

* `sub`, the set of what hangs below each record. `Tree` says that it is what the slots say, that what hangs
  on a side of a record is sought on that side, and that a bucket's tree has the records of that bucket. The
  set below a child is smaller than that below its parent, which is what the walks (`Seek`, `Rightmost`)
  end by. A removal with two children hangs the right subtree below the last right descendant of the
  left one: `sub` grows along that path by what was right, and nothing else changes.
* `ks`, the keys in the order of the list, each once (`Lists`). `Chain` relates them to first, last, `prev` and
  `next` by position.

**`Holds(m, D, ks, vs, c)`** says that the map m has the records D, in the order ks, with the values vs and
the iterator at c, with `Tree` for some `sub`. Every call has a lemma that takes `Holds` to `Holds` and says what becomes of D, ks,
vs and c (`PutHolds` to `AddIntHolds`). Their existence, `MapOK`, is the inductive invariant of the map. It gives
`MapIsSound`; and since `OrderedMap` sees just ks, vs and c, the lemmas also give `MapIsImplemented`, a step of
`OrderedMap` for each call. The property speaks of the tree and the list through the walks of `TCMap`, which are
recursive functions; that these end, and where, is the part "The recursive walks" of the module. The loops of `tcmapcutfront`, `tcmapdup` and `tcmapload` are recursive functions of the number
of turns, and are shown by induction up to a number (`Reached` in the next section is the same argument).

Assumed of the constants: what stands for "nothing" is no key and not the answer by which a callback removes
the record (`None # Discard`: `NULL` and `(void *)-1`), and `tcmdbcutfront` is not given a negative number.

### The file of the store

`HashFileProofs` proves, for any keys, hash functions, buckets, sizes of records, alignment and capacity of the pool,
what the operators of `HashFile` that `MStore` uses do to a file. Three things are said of a file; the first two have
a *hole*, the bytes from a to e that a call has taken for a record and not yet written (no hole: a = e = `fsiz`).

* **`Laid`**: the segments begin at `frec` and follow each other without gap or overlap to the end of the file, the hole apart. No
  size is read from a header that a write has covered. `Kept` adds the types of the object, and the pool.
* **`Pooled`**: a block of the pool is a run of whole free segments outside of the hole, and no two share a byte. It is a *run*,
  because merging unites two blocks in the pool and leaves both headers in the file; so a removal, a split and
  a splice have to be shown to take whole runs or none. The two sorts of the pool draw its blocks in another order
  (`Drawn`), whatever order that is; the pool never exceeds its allowance by more than one (`Room`, which is
  where `AlwRat > 1` is needed: a full pool that is shrunk must get room; it is 2 in `tchdb.c`).
* **`Indexed`**: apart from addresses, the records are trees of keys, one per bucket (`Tree`, with the set `sub` of what
  hangs below each key, as for the hash map), and `loc` says where each key's record is. A descent ends because the set below shrinks, and
  finds the record or the slot where it belongs (`FindIs`).

**`Sound`** is all three without a hole. A put takes a region and makes a hole of it (`SearchIs`, `SpliceIs`, `InsteadIs`), gives
back what it does not need (`GivenBack`), fills the hole (`FillIs`) and hangs the record in its tree (`PutIs`); what it splits
off, gives back or takes in on the way is `Kept` throughout. A removal makes a free block first and then hangs what was below
the record elsewhere: one child takes its place, of two the right one goes below the last right descendant of the left one
(`ChildLifted`, `ChildrenJoined` for trees, `RemoveIs` for files). `OptimizeIs` is an induction over the records in the order of the file,
`ClosedIs` and `SoundIs` what closing, opening and a reader make of a sound file. The walks, sorts and searches of `HashFile` are
recursive functions; `Recursion` says that one has a solution if something that lies in the naturals becomes less with each
turn, and each user names what does.

**`StoreInv`** of `MStoreProofs` is `Sound` with values that the store makes, and the types of the quota and the clock. `EvictedIs` says that
an eviction, which removes records while it walks over the file, meets at each turn a record that is still there; the
file is not sound between two writes of a call, but after each JNI call it is. From `StoreInv` follows `FileSound`, whose
`Tiled`, `Searchable` and `PoolSound` are the walks that TLC evaluates.

Assumed of the constants: what `LayoutAssumption` says of the parameters of the file (the alignment divides `frec`, the
padding that a header can hold is not less than it), and that the values the store makes have a size.

### What the store holds, and what it evicts

What a file holds is `Contents`, a set of pairs of key and value that knows nothing of addresses. A put gives `With`, a removal
`Besides`, an optimization, closing and opening the same contents (`PutIs`, `DeletedIs`, `OptimizeHolds`, `ClosedEnds`). For a
sound file it is what readers find (`FoundContents`), each key once (`HoldsIs`).

* **`EvictsTheOldest`.** The cut of `removeByFIFO` exists: if n is less than the number of records, there is a time such that
  at most n records are older and more than n are not younger (`CutExists`, by the least number of the kind). `Sifted` is the invariant of
  the iteration: what went is not younger than the cut; of what it has come to, what stays is not older, and not as old while
  `crivnum` has some left; and what went of the cut's second, with what is left of `crivnum`, is what it was at first. The children
  of the records change under the iteration, their keys, values and places do not (`SomeOf`). At the end just n records went
  (`SiftEnds`, a count by `Cut`'s two parts), so an eviction leaves a file that is `Younger`: a part of what was there, all of it
  at least as young as what went. `Younger` composes (`YoungerTrans`), so two evictions of one insert, the four turns of
  `reMaxSize` and the optimization of an opening are again such a step. `GoneOlder` turns it into the property; what an insert was
  given counts neither as gone nor as spared.
* **`EvictsAShare`** needs the number too: an attempt evicts its share or nothing (`Shared`), the second its share of what the
  first left (`TwoAtMost`), and the keys that are gone are at most as many as the records that went (`GoneCounted`).
* **`StoreIsAMap`** says of every step what it may do to what is found (`StepLeaves`). No listed run states it; it is what
  callers of the library rely on, for any sizes and hashes, whatever was evicted, killed and reopened in between.

The code does not ask for all records of a file: its rate is less than one, and `reMaxSize` is refused a quota below `MIN_FLEN`, which
is not zero (`StoreAssumption`), so the number it asks for is less than the number that is there.

### Catalogs and quota

* `AcknowledgedIsIndexed` needs that a stored list is never the empty text, whatever `removeCatalog` cut off
  before (`IsIndex` with `Texts`): from an empty text `split` gives nothing, and a number appended to it would
  be joined with nothing. The loop of `removeCatalog` (`Others`) is a recursive function over the tokens; that it is
  well defined, and that it keeps tokens only, is shown by the least index at which it would fail.
* `ResizeHonest` speaks of a step, and follows from what the loop of `reMaxSize` answers: a turn that answers
  "ok" has just compared the length of the file with the quota (`TurnDone`, `ShrunkenDone`). Nothing about the
  eviction is needed: the code does not trust it either. `QuotaInHeader` is inductive.
* **`QuotaInv`**, for `QuotaIsKept`, is `StoreInv` with a bound on the file in every state: of an open store the quota in
  force, of any other the one in its header, and when a reset took that away some quota, and so the largest. It needs
  two facts of `HashFile`, both invariants of a whole put or rebuilding and of no write in them:
  `PutGrows`, that a put makes the file longer by its record and the padding behind it, or not at all (a region that was
  free, or the record's own place, or the end of a file that was cut first); and `OptimizeEnds`,
  that a rebuilt file is no longer than it was: the records are put in the order they had, so that by induction the new file, with the first i
  of them, ends no later than the i-th of them did in the old one (`PutsWithin`; the alignment is why
  `GrownWithin` is not plain arithmetic). So an eviction, a removal, a new quota and an opening do not make a file
  longer. An insert does, after the test of `mStore::insert`. That test subtracts key and value from the quota
  *unsigned*, and knows nothing of header, time, flag and padding: `Overhead` is what it leaves out.
* The hypothesis `QuotaAmple` says what the test takes for granted: a key and a value fit in every quota, or the
  difference wraps and everything passes; an empty file is within every quota; and a block that was cleared,
  whose header then has no quota, is opened with the largest (`~Shrinks`, finding in section 5), which `reMaxSize`
  does not refuse. TLC evaluates `QuotaAmple` on the instance of `store_evict` (`MCMStore` assumes it). What
  compression may add to a value is `Stretch`, the only thing assumed of it: `SerializeValue` provides for `compressBound`.

### The array list

* **`ListOK`**: the elements lie in the slots of the array, from `start` on, and none of
  these slots is unset. `ElementList` says nothing of slots, so this is all that has to be known of a list, and
  it is enough since every answer is read from the elements.
* For each operation of `TCList` a lemma says what the elements are after it (`PushKeeps` to `LoadKeeps`),
  through `LiesIn`, the correspondence of slots and elements by number. A push and an insertion go through
  `RoomForKeeps`, an unshift in a list that begins at slot 0 through the move to the end of the grown
  array, which has a slot free because it grew by one more than the number of elements; a shift that compacts moves slots
  over themselves, which `SlotsMoved` allows for.
* The loops of `tclistinvert` and `tclistload` are recursive functions. `Reached` is induction up to
  a number, over a set instead of a predicate; with it `Turned` is what i swaps leave, and `ReadSoFar` what has been
  read. What `qsort` leaves is *an* ordered permutation; that there is one is `Sortable`, by insertion.

TLC finds `QuotaInv` (without `StoreInv`) invariant and `MapSteps` true on the instance of `store_evict`, `Alone`, `AskedInv`, `MapInv`,
`UseInv` and `MapBounded` invariant on the instance of `service_calls`, `FenceInv` on that of `service_fence`, the invariants of `HashLog` on instances of `log_atomic` with and without leftovers, and `Inv`, `HoldersOK`,
`SomeCallGoesOn` and `IterationOK` on that of `mem_threads`.

### Only model-checked

* `HashDB`. What its put, removal, rebuilding, closing and opening make of a file between two calls is in
  `HashFileProofs`; what is not is the defragmentation, which moves records over a free block that is still in the pool, and what a
  death leaves between two writes of a call (`DieWithin`).
* `TreeIsSound` and `TreeImplements`: `TCTree` has RECURSIVE operators (splaying), which no module with a theorem may
  reach.
* The codecs: what an encoder and its decoder compute for a text of any length is induction over data, in
  modules with RECURSIVE operators.
* `EveryCallReturns`: liveness under fairness, and with it ENABLED.

## 7. Plan

In this order; the last item is the only one that extends a model.

1. `BytesRestored` and the cipher of `RecordsRestored`, as far as they do not need induction over a text.
2. `DefragImpl` over `Kept`: the records move into a hole that travels through the file; with it `LayoutSound` and
   `TreesSound` for the calls of `HashDB` between which the process does not die.
3. What a call does whose descent meets a free block, with stale fields as nondeterministic choices.

## 8. Not modelled

* The request queue (`RequestQueue.java`, `CacheDispatcher.java` and what they use) is a half-converted
  fork of Volley that does not compile: `NetworkDispatcher`, `Network`, `NetworkResponse` and
  `ExecutorDelivery` do not exist in the repository, and `RequestQueue` calls a constructor that
  `CacheDispatcher` does not have. Nothing else uses it.
* The library loader, the platform layer, memory pools, file utilities and the iOS wrappers: input and
  output, or another product. Whether the native library is there is a choice of `BlockService`
  (`NoLibrary`).
* The client (`MultiNBCache.java`). As built, `downGradeFlag` starts true, so that `init` returns false and
  every call answers null or false without reaching the service: a model of it would have one state.
* The record cache, the asynchronous put and the locks of `tchdb.c`: `mStore` installs no mutex and no
  cache, and calls no asynchronous put.
* Of `tcutil.c`: extensible strings, regular expressions, the compression wrappers, MD5, arcfour, random
  numbers, templates and bit maps. The codecs of zlib are external to the value format.
* Contents of values in `MStore`: it keeps lengths; their format is in `ValueCodecs`. Reads
  (`get`, `getCount`, `getAllKey` at the store's level) change nothing in the store; the refinement to
  `KVStore` covers what a lookup finds.
* Input and output errors of the file system other than those named (a file that cannot be opened, a
  flag file that cannot be created or deleted).
