------------------------------- MODULE MapCalls --------------------------------
(***************************************************************************)
(* The calls of the hash map of jni/cpp/tcutil.c, one action for each      *)
(* group of them.                                                          *)
(***************************************************************************)
EXTENDS TCMap

CONSTANTS
  Vals,      \* the values of the records
  Plain,     \* one of them
  MaxVaried  \* bound: so many records of a container have another one

ASSUME MapCallsAssumption == Plain \in Vals /\ MaxVaried \in Nat

VARIABLES
  map,
  mapcall,  \* the last call
  mapret    \* what it returned

mapvars == <<map, mapcall, mapret>>

MapInit == map = NewMap /\ mapcall = <<"new">> /\ mapret = None

Values(m) == [k \in DOMAIN m.recs |-> m.recs[k].val]

\* The bound on the values of a container's records.
Bounded(vals) ==
  /\ \A k \in DOMAIN vals : vals[k] \in Vals
  /\ Cardinality({k \in DOMAIN vals : vals[k] # Plain}) <= MaxVaried

OnMap(c, m, answer) ==
  /\ Bounded(Values(m)) /\ map' = m /\ mapcall' = c /\ mapret' = answer

MapStores ==
  \/ \E k \in Keys, first, last \in Vals :
       /\ first \o last \in Vals
       /\ OnMap(<<"put4", k, first, last>>, MapPut4(map, k, first, last), TRUE)
  \/ \E k \in Keys, v \in Vals :
       \/ OnMap(<<"put", k, v>>, MapPut(map, k, v), TRUE)
       \/ OnMap(<<"putkeep", k, v>>, MapPutKeep(map, k, v), ~MapHas(map, k))
       \/ OnMap(<<"putcat", k, v>>, MapPutCat(map, k, v), TRUE)
       \/ OnMap(<<"put3", k, v>>, MapPut3(map, k, v), TRUE)
       \/ OnMap(<<"putcat3", k, v>>, MapPutCat3(map, k, v), TRUE)

Processed(has, v, answer) == IF has THEN answer # None ELSE v # None

\* An argument that is not looked at is None.
Looked(has, v, answer) == IF has THEN v = None ELSE answer = None

MapProcesses ==
  \E k \in Keys, v \in Vals \cup {None}, answer \in Vals \cup {None, Discard} :
    /\ Looked(MapHas(map, k), v, answer)
    /\ OnMap(<<"putproc", k, v, answer>>, MapPutProc(map, k, v, answer),
             Processed(MapHas(map, k), v, answer))

MapAdds ==
  \E k \in Keys, num \in 0 .. Base - 1 :
    OnMap(<<"addint", k, num>>, MapAddInt(map, k, num),
          ~MapHas(map, k) \/ IsInt(MapGet(map, k)))

MapReads ==
  \E k \in Keys : \/ OnMap(<<"get", k>>, map, MapGet(map, k))
                  \/ OnMap(<<"get3", k>>, MapGet3(map, k), MapGet(map, k))

MapOuts == \E k \in Keys : OnMap(<<"out", k>>, MapOut(map, k), MapHas(map, k))

MapMoves == \E k \in Keys, head \in BOOLEAN :
              OnMap(<<"move", k, head>>, MapMove(map, k, head), MapHas(map, k))

MapIterates ==
  \/ OnMap(<<"iterinit">>, MapIterInit(map), TRUE)
  \/ \E k \in Keys : OnMap(<<"iterinit2", k>>, MapIterInit2(map, k), TRUE)
  \/ OnMap(<<"iternext">>, MapIterNext(map), map.cur)

MapCuts == \/ \E num \in 0 .. map.rnum + 1 : OnMap(<<"cutfront", num>>, MapCutFront(map, num), TRUE)
           \/ OnMap(<<"clear">>, MapClear(map), TRUE)

\* The copy is used from now on.
MapCopies == \/ OnMap(<<"dup">>, MapDup(map), TRUE)
             \/ OnMap(<<"load">>, MapLoad(MapDump(map)), TRUE)

MapNext == \/ MapStores \/ MapProcesses \/ MapAdds \/ MapReads \/ MapOuts \/ MapMoves
           \/ MapIterates \/ MapCuts \/ MapCopies

MapSpec == MapInit /\ [][MapNext]_mapvars

---------------------------------------------------------------------------
(* Properties *)

\* Whatever calls were made, the list of all records can be walked in both
\* directions, every record is found from its bucket and hangs in one place,
\* and the iterator stands on a record of the map or nowhere.
MapIsSound == MapSound(map)

Ordered == INSTANCE OrderedMap
             WITH order <- Order(map), vals <- Values(map), cur <- map.cur,
                  call <- mapcall, ret <- mapret

\* To its caller the hash map is a dictionary in stored order whose iterator
\* goes to the next record when its own is removed.
MapImplements == Ordered!Spec
=============================================================================
