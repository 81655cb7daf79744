--------------------------- MODULE ContainersProofs ----------------------------
(***************************************************************************)
(* The containers of jni/cpp/tcutil.c implement what their callers see:    *)
(* the hash map is sound and a dictionary in stored order (OrderedMap),    *)
(* the array list a sequence (ElementList).  For every set of keys,        *)
(* buckets, values and elements, every pair of hash functions, and every   *)
(* unit and period of the list's array.                                    *)
(*                                                                         *)
(* The map's invariant says that it holds some records in some order       *)
(* (Holds of TCMapProofs, of which each call has a lemma there); it is     *)
(* inductive, and determines all that OrderedMap sees.  The list's says    *)
(* that it lies in its array.  For each operation of TCList a lemma says   *)
(* what the elements are after it, loops by induction on their turns, and  *)
(* with it the call is a step of ElementList.                              *)
(***************************************************************************)
EXTENDS MapCalls, ListCalls, TCMapProofs

---------------------------------------------------------------------------
(* What OrderedMap sees of a map *)

\* To the dictionary, a map that holds records has their order, their values
\* and the place of its iterator.
LEMMA Seen ==
  ASSUME NEW m, NEW D, NEW ks, NEW vs, NEW c, Holds(m, D, ks, vs, c)
  PROVE  /\ MapSound(m) /\ Order(m) = ks /\ Values(m) = vs /\ m.cur = c
         /\ DOMAIN vs = D /\ DOMAIN ks = 1 .. Len(ks) /\ m.rnum = Len(ks) /\ Len(ks) \in Nat
         /\ \A k \in Keys : MapHas(m, k) <=> k \in D
         /\ \A k \in D : m.recs[k].val = vs[k]
         /\ \A k \in Keys : MapGet(m, k) = IF k \in D THEN vs[k] ELSE None
<1>1. /\ Good(m, D, ks) /\ Lists(ks, D) /\ vs = [x \in D |-> m.recs[x].val] /\ m.cur = c
      /\ \A k \in Keys : MapHas(m, k) <=> k \in D
      /\ \A x \in D : m.recs[x].val = vs[x]
  BY HoldsFacts
<1>2. MapSound(m) /\ Order(m) = ks
  BY <1>1, GoodIsSound
<1>3. DOMAIN m.recs = D /\ m.rnum = Len(ks)
  BY <1>1, GoodMap
<1>4. ks \in Seq(D)
  BY <1>1 DEF Lists
<1> QED
  BY <1>1, <1>2, <1>3, <1>4 DEF Values, MapGet

\* RemoveAt leaves one out.
LEMMA SkippedIs ==
  ASSUME NEW D, NEW ks, Lists(ks, D), NEW i \in 1 .. Len(ks)
  PROVE  SubSeq(ks, 1, i - 1) \o SubSeq(ks, i + 1, Len(ks)) = Skipped(ks, i)
<1>1. PICK n, front, back, all, ls : /\ n = Len(ks) /\ front = SubSeq(ks, 1, i - 1)
                                      /\ back = SubSeq(ks, i + 1, n) /\ all = front \o back
                                      /\ ls = Skipped(ks, i)
  OBVIOUS
<1>2. ks \in Seq(D) /\ n \in Nat /\ i \in 1 .. n /\ \A j \in 1 .. n : ks[j] \in D
  BY <1>1 DEF Lists
<1>3. front \in Seq(D) /\ Len(front) = i - 1 /\ \A j \in 1 .. i - 1 : front[j] = ks[j]
  <2>1. PICK h : h = i - 1
    OBVIOUS
  <2>2. 1 \in Int /\ h \in Int /\ \A j \in 1 .. h : ks[j] \in D
    BY <1>2, <2>1
  <2>3. /\ SubSeq(ks, 1, h) \in Seq(D)
        /\ Len(SubSeq(ks, 1, h)) = IF 1 <= h THEN h - 1 + 1 ELSE 0
        /\ \A j \in 1 .. h - 1 + 1 : SubSeq(ks, 1, h)[j] = ks[1 + j - 1]
    BY <2>2, SubSeqProperties
  <2>4. \A j \in 1 .. h : 1 + j - 1 = j /\ j \in 1 .. h - 1 + 1
    BY <2>2
  <2> QED
    BY <1>1, <1>2, <2>1, <2>3, <2>4
<1>4. back \in Seq(D) /\ Len(back) = n - i /\ \A j \in 1 .. n - i : back[j] = ks[i + j]
  <2>1. PICK h : h = i + 1
    OBVIOUS
  <2>2. h \in Int /\ n \in Int /\ \A j \in h .. n : ks[j] \in D
    BY <1>2, <2>1
  <2>3. /\ SubSeq(ks, h, n) \in Seq(D)
        /\ Len(SubSeq(ks, h, n)) = IF h <= n THEN n - h + 1 ELSE 0
        /\ \A j \in 1 .. n - h + 1 : SubSeq(ks, h, n)[j] = ks[h + j - 1]
    BY <2>2, SubSeqProperties
  <2>4. \A j \in 1 .. n - i : h + j - 1 = i + j /\ j \in 1 .. n - h + 1
    BY <1>2, <2>1
  <2> QED
    BY <1>1, <1>2, <2>1, <2>3, <2>4
<1>5. /\ all \in Seq(D) /\ Len(all) = n - 1
      /\ \A j \in 1 .. n - 1 : all[j] = IF j <= i - 1 THEN front[j] ELSE back[j - (i - 1)]
  <2>1. /\ front \o back \in Seq(D) /\ Len(front \o back) = Len(front) + Len(back)
        /\ \A j \in 1 .. Len(front) + Len(back) :
             (front \o back)[j] = IF j <= Len(front) THEN front[j] ELSE back[j - Len(front)]
    BY <1>3, <1>4, ConcatProperties
  <2>2. Len(front) + Len(back) = n - 1
    BY <1>2, <1>3, <1>4
  <2> QED
    BY <1>1, <1>3, <2>1, <2>2
<1>6. \A j \in 1 .. n - 1 : all[j] = IF j < i THEN ks[j] ELSE ks[j + 1]
  <2>1. ASSUME NEW j \in 1 .. n - 1, j < i
        PROVE  all[j] = ks[j]
    <3>1. j <= i - 1 /\ j \in 1 .. i - 1
      BY <1>2, <2>1
    <3> QED
      BY <1>3, <1>5, <3>1
  <2>2. ASSUME NEW j \in 1 .. n - 1, ~(j < i)
        PROVE  all[j] = ks[j + 1]
    <3>1. ~(j <= i - 1) /\ j - (i - 1) \in 1 .. n - i /\ i + (j - (i - 1)) = j + 1
      BY <1>2, <2>2
    <3> QED
      BY <1>4, <1>5, <3>1
  <2> QED
    BY <2>1, <2>2
<1>7. /\ ls \in Seq(D) /\ Len(ls) = n - 1
      /\ \A j \in 1 .. n - 1 : ls[j] = IF j < i THEN ks[j] ELSE ks[j + 1]
  <2>1. IsSkip(ls, ks, i) /\ Lists(ls, D \ {ks[i]})
    BY <1>1, SkippedLists
  <2> QED
    BY <1>1, <2>1 DEF IsSkip, Lists
<1>8. all = ls
  BY <1>5, <1>6, <1>7, SeqEqual
<1> QED
  BY <1>1, <1>8

\* The dictionary finds keys, and leaves them out, where the list does.
LEMMA PlaceSeen ==
  ASSUME NEW D, NEW ks, NEW vs, NEW c, Holds(map, D, ks, vs, c), NEW k \in Keys
  PROVE  /\ Ordered!Place(k) = PlaceOf(ks, k)
         /\ Ordered!Without(k) = Dropped(ks, D, k)
         /\ k \in D => Ordered!After(k) = Behind(ks, k)
         /\ Ordered!First(ks) = Follower(ks, 0)
<1>1. /\ Order(map) = ks /\ Values(map) = vs /\ DOMAIN vs = D /\ DOMAIN ks = 1 .. Len(ks)
      /\ Len(ks) \in Nat
  BY Seen
<1>2. Ordered!Place(k) = PlaceOf(ks, k)
  BY <1>1 DEF Ordered!Place, PlaceOf
<1>3. Lists(ks, D) /\ D \subseteq Keys
  BY HoldsFacts
<1>4. ASSUME k \in D
      PROVE  Ordered!RemoveAt(ks, PlaceOf(ks, k)) = Skipped(ks, PlaceOf(ks, k))
  <2>1. PlaceOf(ks, k) \in 1 .. Len(ks)
    BY <1>3, <1>4, PlaceIs
  <2> QED
    BY <1>3, <2>1, SkippedIs DEF Ordered!RemoveAt
<1>5. Ordered!Without(k) = Dropped(ks, D, k)
  BY <1>1, <1>2, <1>4 DEF Ordered!Without, Ordered!Stored, Dropped
<1>6. k \in D => Ordered!After(k) = Behind(ks, k)
  BY <1>1, <1>2, <1>3, PlaceIs DEF Ordered!After, Behind, Follower
<1>7. Ordered!First(ks) = Follower(ks, 0)
  BY <1>1, <1>3 DEF Ordered!First, Follower, Lists
<1> QED
  BY <1>2, <1>5, <1>6, <1>7

\* The primed counterpart.
LEMMA SeenNext ==
  ASSUME NEW D, NEW ks, NEW vs, NEW c, Holds(map', D, ks, vs, c)
  PROVE  /\ (Order(map))' = ks /\ (Values(map))' = vs /\ (map.cur)' = c
<1>1. PICK m : m = map'
  OBVIOUS
<1>2. Order(m) = ks /\ Values(m) = vs /\ m.cur = c
  BY <1>1, Seen
<1>3. (Order(map))' = Order(m) /\ (Values(map))' = Values(m) /\ (map.cur)' = m.cur
  BY <1>1
<1> QED
  BY <1>2, <1>3

\* A call that changes nothing.
LEMMA SameSeen ==
  ASSUME NEW D, NEW ks, NEW vs, NEW c, Holds(map, D, ks, vs, c), map' = map, NEW answer,
         mapret' = answer
  PROVE  Ordered!Same(answer)
<1>1. Holds(map', D, ks, vs, c)
  OBVIOUS
<1> QED
  BY <1>1, Seen, SeenNext DEF Ordered!Same

\* A call that stores a record without moving it.
LEMMA PutSeen ==
  ASSUME NEW D, NEW ks, NEW vs, NEW c, Holds(map, D, ks, vs, c), NEW k \in Keys, NEW v,
         Holds(map', D \cup {k}, IF k \in D THEN ks ELSE Append(ks, k), With(vs, D, k, v), c),
         mapret' = TRUE
  PROVE  Ordered!Put(k, v)
<1>1. Order(map) = ks /\ Values(map) = vs /\ map.cur = c /\ DOMAIN vs = D
  BY Seen
<1>2. PICK ls, ws, E : ls = (IF k \in D THEN ks ELSE Append(ks, k)) /\ ws = With(vs, D, k, v) /\ E = D \cup {k}
  OBVIOUS
<1>3. (Order(map))' = ls /\ (Values(map))' = ws /\ (map.cur)' = c
  <2>1. Holds(map', E, ls, ws, c)
    BY <1>2
  <2> QED
    BY <2>1, SeenNext
<1> QED
  BY <1>1, <1>2, <1>3 DEF Ordered!Put, Ordered!Bind, Ordered!Stored, With

\* A call that stores a record at the end.
LEMMA Put3Seen ==
  ASSUME NEW D, NEW ks, NEW vs, NEW c, Holds(map, D, ks, vs, c), NEW k \in Keys, NEW v,
         Holds(map', D \cup {k}, Append(Dropped(ks, D, k), k), With(vs, D, k, v), c),
         mapret' = TRUE
  PROVE  Ordered!Put3(k, v)
<1>1. Order(map) = ks /\ Values(map) = vs /\ map.cur = c /\ DOMAIN vs = D
  BY Seen
<1>2. PICK ls, ws, E : ls = Append(Dropped(ks, D, k), k) /\ ws = With(vs, D, k, v) /\ E = D \cup {k}
  OBVIOUS
<1>3. (Order(map))' = ls /\ (Values(map))' = ws /\ (map.cur)' = c
  <2>1. Holds(map', E, ls, ws, c)
    BY <1>2
  <2> QED
    BY <2>1, SeenNext
<1>4. Ordered!Without(k) = Dropped(ks, D, k)
  BY PlaceSeen
<1> QED
  BY <1>1, <1>2, <1>3, <1>4 DEF Ordered!Put3, Ordered!Bind, Ordered!Stored, With

\* A call that removes a record.
LEMMA OutSeen ==
  ASSUME NEW D, NEW ks, NEW vs, NEW c, Holds(map, D, ks, vs, c), NEW k \in Keys, k \in D,
         Holds(map', D \ {k}, Dropped(ks, D, k), Less(vs, D, k), IF c = k THEN Behind(ks, k) ELSE c),
         mapret' = TRUE
  PROVE  Ordered!Out(k)
<1>1. Order(map) = ks /\ Values(map) = vs /\ map.cur = c /\ DOMAIN vs = D
  BY Seen
<1>2. PICK ls, ws, E, d : /\ ls = Dropped(ks, D, k) /\ ws = Less(vs, D, k) /\ E = D \ {k}
                          /\ d = IF c = k THEN Behind(ks, k) ELSE c
  OBVIOUS
<1>3. (Order(map))' = ls /\ (Values(map))' = ws /\ (map.cur)' = d
  <2>1. Holds(map', E, ls, ws, d)
    BY <1>2
  <2> QED
    BY <2>1, SeenNext
<1>4. Ordered!Without(k) = Dropped(ks, D, k) /\ Ordered!After(k) = Behind(ks, k)
  BY PlaceSeen
<1> QED
  BY <1>1, <1>2, <1>3, <1>4 DEF Ordered!Out, Ordered!Stored, Ordered!Restrict, Less

\* A call that only places the iterator.
LEMMA CurSeen ==
  ASSUME NEW D, NEW ks, NEW vs, NEW c, Holds(map, D, ks, vs, c), NEW d,
         Holds(map', D, ks, vs, d), mapret' = TRUE
  PROVE  Ordered!SetCur(d)
<1>1. Order(map) = ks /\ Values(map) = vs
  BY Seen
<1>2. (Order(map))' = ks /\ (Values(map))' = vs /\ (map.cur)' = d
  BY SeenNext
<1> QED
  BY <1>1, <1>2 DEF Ordered!SetCur

---------------------------------------------------------------------------
(* The calls *)

MapOK == \E D, ks, vs, c : Holds(map, D, ks, vs, c)

\* The calls that store a record (tcmapput, putkeep, putcat, put3, putcat3, put4).
LEMMA StoresStep ==
  ASSUME NEW D, NEW ks, NEW vs, NEW c, Holds(map, D, ks, vs, c), MapStores
  PROVE  MapOK' /\ Ordered!Next
<1>0. /\ \A k \in Keys : MapHas(map, k) <=> k \in D
      /\ Values(map) = vs /\ DOMAIN vs = D /\ Order(map) = ks
  BY Seen
<1>1. ASSUME NEW k \in Keys, NEW first \in Vals, NEW last \in Vals,
             OnMap(<<"put4", k, first, last>>, MapPut4(map, k, first, last), TRUE)
      PROVE  MapOK' /\ Ordered!Next
  <2>1. PICK v : v = first \o last
    OBVIOUS
  <2>2. map' = MapPut(map, k, v) /\ mapcall' = <<"put4", k, first, last>> /\ mapret' = TRUE
    BY <1>1, <2>1 DEF OnMap, MapPut4
  <2>3. Holds(map', D \cup {k}, IF k \in D THEN ks ELSE Append(ks, k), With(vs, D, k, v), c)
    BY <2>2, StoreHolds
  <2>4. Ordered!Put(k, v)
    BY <2>2, <2>3, PutSeen
  <2>5. Ordered!Call(<<"put4", k, first, last>>, Ordered!Put(k, first \o last))
    BY <2>1, <2>2, <2>4 DEF Ordered!Call
  <2>6. Ordered!Next
    BY <2>2, <2>5 DEF Ordered!Next
  <2> QED
    BY <2>3, <2>6 DEF MapOK
<1>2. ASSUME NEW k \in Keys, NEW v \in Vals, OnMap(<<"put", k, v>>, MapPut(map, k, v), TRUE)
      PROVE  MapOK' /\ Ordered!Next
  <2>1. map' = MapPut(map, k, v) /\ mapcall' = <<"put", k, v>> /\ mapret' = TRUE
    BY <1>2 DEF OnMap
  <2>2. Holds(map', D \cup {k}, IF k \in D THEN ks ELSE Append(ks, k), With(vs, D, k, v), c)
    BY <2>1, StoreHolds
  <2>3. Ordered!Put(k, v)
    BY <2>1, <2>2, PutSeen
  <2>4. Ordered!Call(<<"put", k, v>>, Ordered!Put(k, v))
    BY <2>1, <2>3 DEF Ordered!Call
  <2>5. Ordered!Next
    BY <2>1, <2>4 DEF Ordered!Next
  <2> QED
    BY <2>2, <2>5 DEF MapOK
<1>3. ASSUME NEW k \in Keys, NEW v \in Vals,
             OnMap(<<"putkeep", k, v>>, MapPutKeep(map, k, v), ~MapHas(map, k))
      PROVE  MapOK' /\ Ordered!Next
  <2>1. /\ map' = MapPutKeep(map, k, v) /\ mapcall' = <<"putkeep", k, v>>
        /\ mapret' = ~MapHas(map, k)
    BY <1>3 DEF OnMap
  <2>2. Ordered!PutKeep(k, v) /\ MapOK'
    <3>1. CASE k \in D
      <4>1. map' = map /\ mapret' = FALSE
        BY <1>0, <2>1, <3>1 DEF MapPutKeep
      <4>2. Ordered!Same(FALSE)
        BY <4>1, SameSeen
      <4> QED
        BY <1>0, <3>1, <4>1, <4>2 DEF Ordered!PutKeep, Ordered!Stored, MapOK
    <3>2. CASE k \notin D
      <4>1. map' = MapPut(map, k, v) /\ mapret' = TRUE
        BY <1>0, <2>1, <3>2 DEF MapPutKeep, MapPut
      <4>2. Holds(map', D \cup {k}, IF k \in D THEN ks ELSE Append(ks, k), With(vs, D, k, v), c)
        BY <4>1, StoreHolds
      <4>3. Ordered!Put(k, v)
        BY <4>1, <4>2, PutSeen
      <4> QED
        BY <1>0, <3>2, <4>2, <4>3 DEF Ordered!PutKeep, Ordered!Stored, MapOK
    <3> QED
      BY <3>1, <3>2
  <2>3. Ordered!Call(<<"putkeep", k, v>>, Ordered!PutKeep(k, v))
    BY <2>1, <2>2 DEF Ordered!Call
  <2>4. Ordered!Next
    BY <2>1, <2>3 DEF Ordered!Next
  <2> QED
    BY <2>2, <2>4
<1>4. ASSUME NEW k \in Keys, NEW v \in Vals,
             OnMap(<<"putcat", k, v>>, MapPutCat(map, k, v), TRUE)
      PROVE  MapOK' /\ Ordered!Next
  <2>1. PICK w : w = IF k \in D THEN vs[k] \o v ELSE v
    OBVIOUS
  <2>2. map' = MapPut(map, k, w) /\ mapcall' = <<"putcat", k, v>> /\ mapret' = TRUE
    BY <1>4, <2>1, CatIs DEF OnMap
  <2>3. Holds(map', D \cup {k}, IF k \in D THEN ks ELSE Append(ks, k), With(vs, D, k, w), c)
    BY <2>2, StoreHolds
  <2>4. Ordered!PutCat(k, v)
    BY <1>0, <2>1, <2>2, <2>3, PutSeen DEF Ordered!PutCat, Ordered!Whole, Ordered!Stored
  <2>5. Ordered!Call(<<"putcat", k, v>>, Ordered!PutCat(k, v))
    BY <2>2, <2>4 DEF Ordered!Call
  <2>6. Ordered!Next
    BY <2>2, <2>5 DEF Ordered!Next
  <2> QED
    BY <2>3, <2>6 DEF MapOK
<1>5. ASSUME NEW k \in Keys, NEW v \in Vals, OnMap(<<"put3", k, v>>, MapPut3(map, k, v), TRUE)
      PROVE  MapOK' /\ Ordered!Next
  <2>1. map' = MapPut3(map, k, v) /\ mapcall' = <<"put3", k, v>> /\ mapret' = TRUE
    BY <1>5 DEF OnMap
  <2>2. Holds(map', D \cup {k}, Append(Dropped(ks, D, k), k), With(vs, D, k, v), c)
    BY <2>1, StoreHolds
  <2>3. Ordered!Put3(k, v)
    BY <2>1, <2>2, Put3Seen
  <2>4. Ordered!Call(<<"put3", k, v>>, Ordered!Put3(k, v))
    BY <2>1, <2>3 DEF Ordered!Call
  <2>5. Ordered!Next
    BY <2>1, <2>4 DEF Ordered!Next
  <2> QED
    BY <2>2, <2>5 DEF MapOK
<1>6. ASSUME NEW k \in Keys, NEW v \in Vals,
             OnMap(<<"putcat3", k, v>>, MapPutCat3(map, k, v), TRUE)
      PROVE  MapOK' /\ Ordered!Next
  <2>1. PICK w : w = IF k \in D THEN vs[k] \o v ELSE v
    OBVIOUS
  <2>2. map' = MapPut3(map, k, w) /\ mapcall' = <<"putcat3", k, v>> /\ mapret' = TRUE
    BY <1>6, <2>1, CatIs DEF OnMap
  <2>3. Holds(map', D \cup {k}, Append(Dropped(ks, D, k), k), With(vs, D, k, w), c)
    BY <2>2, StoreHolds
  <2>4. Ordered!PutCat3(k, v)
    BY <1>0, <2>1, <2>2, <2>3, Put3Seen DEF Ordered!PutCat3, Ordered!Whole, Ordered!Stored
  <2>5. Ordered!Call(<<"putcat3", k, v>>, Ordered!PutCat3(k, v))
    BY <2>2, <2>4 DEF Ordered!Call
  <2>6. Ordered!Next
    BY <2>2, <2>5 DEF Ordered!Next
  <2> QED
    BY <2>3, <2>6 DEF MapOK
<1> QED
  BY <1>1, <1>2, <1>3, <1>4, <1>5, <1>6 DEF MapStores

\* tcmapputproc, whose callback keeps, replaces or removes the record.
LEMMA ProcessesStep ==
  ASSUME NEW D, NEW ks, NEW vs, NEW c, Holds(map, D, ks, vs, c), MapProcesses
  PROVE  MapOK' /\ Ordered!Next
<1>0. /\ \A k \in Keys : MapHas(map, k) <=> k \in D
      /\ Values(map) = vs /\ DOMAIN vs = D
  BY Seen
<1>1. PICK k \in Keys, v \in Vals \cup {None}, answer \in Vals \cup {None, Discard} :
        /\ Looked(MapHas(map, k), v, answer)
        /\ OnMap(<<"putproc", k, v, answer>>, MapPutProc(map, k, v, answer),
                 Processed(MapHas(map, k), v, answer))
  BY DEF MapProcesses
<1>2. /\ map' = MapPutProc(map, k, v, answer) /\ mapcall' = <<"putproc", k, v, answer>>
      /\ mapret' = IF k \in D THEN answer # None ELSE v # None
  BY <1>0, <1>1 DEF OnMap, Processed
<1>3. Ordered!PutProc(k, v, answer) /\ MapOK'
  <2>1. ASSUME map' = map, mapret' = FALSE
        PROVE  Ordered!Same(FALSE) /\ MapOK'
    BY <2>1, SameSeen DEF MapOK
  <2>2. ASSUME NEW w, map' = MapPut(map, k, w), mapret' = TRUE
        PROVE  Ordered!Put(k, w) /\ MapOK'
    <3>1. Holds(map', D \cup {k}, IF k \in D THEN ks ELSE Append(ks, k), With(vs, D, k, w), c)
      BY <2>2, StoreHolds
    <3>2. Ordered!Put(k, w)
      BY <2>2, <3>1, PutSeen
    <3> QED
      BY <3>1, <3>2 DEF MapOK
  <2>3. CASE k \notin D
    <3>1. CASE v = None
      <4>1. map' = map /\ mapret' = FALSE
        BY <1>0, <1>2, <2>3, <3>1 DEF MapPutProc
      <4> QED
        BY <1>0, <2>1, <2>3, <3>1, <4>1 DEF Ordered!PutProc, Ordered!Stored
    <3>2. CASE v # None
      <4>1. map' = MapPut(map, k, v) /\ mapret' = TRUE
        BY <1>0, <1>2, <2>3, <3>2 DEF MapPutProc, MapPut
      <4> QED
        BY <1>0, <2>2, <2>3, <3>2, <4>1 DEF Ordered!PutProc, Ordered!Stored
    <3> QED
      BY <3>1, <3>2
  <2>4. CASE k \in D /\ answer = Discard /\ answer # None
    <3>1. map' = Removed(map, k) /\ mapret' = TRUE
      BY <1>0, <1>2, <2>4 DEF MapPutProc
    <3>2. Holds(map', D \ {k}, Dropped(ks, D, k), Less(vs, D, k), IF c = k THEN Behind(ks, k) ELSE c)
      BY <2>4, <3>1, OutHolds
    <3>3. Ordered!Out(k)
      BY <2>4, <3>1, <3>2, OutSeen
    <3> QED
      BY <1>0, <2>4, <3>2, <3>3 DEF Ordered!PutProc, Ordered!Stored, MapOK
  <2>5. CASE k \in D /\ answer # Discard /\ answer = None
    <3>1. map' = map /\ mapret' = FALSE
      BY <1>0, <1>2, <2>5 DEF MapPutProc
    <3> QED
      BY <1>0, <2>1, <2>5, <3>1 DEF Ordered!PutProc, Ordered!Stored
  <2>6. CASE k \in D /\ answer # Discard /\ answer # None
    <3>1. map' = MapPut(map, k, answer) /\ mapret' = TRUE
      BY <1>0, <1>2, <2>6 DEF MapPutProc, MapPut
    <3> QED
      BY <1>0, <2>2, <2>6, <3>1 DEF Ordered!PutProc, Ordered!Stored
  <2> QED
    BY <2>3, <2>4, <2>5, <2>6, CommonAssumption
<1>4. Ordered!Call(<<"putproc", k, v, answer>>, Ordered!PutProc(k, v, answer))
  BY <1>2, <1>3 DEF Ordered!Call
<1>5. Ordered!Next
  BY <1>2, <1>4 DEF Ordered!Next
<1> QED
  BY <1>3, <1>5

\* tcmapaddint.
LEMMA AddsStep ==
  ASSUME NEW D, NEW ks, NEW vs, NEW c, Holds(map, D, ks, vs, c), MapAdds
  PROVE  MapOK' /\ Ordered!Next
<1>0. /\ \A k \in Keys : MapHas(map, k) <=> k \in D
      /\ \A k \in Keys : MapGet(map, k) = IF k \in D THEN vs[k] ELSE None
      /\ \A k \in D : map.recs[k].val = vs[k]
      /\ Values(map) = vs /\ DOMAIN vs = D
  BY Seen
<1>1. PICK k \in Keys, num \in 0 .. Base - 1 :
        OnMap(<<"addint", k, num>>, MapAddInt(map, k, num),
              ~MapHas(map, k) \/ IsInt(MapGet(map, k)))
  BY DEF MapAdds
<1>2. /\ map' = MapAddInt(map, k, num) /\ mapcall' = <<"addint", k, num>>
      /\ mapret' = (~MapHas(map, k) \/ IsInt(MapGet(map, k)))
  BY <1>1 DEF OnMap
<1>3. Ordered!AddInt(k, num) /\ MapOK'
  <2>1. ASSUME NEW w, mapret' = TRUE,
               Holds(map', D \cup {k}, IF k \in D THEN ks ELSE Append(ks, k), With(vs, D, k, w), c)
        PROVE  Ordered!Put(k, w) /\ MapOK'
    <3>1. Ordered!Put(k, w)
      BY <2>1, PutSeen
    <3> QED
      BY <2>1, <3>1 DEF MapOK
  <2>2. CASE k \notin D
    <3>1. mapret' = TRUE /\ Holds(map', D \cup {k}, Append(ks, k), With(vs, D, k, <<num>>), c)
      BY <1>0, <1>2, <2>2, AddIntHolds
    <3> QED
      BY <1>0, <2>1, <2>2, <3>1 DEF Ordered!AddInt, Ordered!Stored
  <2>3. CASE k \in D /\ IsInt(vs[k])
    <3>1. PICK w : w = Plus(vs[k], num)
      OBVIOUS
    <3>2. mapret' = TRUE /\ Holds(map', D, ks, With(vs, D, k, w), c)
      BY <1>0, <1>2, <2>3, <3>1, AddIntHolds
    <3>3. D \cup {k} = D
      BY <2>3
    <3>4. Ordered!Put(k, w) /\ MapOK'
      BY <2>1, <2>3, <3>2, <3>3
    <3>5. Ordered!Value(k) = vs[k]
      BY <1>0, <2>3 DEF Ordered!Value, Ordered!Stored
    <3> QED
      BY <1>0, <2>3, <3>1, <3>4, <3>5 DEF Ordered!AddInt, Ordered!Stored, IsInt, Plus
  <2>4. CASE k \in D /\ ~IsInt(vs[k])
    <3>1. map' = map /\ mapret' = FALSE
      <4>1. map' = map
        BY <1>2, <2>4, AddIntHolds
      <4> QED
        BY <1>0, <1>2, <2>4, <4>1 DEF IsInt
    <3>2. Ordered!Same(FALSE)
      BY <3>1, SameSeen
    <3> QED
      BY <1>0, <2>4, <3>1, <3>2 DEF Ordered!AddInt, Ordered!Stored, IsInt, MapOK
  <2> QED
    BY <2>2, <2>3, <2>4
<1>4. Ordered!Call(<<"addint", k, num>>, Ordered!AddInt(k, num))
  BY <1>2, <1>3 DEF Ordered!Call
<1>5. Ordered!Next
  BY <1>2, <1>4 DEF Ordered!Next
<1> QED
  BY <1>3, <1>5

\* tcmapget, and tcmapget3, which moves the record to the end.
LEMMA ReadsStep ==
  ASSUME NEW D, NEW ks, NEW vs, NEW c, Holds(map, D, ks, vs, c), MapReads
  PROVE  MapOK' /\ Ordered!Next
<1>0. /\ \A k \in Keys : MapHas(map, k) <=> k \in D
      /\ \A k \in Keys : MapGet(map, k) = IF k \in D THEN vs[k] ELSE None
      /\ Values(map) = vs /\ DOMAIN vs = D
  BY Seen
<1>1. ASSUME NEW k \in Keys, OnMap(<<"get", k>>, map, MapGet(map, k))
      PROVE  MapOK' /\ Ordered!Next
  <2>1. map' = map /\ mapcall' = <<"get", k>> /\ mapret' = MapGet(map, k)
    BY <1>1 DEF OnMap
  <2>2. Ordered!Get(k)
    <3>1. Ordered!Same(MapGet(map, k))
      BY <2>1, SameSeen
    <3> QED
      BY <1>0, <3>1 DEF Ordered!Get, Ordered!Value, Ordered!Stored
  <2>3. Ordered!Call(<<"get", k>>, Ordered!Get(k))
    BY <2>1, <2>2 DEF Ordered!Call
  <2>4. Ordered!Next
    BY <2>1, <2>3 DEF Ordered!Next
  <2> QED
    BY <2>1, <2>4 DEF MapOK
<1>2. ASSUME NEW k \in Keys, OnMap(<<"get3", k>>, MapGet3(map, k), MapGet(map, k))
      PROVE  MapOK' /\ Ordered!Next
  <2>1. map' = MapGet3(map, k) /\ mapcall' = <<"get3", k>> /\ mapret' = MapGet(map, k)
    BY <1>2 DEF OnMap
  <2>2. Ordered!Get3(k) /\ MapOK'
    <3>1. CASE k \in D
      <4>1. map' = ToLast(map, k) /\ mapret' = vs[k]
        BY <1>0, <2>1, <3>1 DEF MapGet3
      <4>2. Holds(map', D, Append(Dropped(ks, D, k), k), vs, c)
        BY <3>1, <4>1, LastHolds
      <4>3. /\ (Order(map))' = Append(Dropped(ks, D, k), k) /\ (Values(map))' = vs
            /\ (map.cur)' = c
        BY <4>2, SeenNext
      <4>4. map.cur = c /\ Ordered!Without(k) = Dropped(ks, D, k)
        BY Seen, PlaceSeen
      <4> QED
        BY <1>0, <3>1, <4>1, <4>2, <4>3, <4>4 DEF Ordered!Get3, Ordered!Stored, MapOK
    <3>2. CASE k \notin D
      <4>1. map' = map /\ mapret' = None
        BY <1>0, <2>1, <3>2 DEF MapGet3
      <4>2. Ordered!Same(None)
        BY <4>1, SameSeen
      <4> QED
        BY <1>0, <3>2, <4>1, <4>2 DEF Ordered!Get3, Ordered!Stored, MapOK
    <3> QED
      BY <3>1, <3>2
  <2>3. Ordered!Call(<<"get3", k>>, Ordered!Get3(k))
    BY <2>1, <2>2 DEF Ordered!Call
  <2>4. Ordered!Next
    BY <2>1, <2>3 DEF Ordered!Next
  <2> QED
    BY <2>2, <2>4
<1> QED
  BY <1>1, <1>2 DEF MapReads

\* tcmapout.
LEMMA OutsStep ==
  ASSUME NEW D, NEW ks, NEW vs, NEW c, Holds(map, D, ks, vs, c), MapOuts
  PROVE  MapOK' /\ Ordered!Next
<1>0. /\ \A k \in Keys : MapHas(map, k) <=> k \in D
      /\ Values(map) = vs /\ DOMAIN vs = D
  BY Seen
<1>1. PICK k \in Keys : OnMap(<<"out", k>>, MapOut(map, k), MapHas(map, k))
  BY DEF MapOuts
<1>2. map' = MapOut(map, k) /\ mapcall' = <<"out", k>> /\ mapret' = MapHas(map, k)
  BY <1>1 DEF OnMap
<1>3. Ordered!Out(k) /\ MapOK'
  <2>1. CASE k \in D
    <3>1. map' = Removed(map, k)
      BY <1>0, <1>2, <2>1 DEF MapOut
    <3>2. mapret' = TRUE
      BY <1>0, <1>2, <2>1 DEF MapHas
    <3>3. Holds(map', D \ {k}, Dropped(ks, D, k), Less(vs, D, k), IF c = k THEN Behind(ks, k) ELSE c)
      BY <2>1, <3>1, OutHolds
    <3>4. Ordered!Out(k)
      BY <2>1, <3>2, <3>3, OutSeen
    <3> QED
      BY <3>3, <3>4 DEF MapOK
  <2>2. CASE k \notin D
    <3>1. map' = map
      BY <1>0, <1>2, <2>2 DEF MapOut
    <3>2. mapret' = FALSE
      BY <1>0, <1>2, <2>2 DEF MapHas
    <3>3. Ordered!Same(FALSE)
      BY <3>1, <3>2, SameSeen
    <3> QED
      BY <1>0, <2>2, <3>1, <3>3 DEF Ordered!Out, Ordered!Stored, MapOK
  <2> QED
    BY <2>1, <2>2
<1>4. Ordered!Call(<<"out", k>>, Ordered!Out(k))
  BY <1>2, <1>3 DEF Ordered!Call
<1>5. Ordered!Next
  BY <1>2, <1>4 DEF Ordered!Next
<1> QED
  BY <1>3, <1>5

\* tcmapmove.
LEMMA MovesStep ==
  ASSUME NEW D, NEW ks, NEW vs, NEW c, Holds(map, D, ks, vs, c), MapMoves
  PROVE  MapOK' /\ Ordered!Next
<1>0. /\ \A k \in Keys : MapHas(map, k) <=> k \in D
      /\ Values(map) = vs /\ DOMAIN vs = D
  BY Seen
<1>1. PICK k \in Keys, head \in BOOLEAN :
        OnMap(<<"move", k, head>>, MapMove(map, k, head), MapHas(map, k))
  BY DEF MapMoves
<1>2. /\ map' = MapMove(map, k, head) /\ mapcall' = <<"move", k, head>>
      /\ mapret' = MapHas(map, k)
  BY <1>1 DEF OnMap
<1>3. Ordered!Move(k, head) /\ MapOK'
  <2>1. CASE k \in D
    <3>1. mapret' = TRUE
      BY <1>0, <1>2, <2>1 DEF MapHas
    <3>2. PICK ls : ls = IF head THEN <<k>> \o Dropped(ks, D, k) ELSE Append(Dropped(ks, D, k), k)
      OBVIOUS
    <3>3. Holds(map', D, ls, vs, c)
      <4>1. CASE head
        <5>1. map' = ToFirst(map, k)
          BY <1>0, <1>2, <2>1, <4>1 DEF MapMove
        <5>2. Holds(map', D, <<k>> \o Dropped(ks, D, k), vs, c)
          BY <2>1, <5>1, FirstHolds
        <5> QED
          BY <3>2, <4>1, <5>2
      <4>2. CASE ~head
        <5>1. map' = ToLast(map, k)
          BY <1>0, <1>2, <2>1, <4>2 DEF MapMove
        <5>2. Holds(map', D, Append(Dropped(ks, D, k), k), vs, c)
          BY <2>1, <5>1, LastHolds
        <5> QED
          BY <3>2, <4>2, <5>2
      <4> QED
        BY <4>1, <4>2
    <3>4. (Order(map))' = ls /\ (Values(map))' = vs /\ (map.cur)' = c
      BY <3>3, SeenNext
    <3>5. map.cur = c /\ Ordered!Without(k) = Dropped(ks, D, k)
      BY Seen, PlaceSeen
    <3> QED
      BY <1>0, <2>1, <3>1, <3>2, <3>3, <3>4, <3>5 DEF Ordered!Move, Ordered!Stored, MapOK
  <2>2. CASE k \notin D
    <3>1. map' = map
      BY <1>0, <1>2, <2>2 DEF MapMove
    <3>2. mapret' = FALSE
      BY <1>0, <1>2, <2>2 DEF MapHas
    <3>3. Ordered!Same(FALSE)
      BY <3>1, <3>2, SameSeen
    <3> QED
      BY <1>0, <2>2, <3>1, <3>3 DEF Ordered!Move, Ordered!Stored, MapOK
  <2> QED
    BY <2>1, <2>2
<1>4. Ordered!Call(<<"move", k, head>>, Ordered!Move(k, head))
  BY <1>2, <1>3 DEF Ordered!Call
<1>5. Ordered!Next
  BY <1>2, <1>4 DEF Ordered!Next
<1> QED
  BY <1>3, <1>5

\* The calls of the iterator.
LEMMA IteratesStep ==
  ASSUME NEW D, NEW ks, NEW vs, NEW c, Holds(map, D, ks, vs, c), MapIterates
  PROVE  MapOK' /\ Ordered!Next
<1>0. /\ Order(map) = ks /\ Values(map) = vs /\ DOMAIN vs = D /\ map.cur = c
      /\ D \subseteq Keys /\ c \in Ptr(D)
  BY Seen, HoldsFacts
<1>1. ASSUME OnMap(<<"iterinit">>, MapIterInit(map), TRUE)
      PROVE  MapOK' /\ Ordered!Next
  <2>1. map' = MapIterInit(map) /\ mapcall' = <<"iterinit">> /\ mapret' = TRUE
    BY <1>1 DEF OnMap
  <2>2. Holds(map', D, ks, vs, Follower(ks, 0))
    <3>1. Holds(MapIterInit(map), D, ks, vs, Follower(ks, 0))
      BY IterHolds
    <3> QED
      BY <2>1, <3>1
  <2>3. Ordered!SetCur(Ordered!First(Order(map)))
    <3>1. Ordered!SetCur(Follower(ks, 0))
      BY <2>1, <2>2, CurSeen
    <3>2. Ordered!First(ks) = Follower(ks, 0)
      <4>1. /\ Order(map) = ks /\ DOMAIN ks = 1 .. Len(ks) /\ Len(ks) \in Nat /\ Lists(ks, D)
        BY Seen, HoldsFacts
      <4> QED
        BY <4>1 DEF Ordered!First, Follower, Lists
    <3> QED
      BY <1>0, <3>1, <3>2
  <2>4. Ordered!Call(<<"iterinit">>, Ordered!SetCur(Ordered!First(Order(map))))
    BY <2>1, <2>3 DEF Ordered!Call
  <2>5. Ordered!Next
    BY <2>1, <2>4 DEF Ordered!Next
  <2> QED
    BY <2>2, <2>5 DEF MapOK
<1>2. ASSUME NEW k \in Keys, OnMap(<<"iterinit2", k>>, MapIterInit2(map, k), TRUE)
      PROVE  MapOK' /\ Ordered!Next
  <2>1. map' = MapIterInit2(map, k) /\ mapcall' = <<"iterinit2", k>> /\ mapret' = TRUE
    BY <1>2 DEF OnMap
  <2>2. PICK d : d = IF k \in D THEN k ELSE c
    OBVIOUS
  <2>3. Holds(map', D, ks, vs, d)
    <3>1. \A x \in Keys : Holds(MapIterInit2(map, x), D, ks, vs, IF x \in D THEN x ELSE c)
      BY IterHolds
    <3> QED
      BY <2>1, <2>2, <3>1
  <2>4. Ordered!IterInit2(k)
    <3>1. Ordered!SetCur(d)
      BY <2>1, <2>3, CurSeen
    <3> QED
      BY <1>0, <2>2, <3>1
      DEF Ordered!IterInit2, Ordered!Stored, Ordered!SetCur, Ordered!Same
  <2>5. Ordered!Call(<<"iterinit2", k>>, Ordered!IterInit2(k))
    BY <2>1, <2>4 DEF Ordered!Call
  <2>6. Ordered!Next
    BY <2>1, <2>5 DEF Ordered!Next
  <2> QED
    BY <2>3, <2>6 DEF MapOK
<1>3. ASSUME OnMap(<<"iternext">>, MapIterNext(map), map.cur)
      PROVE  MapOK' /\ Ordered!Next
  <2>1. map' = MapIterNext(map) /\ mapcall' = <<"iternext">> /\ mapret' = c
    BY <1>0, <1>3 DEF OnMap
  <2>2. PICK d : d = IF c = None THEN None ELSE Behind(ks, c)
    OBVIOUS
  <2>3. Holds(map', D, ks, vs, d)
    <3>1. Holds(MapIterNext(map), D, ks, vs, IF c = None THEN None ELSE Behind(ks, c))
      BY IterHolds
    <3> QED
      BY <2>1, <2>2, <3>1
  <2>4. (Order(map))' = ks /\ (Values(map))' = vs /\ (map.cur)' = d
    BY <2>3, SeenNext
  <2>5. c # None => Ordered!After(c) = Behind(ks, c)
    <3>1. c # None => c \in D /\ c \in Keys
      BY <1>0 DEF Ptr
    <3> QED
      BY <3>1, PlaceSeen
  <2>6. Ordered!IterNext
    BY <1>0, <2>1, <2>2, <2>4, <2>5 DEF Ordered!IterNext
  <2>7. Ordered!Call(<<"iternext">>, Ordered!IterNext)
    BY <2>1, <2>6 DEF Ordered!Call
  <2>8. Ordered!Next
    BY <2>1, <2>7 DEF Ordered!Next
  <2> QED
    BY <2>3, <2>8 DEF MapOK
<1> QED
  BY <1>1, <1>2, <1>3 DEF MapIterates

\* tcmapcutfront and tcmapclear.
LEMMA CutsStep ==
  ASSUME NEW D, NEW ks, NEW vs, NEW c, Holds(map, D, ks, vs, c), MapCuts
  PROVE  MapOK' /\ Ordered!Next
<1>0. /\ Order(map) = ks /\ Values(map) = vs /\ DOMAIN vs = D /\ map.rnum = Len(ks)
      /\ Len(ks) \in Nat /\ Lists(ks, D)
  BY Seen, HoldsFacts
<1>1. ASSUME NEW num \in 0 .. map.rnum + 1,
             OnMap(<<"cutfront", num>>, MapCutFront(map, num), TRUE)
      PROVE  MapOK' /\ Ordered!Next
  <2>1. map' = MapCutFront(map, num) /\ mapcall' = <<"cutfront", num>> /\ mapret' = TRUE
    BY <1>1 DEF OnMap
  <2>2. num \in Nat /\ num \in 0 .. Len(ks) + 1
    BY <1>0, <1>1
  <2>3. PICK rs, E, ws, d : /\ rs = Rest(ks, num) /\ E = RestKeys(ks, num) /\ ws = Of(vs, E)
                            /\ d = Follower(rs, 0)
    OBVIOUS
  <2>4. Holds(map', E, rs, ws, d)
    <3>1. LeftAfter(MapCutFront(map, num), ks, vs, num)
      BY <2>2, CutFrontHolds
    <3> QED
      BY <2>1, <2>3, <3>1 DEF LeftAfter
  <2>5. (Order(map))' = rs /\ (Values(map))' = ws /\ (map.cur)' = d
    BY <2>4, SeenNext
  <2>6. Lists(rs, E)
    BY <2>4, HoldsFacts
  <2>7. Ordered!First(rs) = d /\ Ordered!Range(rs) = E
    BY <2>3, <2>6 DEF Ordered!First, Ordered!Range, Follower, Lists
  <2>8. Ordered!CutFront(num)
    BY <1>0, <2>1, <2>3, <2>5, <2>7 DEF Ordered!CutFront, Ordered!Restrict, Rest, Of
  <2>9. Ordered!Call(<<"cutfront", num>>, Ordered!CutFront(num))
    BY <2>1, <2>8 DEF Ordered!Call
  <2>10. Ordered!Next
    BY <1>0, <2>1, <2>2, <2>9 DEF Ordered!Next
  <2> QED
    BY <2>4, <2>10 DEF MapOK
<1>2. ASSUME OnMap(<<"clear">>, MapClear(map), TRUE)
      PROVE  MapOK' /\ Ordered!Next
  <2>1. map' = NewMap /\ mapcall' = <<"clear">> /\ mapret' = TRUE
    BY <1>2 DEF OnMap, MapClear
  <2>2. Holds(map', {}, <<>>, [x \in {} |-> None], None)
    BY <2>1, NewHolds
  <2>3. (Order(map))' = <<>> /\ (Values(map))' = [x \in {} |-> None] /\ (map.cur)' = None
    BY <2>2, SeenNext
  <2>4. Ordered!Clear
    BY <2>1, <2>3 DEF Ordered!Clear
  <2>5. Ordered!Call(<<"clear">>, Ordered!Clear)
    BY <2>1, <2>4 DEF Ordered!Call
  <2>6. Ordered!Next
    BY <2>1, <2>5 DEF Ordered!Next
  <2> QED
    BY <2>2, <2>6 DEF MapOK
<1> QED
  BY <1>1, <1>2 DEF MapCuts

\* tcmapdup and tcmapload.
LEMMA CopiesStep ==
  ASSUME NEW D, NEW ks, NEW vs, NEW c, Holds(map, D, ks, vs, c), MapCopies
  PROVE  MapOK' /\ Ordered!Next
<1>1. Holds(MapDup(map), D, ks, vs, None) /\ Holds(MapLoad(MapDump(map)), D, ks, vs, None)
  BY DupHolds
<1>2. ASSUME OnMap(<<"dup">>, MapDup(map), TRUE)
      PROVE  MapOK' /\ Ordered!Next
  <2>1. map' = MapDup(map) /\ mapcall' = <<"dup">> /\ mapret' = TRUE
    BY <1>2 DEF OnMap
  <2>2. Holds(map', D, ks, vs, None)
    BY <1>1, <2>1
  <2>3. Ordered!SetCur(None)
    BY <2>1, <2>2, CurSeen
  <2>4. Ordered!Call(<<"dup">>, Ordered!SetCur(None))
    BY <2>1, <2>3 DEF Ordered!Call
  <2>5. Ordered!Next
    BY <2>1, <2>4 DEF Ordered!Next
  <2> QED
    BY <2>2, <2>5 DEF MapOK
<1>3. ASSUME OnMap(<<"load">>, MapLoad(MapDump(map)), TRUE)
      PROVE  MapOK' /\ Ordered!Next
  <2>1. map' = MapLoad(MapDump(map)) /\ mapcall' = <<"load">> /\ mapret' = TRUE
    BY <1>3 DEF OnMap
  <2>2. Holds(map', D, ks, vs, None)
    BY <1>1, <2>1
  <2>3. Ordered!SetCur(None)
    BY <2>1, <2>2, CurSeen
  <2>4. Ordered!Call(<<"load">>, Ordered!SetCur(None))
    BY <2>1, <2>3 DEF Ordered!Call
  <2>5. Ordered!Next
    BY <2>1, <2>4 DEF Ordered!Next
  <2> QED
    BY <2>2, <2>5 DEF MapOK
<1> QED
  BY <1>2, <1>3 DEF MapCopies

---------------------------------------------------------------------------
(* The theorems *)

\* Every call leaves a map in order, and is a step of the dictionary.
LEMMA MapStep ==
  ASSUME MapOK, MapNext
  PROVE  MapOK' /\ Ordered!Next
<1>1. PICK D, ks, vs, c : Holds(map, D, ks, vs, c)
  BY DEF MapOK
<1> QED
  BY <1>1, StoresStep, ProcessesStep, AddsStep, ReadsStep, OutsStep, MovesStep, IteratesStep,
     CutsStep, CopiesStep DEF MapNext

\* The map without records is in order, and is the empty dictionary.
LEMMA MapBegins ==
  ASSUME MapInit
  PROVE  MapOK /\ Ordered!Init
<1>1. Holds(map, {}, <<>>, [x \in {} |-> None], None)
  BY NewHolds DEF MapInit
<1>2. Order(map) = <<>> /\ Values(map) = [x \in {} |-> None] /\ map.cur = None
  BY <1>1, Seen
<1> QED
  BY <1>1, <1>2 DEF MapInit, MapOK, Ordered!Init

\* Whatever calls were made (tcmapput, tcmapout, tcmapcutfront, tcmapdup and the
\* others), the trees, the list and the iterator of the map are in order.
THEOREM MapIsSoundAlways == MapSpec => []MapIsSound
<1>1. MapInit => MapOK
  BY MapBegins
<1>2. MapOK /\ [MapNext]_mapvars => MapOK'
  <2>1. MapOK /\ MapNext => MapOK'
    BY MapStep
  <2>2. MapOK /\ UNCHANGED mapvars => MapOK'
    BY DEF MapOK, mapvars
  <2> QED
    BY <2>1, <2>2
<1>3. MapOK => MapIsSound
  BY Seen DEF MapOK, MapIsSound
<1> QED
  BY <1>1, <1>2, <1>3, PTL DEF MapSpec

\* To its caller the hash map is a dictionary in stored order: each call stores,
\* removes, moves and answers as OrderedMap does, and the iterator on a record
\* that is removed goes on to the next one (tcmapout, tcmapiternext).
THEOREM MapIsImplemented == MapSpec => MapImplements
<1>1. MapInit => MapOK /\ Ordered!Init
  BY MapBegins
<1>2. MapOK /\ [MapNext]_mapvars => MapOK' /\ [Ordered!Next]_(Ordered!vars)
  <2>1. MapOK /\ MapNext => MapOK' /\ Ordered!Next
    BY MapStep
  <2>2. MapOK /\ UNCHANGED mapvars => MapOK' /\ UNCHANGED Ordered!vars
    BY DEF MapOK, mapvars, Ordered!vars
  <2> QED
    BY <2>1, <2>2
<1> QED
  BY <1>1, <1>2, PTL DEF MapSpec, MapImplements, Ordered!Spec

---------------------------------------------------------------------------
(* The array list: its inductive invariant *)

ArrayOf(n) == [0 .. n - 1 -> Elems \cup {None}]

\* A list in an array of n slots.
IsList(l, n) ==
  /\ n \in Nat \ {0}
  /\ l \in [array : ArrayOf(n), start : Nat, num : Nat]
  /\ l.start + l.num <= n
  /\ \A i \in 0 .. l.num - 1 : l.array[l.start + i] \in Elems

ListOK == \E n \in Nat : IsList(list, n)

\* The number of slots.
LEMMA Slotted ==
  ASSUME NEW n \in Nat, NEW array \in ArrayOf(n)
  PROVE  Cardinality(DOMAIN array) = n
<1>1. DOMAIN array = 0 .. n - 1
  BY DEF ArrayOf
<1>2. Cardinality(0 .. n - 1) = IF 0 > n - 1 THEN 0 ELSE n - 1 - 0 + 1
  BY FS_Interval
<1> QED
  BY <1>1, <1>2

\* The elements are a sequence.
LEMMA ElementsSeq ==
  ASSUME NEW n, NEW l, IsList(l, n)
  PROVE  /\ Elements(l) \in Seq(Elems) /\ Len(Elements(l)) = l.num
         /\ DOMAIN Elements(l) = 1 .. l.num
         /\ \A i \in 1 .. l.num : Elements(l)[i] = l.array[l.start + i - 1]
<1>1. l.num \in Nat /\ l.start \in Nat
  BY DEF IsList
<1>2. \A i \in 1 .. l.num : l.array[l.start + i - 1] \in Elems
  <2>1. TAKE i \in 1 .. l.num
  <2>2. PICK j \in 0 .. l.num - 1 : j = i - 1
    BY <1>1
  <2>3. l.array[l.start + j] \in Elems
    BY DEF IsList
  <2>4. l.start + i - 1 = l.start + j
    BY <1>1, <2>2
  <2> QED
    BY <2>3, <2>4
<1>3. Elements(l) \in [1 .. l.num -> Elems]
  BY <1>2 DEF Elements
<1>4. \A i \in 1 .. l.num : Elements(l)[i] = l.array[l.start + i - 1]
  BY DEF Elements
<1>5. PICK s : s = Elements(l)
  OBVIOUS
<1>6. s \in Seq(Elems) /\ Len(s) = l.num /\ DOMAIN s = 1 .. l.num
  BY <1>1, <1>3, <1>5
<1> QED
  BY <1>4, <1>5, <1>6

\* What makes a list.
LEMMA MadeList ==
  ASSUME NEW n \in Nat, n > 0, NEW array \in ArrayOf(n), NEW start \in Nat, NEW num \in Nat,
         start + num <= n, \A i \in 0 .. num - 1 : array[start + i] \in Elems
  PROVE  IsList([array |-> array, start |-> start, num |-> num], n)
BY DEF IsList

\* What a list is made of.
LEMMA ListParts ==
  ASSUME NEW n, NEW l, IsList(l, n)
  PROVE  \E array \in ArrayOf(n), start \in Nat, num \in Nat :
           /\ l = [array |-> array, start |-> start, num |-> num] /\ start + num <= n
           /\ n \in Nat /\ n > 0 /\ DOMAIN array = 0 .. n - 1 /\ Anum(l) = n
           /\ \A i \in 0 .. num - 1 : array[start + i] \in Elems
           /\ \A i \in 0 .. n - 1 : array[i] \in Elems \cup {None}
<1>1. n \in Nat /\ n > 0 /\ l.array \in ArrayOf(n)
  BY DEF IsList
<1>2. Anum(l) = n
  BY <1>1, Slotted DEF Anum
<1>3. DOMAIN l.array = 0 .. n - 1 /\ \A i \in 0 .. n - 1 : l.array[i] \in Elems \cup {None}
  BY <1>1 DEF ArrayOf
<1>4. l = [array |-> l.array, start |-> l.start, num |-> l.num]
  BY DEF IsList
<1>5. /\ l.start \in Nat /\ l.num \in Nat /\ l.start + l.num <= n
      /\ \A i \in 0 .. l.num - 1 : l.array[l.start + i] \in Elems
  BY DEF IsList
<1> QED
  BY <1>1, <1>2, <1>3, <1>4, <1>5

\* From `start' on an array of n slots holds these elements.
LiesIn(n, array, start, num, es) ==
  /\ n \in Nat /\ n > 0 /\ array \in ArrayOf(n)
  /\ start \in Nat /\ num \in Nat /\ start + num <= n
  /\ es \in Seq(Elems) /\ Len(es) = num
  /\ \A i \in 1 .. num : array[start + i - 1] = es[i]

\* A list holds these elements.
Gives(l, es) == (\E n \in Nat : IsList(l, n)) /\ Elements(l) = es

\* Every list is an array that holds its elements.
LEMMA ListView ==
  ASSUME NEW n, NEW l, IsList(l, n)
  PROVE  \E array, start, num, es :
           /\ LiesIn(n, array, start, num, es) /\ es = Elements(l) /\ Anum(l) = n
           /\ l = [array |-> array, start |-> start, num |-> num]
           /\ l.array = array /\ l.start = start /\ l.num = num
<1>1. PICK array \in ArrayOf(n), start \in Nat, num \in Nat :
        /\ l = [array |-> array, start |-> start, num |-> num] /\ start + num <= n
        /\ n \in Nat /\ n > 0 /\ DOMAIN array = 0 .. n - 1 /\ Anum(l) = n
        /\ \A i \in 0 .. num - 1 : array[start + i] \in Elems
        /\ \A i \in 0 .. n - 1 : array[i] \in Elems \cup {None}
  BY ListParts
<1>2. l.array = array /\ l.start = start /\ l.num = num
  BY <1>1
<1>3. PICK es : es = Elements(l)
  OBVIOUS
<1>4. es \in Seq(Elems) /\ Len(es) = num /\ \A i \in 1 .. num : array[start + i - 1] = es[i]
  BY <1>2, <1>3, ElementsSeq
<1>5. LiesIn(n, array, start, num, es)
  BY <1>1, <1>4 DEF LiesIn
<1> QED
  BY <1>1, <1>2, <1>3, <1>5

\* Two sequences with the same elements are the same.
LEMMA SameSeq ==
  ASSUME NEW S, NEW s \in Seq(S), NEW T, NEW t \in Seq(T), Len(s) = Len(t),
         \A i \in 1 .. Len(s) : s[i] = t[i]
  PROVE  s = t
OBVIOUS

\* An array that holds elements makes a list of them.
LEMMA Made ==
  ASSUME NEW n, NEW array, NEW start, NEW num, NEW es, LiesIn(n, array, start, num, es)
  PROVE  Gives([array |-> array, start |-> start, num |-> num], es)
<1>0. /\ n \in Nat /\ n > 0 /\ array \in ArrayOf(n)
      /\ start \in Nat /\ num \in Nat /\ start + num <= n
      /\ es \in Seq(Elems) /\ Len(es) = num
      /\ \A i \in 1 .. num : array[start + i - 1] = es[i]
  BY DEF LiesIn
<1>1. ASSUME NEW i \in 0 .. num - 1
      PROVE  array[start + i] \in Elems
  <2>1. PICK j \in 1 .. num : j = i + 1
    BY <1>0
  <2>2. array[start + j - 1] = es[j] /\ es[j] \in Elems
    BY <1>0
  <2>3. start + j - 1 = start + i
    BY <1>0, <2>1
  <2> QED
    BY <2>2, <2>3
<1>2. PICK l : l = [array |-> array, start |-> start, num |-> num]
  OBVIOUS
<1>3. IsList(l, n)
  BY <1>0, <1>1, <1>2, MadeList
<1>4. l.num = num /\ l.array = array /\ l.start = start
  BY <1>2
<1>5. PICK t : t = Elements(l)
  OBVIOUS
<1>6. t \in Seq(Elems) /\ Len(t) = num /\ \A i \in 1 .. num : t[i] = array[start + i - 1]
  BY <1>3, <1>4, <1>5, ElementsSeq
<1>7. t = es
  <2>1. \A i \in 1 .. num : t[i] = es[i]
    BY <1>0, <1>6
  <2> QED
    BY <1>0, <1>6, <2>1, SameSeq
<1> QED
  BY <1>0, <1>2, <1>3, <1>5, <1>7 DEF Gives

\* ArrayOf are moved.
LEMMA SlotsMoved ==
  ASSUME NEW n \in Nat, NEW array \in ArrayOf(n), NEW to \in Nat, NEW from \in Nat, NEW k \in Nat,
         from + k <= n
  PROVE  /\ Memmove(array, to, from, k) \in ArrayOf(n)
         /\ \A i \in 0 .. n - 1 : Memmove(array, to, from, k)[i] =
              IF i \in to .. to + k - 1 THEN array[i - to + from] ELSE array[i]
<1>1. DOMAIN array = 0 .. n - 1 /\ \A i \in 0 .. n - 1 : array[i] \in Elems \cup {None}
  BY DEF ArrayOf
<1>2. ASSUME NEW i \in 0 .. n - 1
      PROVE  (IF i \in to .. to + k - 1 THEN array[i - to + from] ELSE array[i])
               \in Elems \cup {None}
  <2>1. i \in to .. to + k - 1 => i - to + from \in 0 .. n - 1
    OBVIOUS
  <2> QED
    BY <1>1, <2>1
<1> QED
  BY <1>1, <1>2 DEF Memmove, ArrayOf

---------------------------------------------------------------------------
(* What the operations on sequences return *)

\* An element before all others.
LEMMA Preceded ==
  ASSUME NEW S, NEW s \in Seq(S), NEW e \in S
  PROVE  /\ <<e>> \o s \in Seq(S) /\ Len(<<e>> \o s) = Len(s) + 1
         /\ \A i \in 1 .. Len(s) + 1 : (<<e>> \o s)[i] = IF i = 1 THEN e ELSE s[i - 1]
OBVIOUS

\* All elements but the first.
LEMMA Tailed ==
  ASSUME NEW S, NEW s \in Seq(S), s # <<>>
  PROVE  /\ Tail(s) \in Seq(S) /\ Len(Tail(s)) = Len(s) - 1
         /\ \A i \in 1 .. Len(s) - 1 : Tail(s)[i] = s[i + 1]
OBVIOUS

\* All elements but the last.
LEMMA Fronted ==
  ASSUME NEW S, NEW s \in Seq(S), s # <<>>
  PROVE  /\ Front(s) \in Seq(S) /\ Len(Front(s)) = Len(s) - 1
         /\ \A i \in 1 .. Len(s) - 1 : Front(s)[i] = s[i]
<1>a. Len(s) \in Nat /\ Len(s) # 0
  OBVIOUS
<1>1. PICK k \in 0 .. Len(s) : k = Len(s) - 1
  BY <1>a
<1>2. PICK t : t = SubSeq(s, 1, k)
  OBVIOUS
<1>3. t \in Seq(S) /\ Len(t) = k /\ \A i \in 1 .. k : t[i] = s[i]
  BY <1>2
<1>4. t = Front(s)
  BY <1>1, <1>2 DEF Front
<1> QED
  BY <1>1, <1>3, <1>4

\* One sequence after another.
LEMMA JoinedParts ==
  ASSUME NEW S, NEW s \in Seq(S), NEW t \in Seq(S)
  PROVE  /\ s \o t \in Seq(S) /\ Len(s \o t) = Len(s) + Len(t)
         /\ \A i \in 1 .. Len(s) + Len(t) :
              (s \o t)[i] = IF i <= Len(s) THEN s[i] ELSE t[i - Len(s)]
OBVIOUS

\* An element put in.
LEMMA Inserted ==
  ASSUME NEW S, NEW s \in Seq(S), NEW e \in S, NEW at \in 1 .. Len(s) + 1
  PROVE  /\ InsertAt(s, at, e) \in Seq(S) /\ Len(InsertAt(s, at, e)) = Len(s) + 1
         /\ \A i \in 1 .. Len(s) + 1 : InsertAt(s, at, e)[i] =
              IF i < at THEN s[i] ELSE IF i = at THEN e ELSE s[i - 1]
<1>1. PICK a : a = SubSeq(s, 1, at - 1)
  OBVIOUS
<1>2. a \in Seq(S) /\ Len(a) = at - 1 /\ \A i \in 1 .. at - 1 : a[i] = s[i]
  BY <1>1
<1>3. PICK c : c = SubSeq(s, at, Len(s))
  OBVIOUS
<1>4. c \in Seq(S) /\ Len(c) = Len(s) - at + 1 /\ \A i \in 1 .. Len(s) - at + 1 : c[i] = s[at + i - 1]
  BY <1>3
<1>5. PICK b : b = a \o <<e>>
  OBVIOUS
<1>6. b \in Seq(S) /\ Len(b) = at /\ b[at] = e /\ \A i \in 1 .. at - 1 : b[i] = s[i]
  BY <1>2, <1>5
<1>7. PICK t : t = b \o c
  OBVIOUS
<1>8. /\ t \in Seq(S) /\ Len(t) = Len(s) + 1
      /\ \A i \in 1 .. Len(s) + 1 : t[i] = IF i <= at THEN b[i] ELSE c[i - at]
  <2>1. /\ t \in Seq(S) /\ Len(t) = Len(b) + Len(c)
        /\ \A i \in 1 .. Len(b) + Len(c) : t[i] = IF i <= Len(b) THEN b[i] ELSE c[i - Len(b)]
    BY <1>4, <1>6, <1>7, JoinedParts
  <2>2. Len(b) = at /\ Len(b) + Len(c) = Len(s) + 1
    BY <1>4, <1>6
  <2> QED
    BY <2>1, <2>2
<1>9. ASSUME NEW i \in 1 .. Len(s) + 1
      PROVE  t[i] = IF i < at THEN s[i] ELSE IF i = at THEN e ELSE s[i - 1]
  <2>1. CASE i <= at
    BY <1>6, <1>8, <2>1
  <2>2. CASE i > at
    <3>1. t[i] = c[i - at]
      BY <1>8, <2>2
    <3>2. PICK j \in 1 .. Len(s) - at + 1 : j = i - at
      BY <2>2
    <3>3. c[j] = s[at + j - 1] /\ at + j - 1 = i - 1
      BY <1>4, <3>2
    <3> QED
      BY <2>2, <3>1, <3>2, <3>3
  <2> QED
    BY <2>1, <2>2
<1>10. t = InsertAt(s, at, e)
  BY <1>1, <1>3, <1>5, <1>7 DEF InsertAt
<1> QED
  BY <1>8, <1>9, <1>10

\* An element taken out.
LEMMA RemovedOne ==
  ASSUME NEW S, NEW s \in Seq(S), NEW at \in 1 .. Len(s)
  PROVE  /\ RemoveAt(s, at) \in Seq(S) /\ Len(RemoveAt(s, at)) = Len(s) - 1
         /\ \A i \in 1 .. Len(s) - 1 : RemoveAt(s, at)[i] =
              IF i < at THEN s[i] ELSE s[i + 1]
<1>1. PICK a : a = SubSeq(s, 1, at - 1)
  OBVIOUS
<1>2. a \in Seq(S) /\ Len(a) = at - 1 /\ \A i \in 1 .. at - 1 : a[i] = s[i]
  BY <1>1
<1>3. PICK c : c = SubSeq(s, at + 1, Len(s))
  OBVIOUS
<1>4. c \in Seq(S) /\ Len(c) = Len(s) - at /\ \A i \in 1 .. Len(s) - at : c[i] = s[at + i]
  BY <1>3
<1>5. PICK t : t = a \o c
  OBVIOUS
<1>6. /\ t \in Seq(S) /\ Len(t) = Len(s) - 1
      /\ \A i \in 1 .. Len(s) - 1 : t[i] = IF i < at THEN a[i] ELSE c[i - at + 1]
  BY <1>2, <1>4, <1>5
<1>7. ASSUME NEW i \in 1 .. Len(s) - 1
      PROVE  t[i] = IF i < at THEN s[i] ELSE s[i + 1]
  <2>1. CASE i < at
    BY <1>2, <1>6, <2>1
  <2>2. CASE ~(i < at)
    <3>1. PICK j \in 1 .. Len(s) - at : j = i - at + 1
      BY <2>2
    <3>2. c[j] = s[at + j] /\ at + j = i + 1
      BY <1>4, <3>1
    <3> QED
      BY <1>6, <2>2, <3>1, <3>2
  <2> QED
    BY <2>1, <2>2
<1>8. t = RemoveAt(s, at)
  BY <1>1, <1>3, <1>5 DEF RemoveAt
<1> QED
  BY <1>6, <1>7, <1>8

\* An element replaced.
LEMMA ReplacedOne ==
  ASSUME NEW S, NEW s \in Seq(S), NEW e \in S, NEW at \in 1 .. Len(s)
  PROVE  /\ ReplaceAt(s, at, e) \in Seq(S) /\ Len(ReplaceAt(s, at, e)) = Len(s)
         /\ \A i \in 1 .. Len(s) : ReplaceAt(s, at, e)[i] = IF i = at THEN e ELSE s[i]
BY DEF ReplaceAt

\* The elements from the last to the first.
LEMMA Reversed ==
  ASSUME NEW S, NEW s \in Seq(S)
  PROVE  /\ Reverse(s) \in Seq(S) /\ Len(Reverse(s)) = Len(s)
         /\ \A i \in 1 .. Len(s) : Reverse(s)[i] = s[Len(s) - i + 1]
<1>1. \A i \in 1 .. Len(s) : Len(s) - i + 1 \in 1 .. Len(s)
  OBVIOUS
<1>2. \A i \in 1 .. Len(s) : s[Len(s) - i + 1] \in S
  BY <1>1
<1>3. Reverse(s) \in [1 .. Len(s) -> S]
  BY <1>2 DEF Reverse
<1>4. \A i \in 1 .. Len(s) : Reverse(s)[i] = s[Len(s) - i + 1]
  BY DEF Reverse
<1>5. PICK t : t = Reverse(s)
  OBVIOUS
<1>6. t \in Seq(S) /\ Len(t) = Len(s)
  BY <1>3, <1>5
<1> QED
  BY <1>4, <1>5, <1>6

---------------------------------------------------------------------------
(* The calls *)

\* A list with room behind its last element.
LEMMA RoomForKeeps ==
  ASSUME NEW n, NEW l, IsList(l, n)
  PROVE  \E m, more :
           /\ LiesIn(m, more, l.start, l.num, Elements(l)) /\ l.start + l.num < m
           /\ RoomFor(l) = [array |-> more, start |-> l.start, num |-> l.num]
           /\ Anum(RoomFor(l)) = m
<1>1. PICK array, start, num, es :
        /\ LiesIn(n, array, start, num, es) /\ es = Elements(l) /\ Anum(l) = n
        /\ l = [array |-> array, start |-> start, num |-> num]
        /\ l.array = array /\ l.start = start /\ l.num = num
  BY ListView
<1>2. /\ n \in Nat /\ n > 0 /\ array \in ArrayOf(n)
      /\ start \in Nat /\ num \in Nat /\ start + num <= n
      /\ es \in Seq(Elems) /\ Len(es) = num
      /\ \A i \in 1 .. num : array[start + i - 1] = es[i]
  BY <1>1 DEF LiesIn
<1>3. CASE start + num < n
  <2>1. RoomFor(l) = l
    BY <1>1, <1>3 DEF RoomFor
  <2> QED
    BY <1>1, <1>3, <2>1
<1>4. CASE ~(start + num < n)
  <2>1. PICK m \in Nat : m = n + num + 1
    BY <1>2
  <2>2. PICK more : more = [i \in 0 .. n + num |-> IF i \in DOMAIN array THEN array[i] ELSE None]
    OBVIOUS
  <2>3. 0 .. n + num = 0 .. m - 1 /\ start + num = n /\ m > n /\ start + num < m /\ start + num <= m
    BY <1>2, <1>4, <2>1
  <2>4. RoomFor(l) = [l EXCEPT !.array = more]
    BY <1>1, <1>4, <2>2, Zenon DEF RoomFor
  <2>5. RoomFor(l) = [array |-> more, start |-> start, num |-> num]
    BY <1>1, <2>4
  <2>6. DOMAIN array = 0 .. n - 1 /\ \A i \in 0 .. n - 1 : array[i] \in Elems \cup {None}
    BY <1>2 DEF ArrayOf
  <2>7. \A i \in 0 .. n - 1 : more[i] = array[i]
    BY <1>2, <2>2, <2>6
  <2>8. more \in ArrayOf(m)
    BY <2>2, <2>3, <2>6 DEF ArrayOf
  <2>9. ASSUME NEW i \in 1 .. num
        PROVE  more[start + i - 1] = es[i]
    <3>1. start + i - 1 \in 0 .. n - 1
      BY <1>2, <2>3
    <3> QED
      BY <1>2, <2>7, <3>1
  <2>10. LiesIn(m, more, start, num, es)
    BY <1>2, <2>1, <2>3, <2>8, <2>9 DEF LiesIn
  <2>11. Anum(RoomFor(l)) = m
    BY <2>5, <2>8, Slotted DEF Anum
  <2> QED
    BY <1>1, <2>3, <2>5, <2>10, <2>11
<1> QED
  BY <1>3, <1>4

\* tclistpush appends the element.
LEMMA PushKeeps ==
  ASSUME NEW n, NEW l, IsList(l, n), NEW e \in Elems
  PROVE  Gives(ListPush(l, e), Append(Elements(l), e))
<1>1. PICK start, num, es : l.start = start /\ l.num = num /\ es = Elements(l)
  OBVIOUS
<1>2. PICK m, more :
        /\ LiesIn(m, more, start, num, es) /\ start + num < m
        /\ RoomFor(l) = [array |-> more, start |-> start, num |-> num]
  BY <1>1, RoomForKeeps
<1>3. /\ m \in Nat /\ m > 0 /\ more \in ArrayOf(m) /\ start \in Nat /\ num \in Nat
      /\ es \in Seq(Elems) /\ Len(es) = num
      /\ \A i \in 1 .. num : more[start + i - 1] = es[i]
  BY <1>2 DEF LiesIn
<1>4. PICK at \in 0 .. m - 1 : at = start + num
  BY <1>2, <1>3
<1>5. PICK new : new = [more EXCEPT ![at] = e]
  OBVIOUS
<1>6. PICK k \in Nat : k = num + 1
  BY <1>3
<1>7. ListPush(l, e) = [array |-> new, start |-> start, num |-> k]
  <2>1. PICK r : r = RoomFor(l)
    OBVIOUS
  <2>2. ListPush(l, e) = [r EXCEPT !.array[r.start + r.num] = e, !.num = @ + 1]
    BY <2>1, Zenon DEF ListPush
  <2>3. r = [array |-> more, start |-> start, num |-> num]
    BY <1>2, <2>1
  <2>4. r.array = more /\ r.start + r.num = at /\ r.num = num
    BY <1>4, <2>3
  <2>5. ListPush(l, e) = [r EXCEPT !.array[at] = e, !.num = k]
    BY <1>6, <2>2, <2>4
  <2> QED
    BY <1>5, <2>3, <2>5
<1>8. new \in ArrayOf(m) /\ \A i \in 0 .. m - 1 : new[i] = IF i = at THEN e ELSE more[i]
  BY <1>3, <1>5 DEF ArrayOf
<1>9. PICK t : t = Append(es, e)
  OBVIOUS
<1>10. t \in Seq(Elems) /\ Len(t) = k /\ t[k] = e /\ \A i \in 1 .. num : t[i] = es[i]
  BY <1>3, <1>6, <1>9
<1>11. ASSUME NEW i \in 1 .. k
       PROVE  new[start + i - 1] = t[i]
  <2>1. CASE i = k
    <3>1. start + i - 1 = at
      BY <1>3, <1>4, <1>6, <2>1
    <3> QED
      BY <1>8, <1>10, <2>1, <3>1
  <2>2. CASE i # k
    <3>1. i \in 1 .. num
      BY <1>3, <1>6, <2>2
    <3>2. start + i - 1 \in 0 .. m - 1 /\ start + i - 1 # at
      BY <1>2, <1>3, <1>4, <3>1
    <3> QED
      BY <1>3, <1>8, <1>10, <3>1, <3>2
  <2> QED
    BY <2>1, <2>2
<1>12. start + k <= m
  BY <1>2, <1>3, <1>6
<1>13. LiesIn(m, new, start, k, t)
  BY <1>3, <1>8, <1>10, <1>11, <1>12 DEF LiesIn
<1> QED
  BY <1>1, <1>7, <1>9, <1>13, Made

\* An element in the slot before the first.
LEMMA SlotBefore ==
  ASSUME NEW m, NEW array, NEW start, NEW num, NEW es, LiesIn(m, array, start, num, es),
         start > 0, NEW e \in Elems
  PROVE  Gives([array |-> [array EXCEPT ![start - 1] = e], start |-> start - 1, num |-> num + 1],
               <<e>> \o es)
<1>1. /\ m \in Nat /\ m > 0 /\ array \in ArrayOf(m)
      /\ start \in Nat /\ num \in Nat /\ start + num <= m
      /\ es \in Seq(Elems) /\ Len(es) = num
      /\ \A i \in 1 .. num : array[start + i - 1] = es[i]
  BY DEF LiesIn
<1>2. PICK at \in 0 .. m - 1 : at = start - 1
  BY <1>1
<1>3. PICK new : new = [array EXCEPT ![at] = e]
  OBVIOUS
<1>4. new \in ArrayOf(m) /\ \A i \in 0 .. m - 1 : new[i] = IF i = at THEN e ELSE array[i]
  BY <1>1, <1>3 DEF ArrayOf
<1>5. PICK k \in Nat : k = num + 1
  BY <1>1
<1>6. PICK t : t = <<e>> \o es
  OBVIOUS
<1>7. /\ t \in Seq(Elems) /\ Len(t) = k
      /\ \A i \in 1 .. k : t[i] = IF i = 1 THEN e ELSE es[i - 1]
  BY <1>1, <1>5, <1>6, Preceded
<1>8. ASSUME NEW i \in 1 .. k
      PROVE  new[at + i - 1] = t[i]
  <2>1. CASE i = 1
    <3>1. at + i - 1 = at
      BY <1>2, <2>1
    <3> QED
      BY <1>4, <1>7, <2>1, <3>1
  <2>2. CASE i # 1
    <3>1. PICK j \in 1 .. num : j = i - 1
      BY <1>1, <1>5, <2>2
    <3>2. at + i - 1 = start + j - 1 /\ at + i - 1 # at /\ at + i - 1 \in 0 .. m - 1
      BY <1>1, <1>2, <2>2, <3>1
    <3>3. array[start + j - 1] = es[j] /\ t[i] = es[j]
      BY <1>1, <1>7, <2>2, <3>1
    <3> QED
      BY <1>4, <3>2, <3>3
  <2> QED
    BY <2>1, <2>2
<1>9. at + k <= m
  BY <1>1, <1>2, <1>5
<1>10. LiesIn(m, new, at, k, t)
  BY <1>1, <1>4, <1>7, <1>8, <1>9 DEF LiesIn
<1>11. Gives([array |-> new, start |-> at, num |-> k], t)
  BY <1>10, Made
<1> QED
  BY <1>2, <1>3, <1>5, <1>6, <1>11

\* tclistunshift puts the element before all others.
LEMMA UnshiftKeeps ==
  ASSUME NEW n, NEW l, IsList(l, n), NEW e \in Elems
  PROVE  Gives(ListUnshift(l, e), <<e>> \o Elements(l))
<1>1. PICK array, start, num, es :
        /\ LiesIn(n, array, start, num, es) /\ es = Elements(l) /\ Anum(l) = n
        /\ l = [array |-> array, start |-> start, num |-> num]
        /\ l.array = array /\ l.start = start /\ l.num = num
  BY ListView
<1>2. start \in Nat /\ num \in Nat /\ es \in Seq(Elems) /\ Len(es) = num
  BY <1>1 DEF LiesIn
<1>3. CASE start >= 1
  <2>1. ~(l.start < 1)
    BY <1>1, <1>2, <1>3
  <2>2. ListUnshift(l, e) = [l EXCEPT !.array[l.start - 1] = e, !.start = @ - 1, !.num = @ + 1]
    BY <2>1, Zenon DEF ListUnshift
  <2>3. ListUnshift(l, e)
          = [array |-> [array EXCEPT ![start - 1] = e], start |-> start - 1, num |-> num + 1]
    BY <1>1, <2>2
  <2>4. start > 0
    BY <1>2, <1>3
  <2>5. Gives([array |-> [array EXCEPT ![start - 1] = e], start |-> start - 1, num |-> num + 1],
              <<e>> \o es)
    BY <1>1, <2>4, SlotBefore
  <2> QED
    BY <1>1, <2>3, <2>5
<1>4. CASE ~(start >= 1)
  <2>1. start = 0 /\ l.start < 1
    BY <1>1, <1>2, <1>4
  <2>2. PICK m, more :
          /\ LiesIn(m, more, start, num, es) /\ start + num < m
          /\ RoomFor(l) = [array |-> more, start |-> start, num |-> num]
          /\ Anum(RoomFor(l)) = m
    BY <1>1, RoomForKeeps
  <2>3. m \in Nat /\ m > 0 /\ more \in ArrayOf(m) /\ \A i \in 1 .. num : more[start + i - 1] = es[i]
    BY <2>2 DEF LiesIn
  <2>4. PICK from \in Nat : from = m - num
    BY <1>2, <2>1, <2>2, <2>3
  <2>5. from > 0 /\ from + num <= m /\ 0 + num <= m
    BY <1>2, <2>1, <2>2, <2>3, <2>4
  <2>6. PICK moved : moved = Memmove(more, from, 0, num)
    OBVIOUS
  <2>7. /\ moved \in ArrayOf(m)
        /\ \A i \in 0 .. m - 1 :
             moved[i] = IF i \in from .. from + num - 1 THEN more[i - from + 0] ELSE more[i]
    BY <1>2, <2>3, <2>5, <2>6, SlotsMoved
  <2>8. ASSUME NEW i \in 1 .. num
        PROVE  moved[from + i - 1] = es[i]
    <3>1. PICK k \in 0 .. m - 1 : k = from + i - 1
      BY <1>2, <2>3, <2>4, <2>5
    <3>2. k \in from .. from + num - 1 /\ k - from + 0 = start + i - 1
      BY <1>2, <2>1, <2>4, <3>1
    <3>3. moved[k] = more[k - from + 0]
      BY <2>7, <3>2
    <3> QED
      BY <2>3, <3>1, <3>2, <3>3
  <2>9. PICK g : g = RoomFor(l)
    OBVIOUS
  <2>10. g = [array |-> more, start |-> start, num |-> num] /\ Anum(g) - l.num = from
    BY <1>1, <2>2, <2>4, <2>9
  <2>11. PICK r : r = [g EXCEPT !.start = from, !.array = Memmove(@, from, 0, l.num)]
    OBVIOUS
  <2>12. r = [array |-> moved, start |-> from, num |-> num]
    <3>1. g.array = more
      BY <2>10
    <3>2. Memmove(g.array, from, 0, l.num) = moved
      BY <1>1, <2>6, <3>1
    <3>3. r = [g EXCEPT !.start = from, !.array = moved]
      BY <2>11, <3>2, Zenon
    <3> QED
      BY <2>10, <3>3
  <2>13. ListUnshift(l, e) = [r EXCEPT !.array[r.start - 1] = e, !.start = @ - 1, !.num = @ + 1]
    <3>1. r = [g EXCEPT !.start = Anum(g) - l.num, !.array = Memmove(@, Anum(g) - l.num, 0, l.num)]
      BY <2>10, <2>11, Zenon
    <3> QED
      BY <2>1, <2>9, <3>1, Zenon DEF ListUnshift
  <2>14. ListUnshift(l, e)
           = [array |-> [moved EXCEPT ![from - 1] = e], start |-> from - 1, num |-> num + 1]
    BY <2>12, <2>13
  <2>15. LiesIn(m, moved, from, num, es)
    BY <1>2, <2>3, <2>5, <2>7, <2>8 DEF LiesIn
  <2>16. Gives([array |-> [moved EXCEPT ![from - 1] = e], start |-> from - 1, num |-> num + 1],
               <<e>> \o es)
    BY <2>5, <2>15, SlotBefore
  <2> QED
    BY <1>1, <2>14, <2>16
<1> QED
  BY <1>3, <1>4

\* tclistpop takes the last element.
LEMMA PopKeeps ==
  ASSUME NEW n, NEW l, IsList(l, n)
  PROVE  Gives(ListPop(l), IF Elements(l) = <<>> THEN Elements(l) ELSE Front(Elements(l)))
<1>1. PICK array, start, num, es :
        /\ LiesIn(n, array, start, num, es) /\ es = Elements(l) /\ Anum(l) = n
        /\ l = [array |-> array, start |-> start, num |-> num]
        /\ l.array = array /\ l.start = start /\ l.num = num
  BY ListView
<1>2. /\ n \in Nat /\ n > 0 /\ array \in ArrayOf(n)
      /\ start \in Nat /\ num \in Nat /\ start + num <= n
      /\ es \in Seq(Elems) /\ Len(es) = num
      /\ \A i \in 1 .. num : array[start + i - 1] = es[i]
  BY <1>1 DEF LiesIn
<1>3. CASE num < 1
  <2>1. ListPop(l) = l
    BY <1>1, <1>3 DEF ListPop
  <2>2. es = <<>>
    BY <1>2, <1>3
  <2> QED
    BY <1>1, <2>1, <2>2 DEF Gives, LiesIn
<1>4. CASE ~(num < 1)
  <2>1. PICK k \in Nat : k = num - 1
    BY <1>2, <1>4
  <2>2. ListPop(l) = [array |-> array, start |-> start, num |-> k]
    BY <1>1, <1>4, <2>1 DEF ListPop
  <2>3. es # <<>>
    BY <1>2, <1>4
  <2>4. PICK t : t = Front(es)
    OBVIOUS
  <2>5. t \in Seq(Elems) /\ Len(t) = k /\ \A i \in 1 .. k : t[i] = es[i]
    BY <1>2, <2>1, <2>3, <2>4, Fronted
  <2>6. start + k <= n /\ \A i \in 1 .. k : i \in 1 .. num
    BY <1>2, <2>1
  <2>7. LiesIn(n, array, start, k, t)
    BY <1>2, <2>5, <2>6 DEF LiesIn
  <2> QED
    BY <1>1, <2>2, <2>3, <2>4, <2>7, Made
<1> QED
  BY <1>3, <1>4

\* tclistshift takes the first element, and moves the others when it compacts.
LEMMA ShiftKeeps ==
  ASSUME NEW n, NEW l, IsList(l, n)
  PROVE  Gives(ListShift(l), IF Elements(l) = <<>> THEN Elements(l) ELSE Tail(Elements(l)))
<1>1. PICK array, start, num, es :
        /\ LiesIn(n, array, start, num, es) /\ es = Elements(l) /\ Anum(l) = n
        /\ l = [array |-> array, start |-> start, num |-> num]
        /\ l.array = array /\ l.start = start /\ l.num = num
  BY ListView
<1>2. /\ n \in Nat /\ n > 0 /\ array \in ArrayOf(n)
      /\ start \in Nat /\ num \in Nat /\ start + num <= n
      /\ es \in Seq(Elems) /\ Len(es) = num
      /\ \A i \in 1 .. num : array[start + i - 1] = es[i]
  BY <1>1 DEF LiesIn
<1>3. CASE num < 1
  <2>1. ListShift(l) = l
    BY <1>1, <1>3, Zenon DEF ListShift
  <2>2. es = <<>>
    BY <1>2, <1>3
  <2> QED
    BY <1>1, <2>1, <2>2 DEF Gives, LiesIn
<1>4. CASE ~(num < 1)
  <2>1. es # <<>>
    BY <1>2, <1>4
  <2>2. PICK t : t = Tail(es)
    OBVIOUS
  <2>3. PICK k \in Nat : k = num - 1
    BY <1>2, <1>4
  <2>4. PICK first \in Nat : first = start + 1
    BY <1>2
  <2>5. t \in Seq(Elems) /\ Len(t) = k /\ \A i \in 1 .. k : t[i] = es[i + 1]
    BY <1>2, <2>1, <2>2, <2>3, Tailed
  <2>6. first + k <= n
    BY <1>2, <2>3, <2>4
  <2>7. ASSUME NEW i \in 1 .. k
        PROVE  array[first + i - 1] = t[i]
    <3>1. PICK j \in 1 .. num : j = i + 1
      BY <1>2, <2>3
    <3>2. first + i - 1 = start + j - 1
      BY <1>2, <2>4, <3>1
    <3> QED
      BY <1>2, <2>5, <3>1, <3>2
  <2>8. PICK s : s = [l EXCEPT !.start = @ + 1, !.num = @ - 1]
    OBVIOUS
  <2>9. s = [array |-> array, start |-> first, num |-> k]
    BY <1>1, <2>3, <2>4, <2>8
  <2>10. CASE s.start % Period = 0 /\ s.start > s.num \div 2
    <3>1. ListShift(l) = [s EXCEPT !.array = Memmove(@, 0, s.start, s.num), !.start = 0]
      BY <1>1, <1>4, <2>8, <2>10, Zenon DEF ListShift
    <3>2. PICK front \in Nat : front = 0
      OBVIOUS
    <3>3. PICK moved : moved = Memmove(array, front, first, k)
      OBVIOUS
    <3>4. s.array = array /\ s.start = first /\ s.num = k
      BY <2>9
    <3>5. ListShift(l) = [array |-> moved, start |-> front, num |-> k]
      <4>1. Memmove(s.array, 0, s.start, s.num) = moved
        BY <3>2, <3>3, <3>4
      <4>2. ListShift(l) = [s EXCEPT !.array = moved, !.start = 0]
        BY <3>1, <4>1, Zenon
      <4> QED
        BY <2>9, <3>2, <4>2
    <3>6. /\ moved \in ArrayOf(n)
          /\ \A i \in 0 .. n - 1 : moved[i] =
               IF i \in front .. front + k - 1 THEN array[i - front + first] ELSE array[i]
      <4>1. n \in Nat /\ array \in ArrayOf(n) /\ first + k <= n
        BY <1>2, <2>6
      <4>2. /\ Memmove(array, front, first, k) \in ArrayOf(n)
            /\ \A i \in 0 .. n - 1 : Memmove(array, front, first, k)[i] =
                 IF i \in front .. front + k - 1 THEN array[i - front + first] ELSE array[i]
        BY <4>1, SlotsMoved
      <4> QED
        BY <3>3, <4>2
    <3>7. ASSUME NEW i \in 1 .. k
          PROVE  moved[front + i - 1] = t[i]
      <4>1. PICK j \in 0 .. n - 1 : j = front + i - 1
        BY <1>2, <2>3, <3>2
      <4>2. j \in front .. front + k - 1 /\ j - front + first = first + i - 1
        BY <2>4, <4>1
      <4>3. moved[j] = array[j - front + first]
        BY <3>6, <4>2
      <4> QED
        BY <2>7, <4>1, <4>2, <4>3
    <3>8. front + k <= n
      BY <1>2, <2>3, <3>2
    <3>9. LiesIn(n, moved, front, k, t)
      BY <1>2, <2>5, <3>6, <3>7, <3>8 DEF LiesIn
    <3>10. Gives([array |-> moved, start |-> front, num |-> k], t)
      BY <3>9, Made
    <3> QED
      BY <1>1, <2>1, <2>2, <3>5, <3>10
  <2>11. CASE ~(s.start % Period = 0 /\ s.start > s.num \div 2)
    <3>1. ListShift(l) = s
      BY <1>1, <1>4, <2>8, <2>11, Zenon DEF ListShift
    <3>2. LiesIn(n, array, first, k, t)
      BY <1>2, <2>5, <2>6, <2>7 DEF LiesIn
    <3>3. Gives([array |-> array, start |-> first, num |-> k], t)
      BY <3>2, Made
    <3> QED
      BY <1>1, <2>1, <2>2, <2>9, <3>1, <3>3
  <2> QED
    BY <2>10, <2>11
<1> QED
  BY <1>3, <1>4

\* tclistinsert puts the element in and the ones behind it one slot further.
LEMMA InsertKeeps ==
  ASSUME NEW n, NEW l, IsList(l, n), NEW index \in Nat, NEW e \in Elems
  PROVE  Gives(ListInsert(l, index, e),
               IF index > Len(Elements(l)) THEN Elements(l) ELSE InsertAt(Elements(l), index + 1, e))
<1>1. PICK array, start, num, es :
        /\ LiesIn(n, array, start, num, es) /\ es = Elements(l) /\ Anum(l) = n
        /\ l = [array |-> array, start |-> start, num |-> num]
        /\ l.array = array /\ l.start = start /\ l.num = num
  BY ListView
<1>2. start \in Nat /\ num \in Nat /\ es \in Seq(Elems) /\ Len(es) = num
  BY <1>1 DEF LiesIn
<1>3. CASE index > num
  <2>1. ListInsert(l, index, e) = l
    BY <1>1, <1>3, Zenon DEF ListInsert
  <2> QED
    BY <1>1, <1>2, <1>3, <2>1 DEF Gives, LiesIn
<1>4. CASE ~(index > num)
  <2>1. PICK m, more :
          /\ LiesIn(m, more, start, num, es) /\ start + num < m
          /\ RoomFor(l) = [array |-> more, start |-> start, num |-> num]
    BY <1>1, RoomForKeeps
  <2>2. m \in Nat /\ m > 0 /\ more \in ArrayOf(m) /\ \A i \in 1 .. num : more[start + i - 1] = es[i]
    BY <2>1 DEF LiesIn
  <2>3. PICK at \in Nat : at = start + index
    BY <1>2
  <2>4. PICK next \in Nat : next = at + 1
    OBVIOUS
  <2>5. PICK k \in Nat : k = num - index
    BY <1>2, <1>4
  <2>6. PICK new \in Nat : new = num + 1
    BY <1>2
  <2>7. at + k <= m /\ start + new <= m /\ index + 1 \in 1 .. num + 1 /\ at \in 0 .. m - 1
    BY <1>2, <1>4, <2>1, <2>2, <2>3, <2>5, <2>6
  <2>8. PICK moved : moved = Memmove(more, next, at, k)
    OBVIOUS
  <2>9. /\ moved \in ArrayOf(m)
        /\ \A i \in 0 .. m - 1 : moved[i] =
             IF i \in next .. next + k - 1 THEN more[i - next + at] ELSE more[i]
    <3>1. /\ Memmove(more, next, at, k) \in ArrayOf(m)
          /\ \A i \in 0 .. m - 1 : Memmove(more, next, at, k)[i] =
               IF i \in next .. next + k - 1 THEN more[i - next + at] ELSE more[i]
      <4>1. m \in Nat /\ more \in ArrayOf(m) /\ at + k <= m
        BY <2>2, <2>7
      <4> QED
        BY <4>1, SlotsMoved
    <3> QED
      BY <2>8, <3>1
  <2>10. PICK put : put = [moved EXCEPT ![at] = e]
    OBVIOUS
  <2>11. put \in ArrayOf(m) /\ \A i \in 0 .. m - 1 : put[i] = IF i = at THEN e ELSE moved[i]
    BY <2>9, <2>10 DEF ArrayOf
  <2>12. ListInsert(l, index, e) = [array |-> put, start |-> start, num |-> new]
    <3>1. PICK r : r = RoomFor(l)
      OBVIOUS
    <3>2. ListInsert(l, index, e) =
            [r EXCEPT !.array = [Memmove(@, r.start + index + 1, r.start + index, r.num - index)
                                   EXCEPT ![r.start + index] = e], !.num = @ + 1]
      BY <1>1, <1>4, <3>1, Zenon DEF ListInsert
    <3>3. r = [array |-> more, start |-> start, num |-> num]
      BY <2>1, <3>1
    <3>4. r.array = more /\ r.start = start /\ r.num = num
      BY <3>3
    <3>5. r.start + index + 1 = next /\ r.start + index = at /\ r.num - index = k /\ r.num + 1 = new
      BY <2>3, <2>4, <2>5, <2>6, <3>4
    <3>6. [Memmove(r.array, next, at, k) EXCEPT ![at] = e] = put
      BY <2>8, <2>10, <3>4
    <3>7. ListInsert(l, index, e) = [r EXCEPT !.array = put, !.num = new]
      BY <3>2, <3>5, <3>6, Zenon
    <3> QED
      BY <3>3, <3>7
  <2>13. PICK t : t = InsertAt(es, index + 1, e)
    OBVIOUS
  <2>14. /\ t \in Seq(Elems) /\ Len(t) = new
         /\ \A i \in 1 .. new :
              t[i] = IF i < index + 1 THEN es[i] ELSE IF i = index + 1 THEN e ELSE es[i - 1]
    <3>1. PICK place \in 1 .. Len(es) + 1 : place = index + 1
      BY <1>2, <2>7
    <3>2. PICK u : u = InsertAt(es, place, e)
      OBVIOUS
    <3>3. /\ u \in Seq(Elems) /\ Len(u) = Len(es) + 1
          /\ \A i \in 1 .. Len(es) + 1 :
               u[i] = IF i < place THEN es[i] ELSE IF i = place THEN e ELSE es[i - 1]
      <4>1. es \in Seq(Elems)
        BY <1>2
      <4>2. /\ InsertAt(es, place, e) \in Seq(Elems) /\ Len(InsertAt(es, place, e)) = Len(es) + 1
            /\ \A i \in 1 .. Len(es) + 1 : InsertAt(es, place, e)[i] =
                 IF i < place THEN es[i] ELSE IF i = place THEN e ELSE es[i - 1]
        BY <4>1, Inserted
      <4> QED
        BY <3>2, <4>2
    <3>4. Len(es) + 1 = new /\ u = t
      BY <1>2, <2>6, <2>13, <3>1, <3>2
    <3> QED
      BY <3>1, <3>3, <3>4
  <2>15. ASSUME NEW i \in 1 .. new
         PROVE  put[start + i - 1] = t[i]
    <3>1. PICK j \in 0 .. m - 1 : j = start + i - 1
      BY <1>2, <2>2, <2>7
    <3>2. CASE i < index + 1
      <4>1. i \in 1 .. num /\ j # at /\ ~(j \in next .. next + k - 1)
        BY <1>2, <1>4, <2>3, <2>4, <3>1, <3>2
      <4>2. put[j] = more[j] /\ more[j] = es[i]
        BY <2>2, <2>9, <2>11, <3>1, <4>1
      <4> QED
        BY <2>14, <3>1, <3>2, <4>2
    <3>3. CASE i = index + 1
      <4>1. j = at
        BY <1>2, <2>3, <3>1, <3>3
      <4>2. put[j] = e
        BY <2>11, <4>1
      <4> QED
        BY <2>14, <3>1, <3>3, <4>2
    <3>4. CASE i > index + 1
      <4>1. PICK h \in 1 .. num : h = i - 1
        BY <1>2, <2>6, <3>4
      <4>2. j # at /\ j \in next .. next + k - 1 /\ j - next + at = start + h - 1
        BY <1>2, <1>4, <2>3, <2>4, <2>5, <2>6, <3>1, <3>4, <4>1
      <4>3. put[j] = more[j - next + at]
        BY <2>9, <2>11, <4>2
      <4>4. put[j] = es[h]
        BY <2>2, <4>2, <4>3
      <4> QED
        BY <2>14, <3>1, <3>4, <4>1, <4>4
    <3> QED
      BY <3>2, <3>3, <3>4
  <2>16. LiesIn(m, put, start, new, t)
    BY <1>2, <2>2, <2>7, <2>11, <2>14, <2>15 DEF LiesIn
  <2>17. Gives([array |-> put, start |-> start, num |-> new], t)
    BY <2>16, Made
  <2> QED
    BY <1>1, <1>2, <1>4, <2>12, <2>13, <2>17
<1> QED
  BY <1>3, <1>4

\* tclistremove takes the element out and moves the ones behind it one slot back.
LEMMA RemoveKeeps ==
  ASSUME NEW n, NEW l, IsList(l, n), NEW index \in Nat
  PROVE  Gives(ListRemove(l, index),
               IF index >= Len(Elements(l)) THEN Elements(l) ELSE RemoveAt(Elements(l), index + 1))
<1>1. PICK array, start, num, es :
        /\ LiesIn(n, array, start, num, es) /\ es = Elements(l) /\ Anum(l) = n
        /\ l = [array |-> array, start |-> start, num |-> num]
        /\ l.array = array /\ l.start = start /\ l.num = num
  BY ListView
<1>2. /\ n \in Nat /\ n > 0 /\ array \in ArrayOf(n)
      /\ start \in Nat /\ num \in Nat /\ start + num <= n
      /\ es \in Seq(Elems) /\ Len(es) = num
      /\ \A i \in 1 .. num : array[start + i - 1] = es[i]
  BY <1>1 DEF LiesIn
<1>3. CASE index >= num
  <2>1. ListRemove(l, index) = l
    BY <1>1, <1>3, Zenon DEF ListRemove
  <2> QED
    BY <1>1, <1>2, <1>3, <2>1 DEF Gives
<1>4. CASE ~(index >= num)
  <2>1. PICK at \in Nat : at = start + index
    BY <1>2
  <2>2. PICK next \in Nat : next = at + 1
    OBVIOUS
  <2>3. PICK k \in Nat : k = num - 1 - index
    BY <1>2, <1>4
  <2>4. PICK less \in Nat : less = num - 1
    BY <1>2, <1>4
  <2>5. next + k <= n /\ start + less <= n /\ index + 1 \in 1 .. num
    BY <1>2, <1>4, <2>1, <2>2, <2>3, <2>4
  <2>6. PICK moved : moved = Memmove(array, at, next, k)
    OBVIOUS
  <2>7. /\ moved \in ArrayOf(n)
        /\ \A i \in 0 .. n - 1 : moved[i] =
             IF i \in at .. at + k - 1 THEN array[i - at + next] ELSE array[i]
    <3>1. /\ Memmove(array, at, next, k) \in ArrayOf(n)
          /\ \A i \in 0 .. n - 1 : Memmove(array, at, next, k)[i] =
               IF i \in at .. at + k - 1 THEN array[i - at + next] ELSE array[i]
      <4>1. n \in Nat /\ array \in ArrayOf(n) /\ next + k <= n
        BY <1>2, <2>5
      <4> QED
        BY <4>1, SlotsMoved
    <3> QED
      BY <2>6, <3>1
  <2>8. ListRemove(l, index) = [array |-> moved, start |-> start, num |-> less]
    <3>1. ListRemove(l, index) =
            [l EXCEPT !.array = Memmove(@, l.start + index, l.start + index + 1, l.num - 1 - index),
                      !.num = @ - 1]
      BY <1>1, <1>4, Zenon DEF ListRemove
    <3>2. l.start + index = at /\ l.start + index + 1 = next /\ l.num - 1 - index = k /\ l.num - 1 = less
      BY <1>1, <2>1, <2>2, <2>3, <2>4
    <3>3. Memmove(l.array, at, next, k) = moved
      BY <1>1, <2>6
    <3>4. ListRemove(l, index) = [l EXCEPT !.array = moved, !.num = less]
      BY <3>1, <3>2, <3>3, Zenon
    <3> QED
      BY <1>1, <3>4
  <2>9. PICK t : t = RemoveAt(es, index + 1)
    OBVIOUS
  <2>10. /\ t \in Seq(Elems) /\ Len(t) = less
         /\ \A i \in 1 .. less : t[i] = IF i < index + 1 THEN es[i] ELSE es[i + 1]
    BY <1>2, <2>4, <2>5, <2>9, RemovedOne
  <2>11. ASSUME NEW i \in 1 .. less
         PROVE  moved[start + i - 1] = t[i]
    <3>1. PICK j \in 0 .. n - 1 : j = start + i - 1
      BY <1>2, <2>4
    <3>2. CASE i < index + 1
      <4>1. i \in 1 .. num /\ ~(j \in at .. at + k - 1)
        BY <1>2, <1>4, <2>1, <3>1, <3>2
      <4>2. moved[j] = array[j] /\ array[j] = es[i]
        BY <1>2, <2>7, <3>1, <4>1
      <4> QED
        BY <2>10, <3>1, <3>2, <4>2
    <3>3. CASE ~(i < index + 1)
      <4>1. PICK h \in 1 .. num : h = i + 1
        BY <1>2, <2>4
      <4>2. j \in at .. at + k - 1 /\ j - at + next = start + h - 1
        BY <1>2, <2>1, <2>2, <2>3, <2>4, <3>1, <3>3, <4>1
      <4>3. moved[j] = array[j - at + next]
        BY <2>7, <4>2
      <4>4. moved[j] = es[h]
        BY <1>2, <4>2, <4>3
      <4> QED
        BY <2>10, <3>1, <3>3, <4>1, <4>4
    <3> QED
      BY <3>2, <3>3
  <2>12. LiesIn(n, moved, start, less, t)
    BY <1>2, <2>5, <2>7, <2>10, <2>11 DEF LiesIn
  <2>13. Gives([array |-> moved, start |-> start, num |-> less], t)
    BY <2>12, Made
  <2> QED
    BY <1>1, <1>2, <1>4, <2>8, <2>9, <2>13
<1> QED
  BY <1>3, <1>4

\* tclistover replaces the element.
LEMMA OverKeeps ==
  ASSUME NEW n, NEW l, IsList(l, n), NEW index \in Nat, NEW e \in Elems
  PROVE  Gives(ListOver(l, index, e),
               IF index >= Len(Elements(l)) THEN Elements(l) ELSE ReplaceAt(Elements(l), index + 1, e))
<1>1. PICK array, start, num, es :
        /\ LiesIn(n, array, start, num, es) /\ es = Elements(l) /\ Anum(l) = n
        /\ l = [array |-> array, start |-> start, num |-> num]
        /\ l.array = array /\ l.start = start /\ l.num = num
  BY ListView
<1>2. /\ n \in Nat /\ n > 0 /\ array \in ArrayOf(n)
      /\ start \in Nat /\ num \in Nat /\ start + num <= n
      /\ es \in Seq(Elems) /\ Len(es) = num
      /\ \A i \in 1 .. num : array[start + i - 1] = es[i]
  BY <1>1 DEF LiesIn
<1>3. CASE index >= num
  <2>1. ListOver(l, index, e) = l
    BY <1>1, <1>3, Zenon DEF ListOver
  <2> QED
    BY <1>1, <1>2, <1>3, <2>1 DEF Gives
<1>4. CASE ~(index >= num)
  <2>1. PICK at \in 0 .. n - 1 : at = start + index
    BY <1>2, <1>4
  <2>2. PICK put : put = [array EXCEPT ![at] = e]
    OBVIOUS
  <2>3. put \in ArrayOf(n) /\ \A i \in 0 .. n - 1 : put[i] = IF i = at THEN e ELSE array[i]
    BY <1>2, <2>2 DEF ArrayOf
  <2>4. ListOver(l, index, e) = [array |-> put, start |-> start, num |-> num]
    <3>1. ListOver(l, index, e) = [l EXCEPT !.array[l.start + index] = e]
      BY <1>1, <1>4, Zenon DEF ListOver
    <3>2. l.start + index = at
      BY <1>1, <2>1
    <3>3. ListOver(l, index, e) = [l EXCEPT !.array = put]
      BY <1>1, <2>2, <3>1, <3>2
    <3> QED
      BY <1>1, <3>3
  <2>5. PICK t : t = ReplaceAt(es, index + 1, e)
    OBVIOUS
  <2>6. index + 1 \in 1 .. Len(es)
    BY <1>2, <1>4
  <2>7. /\ t \in Seq(Elems) /\ Len(t) = num
        /\ \A i \in 1 .. num : t[i] = IF i = index + 1 THEN e ELSE es[i]
    BY <1>2, <2>5, <2>6, ReplacedOne
  <2>8. ASSUME NEW i \in 1 .. num
        PROVE  put[start + i - 1] = t[i]
    <3>1. PICK j \in 0 .. n - 1 : j = start + i - 1
      BY <1>2
    <3>2. j = at <=> i = index + 1
      BY <1>2, <2>1, <3>1
    <3>3. array[j] = es[i]
      BY <1>2, <3>1
    <3> QED
      BY <2>3, <2>7, <3>1, <3>2, <3>3
  <2>9. LiesIn(n, put, start, num, t)
    BY <1>2, <2>3, <2>7, <2>8 DEF LiesIn
  <2>10. Gives([array |-> put, start |-> start, num |-> num], t)
    BY <2>9, Made
  <2> QED
    BY <1>1, <1>2, <1>4, <2>4, <2>5, <2>10
<1> QED
  BY <1>3, <1>4

\* tclistclear takes all elements.
LEMMA ClearKeeps ==
  ASSUME NEW n, NEW l, IsList(l, n)
  PROVE  Gives(ListClear(l), <<>>)
<1>1. PICK array, start, num, es :
        /\ LiesIn(n, array, start, num, es) /\ es = Elements(l) /\ Anum(l) = n
        /\ l = [array |-> array, start |-> start, num |-> num]
        /\ l.array = array /\ l.start = start /\ l.num = num
  BY ListView
<1>2. n \in Nat /\ n > 0 /\ array \in ArrayOf(n)
  BY <1>1 DEF LiesIn
<1>3. PICK t : t = <<>>
  OBVIOUS
<1>4. t \in Seq(Elems) /\ Len(t) = 0
  BY <1>3
<1>5. LiesIn(n, array, 0, 0, t)
  <2>1. 0 \in Nat /\ 0 + 0 <= n /\ \A i \in 1 .. 0 : array[0 + i - 1] = t[i]
    BY <1>2
  <2> QED
    BY <1>2, <1>4, <2>1 DEF LiesIn
<1>6. ListClear(l) = [array |-> array, start |-> 0, num |-> 0]
  <2>1. ListClear(l) = [l EXCEPT !.start = 0, !.num = 0]
    BY DEF ListClear
  <2> QED
    BY <1>1, <2>1
<1>7. Gives([array |-> array, start |-> 0, num |-> 0], t)
  BY <1>5, Made
<1> QED
  BY <1>3, <1>6, <1>7

\* A new list has no elements.
LEMMA NewKeeps == Gives(NewList, <<>>)
<1>1. PICK unit \in Nat : unit = Unit /\ unit > 0
  BY ListAssumption
<1>2. PICK array : array = Fresh(unit)
  OBVIOUS
<1>3. array \in ArrayOf(unit)
  BY <1>2 DEF Fresh, ArrayOf
<1>4. PICK t : t = <<>>
  OBVIOUS
<1>5. t \in Seq(Elems) /\ Len(t) = 0
  BY <1>4
<1>6. LiesIn(unit, array, 0, 0, t)
  BY <1>1, <1>3, <1>5 DEF LiesIn
<1>7. Gives([array |-> array, start |-> 0, num |-> 0], t)
  BY <1>6, Made
<1> QED
  BY <1>1, <1>2, <1>4, <1>7 DEF NewList

\* tclistdup copies the elements.
LEMMA DupKeeps ==
  ASSUME NEW n, NEW l, IsList(l, n)
  PROVE  Gives(ListDup(l), Elements(l))
<1>1. PICK array, start, num, es :
        /\ LiesIn(n, array, start, num, es) /\ es = Elements(l) /\ Anum(l) = n
        /\ l = [array |-> array, start |-> start, num |-> num]
        /\ l.array = array /\ l.start = start /\ l.num = num
  BY ListView
<1>2. /\ n \in Nat /\ n > 0 /\ array \in ArrayOf(n)
      /\ start \in Nat /\ num \in Nat /\ start + num <= n
      /\ es \in Seq(Elems) /\ Len(es) = num
      /\ \A i \in 1 .. num : array[start + i - 1] = es[i]
  BY <1>1 DEF LiesIn
<1>3. CASE num < 1
  <2>1. ListDup(l) = NewList
    BY <1>1, <1>3, Zenon DEF ListDup
  <2>2. es = <<>>
    BY <1>2, <1>3
  <2> QED
    BY <1>1, <2>1, <2>2, NewKeeps
<1>4. CASE ~(num < 1)
  <2>1. PICK copy : copy = [i \in 0 .. num - 1 |-> array[start + i]]
    OBVIOUS
  <2>2. ListDup(l) = [array |-> copy, start |-> 0, num |-> num]
    BY <1>1, <1>4, <2>1, Zenon DEF ListDup
  <2>3. ASSUME NEW i \in 0 .. num - 1
        PROVE  array[start + i] \in Elems \cup {None}
    <3>1. start + i \in 0 .. n - 1
      BY <1>2
    <3> QED
      BY <1>2, <3>1 DEF ArrayOf
  <2>4. copy \in ArrayOf(num)
    BY <2>1, <2>3 DEF ArrayOf
  <2>5. ASSUME NEW i \in 1 .. num
        PROVE  copy[0 + i - 1] = es[i]
    <3>1. PICK j \in 0 .. num - 1 : j = 0 + i - 1
      BY <1>2
    <3>2. copy[j] = array[start + j] /\ start + j = start + i - 1
      BY <1>2, <2>1, <3>1
    <3> QED
      BY <1>2, <3>1, <3>2
  <2>6. LiesIn(num, copy, 0, num, es)
    BY <1>2, <1>4, <2>4, <2>5 DEF LiesIn
  <2>7. Gives([array |-> copy, start |-> 0, num |-> num], es)
    BY <2>6, Made
  <2> QED
    BY <1>1, <2>2, <2>7
<1> QED
  BY <1>3, <1>4

\* tclistlsearch finds the first of the elements that are equal.
LEMMA SearchRight ==
  ASSUME NEW n, NEW l, IsList(l, n), NEW e
  PROVE  LSearch(l, e) = IF Contains(Elements(l), e)
                         THEN (CHOOSE i \in DOMAIN Elements(l) :
                                 /\ Elements(l)[i] = e
                                 /\ \A j \in 1 .. i - 1 : Elements(l)[j] # e) - 1
                         ELSE -1
<1>1. PICK array, start, num, es :
        /\ LiesIn(n, array, start, num, es) /\ es = Elements(l) /\ Anum(l) = n
        /\ l = [array |-> array, start |-> start, num |-> num]
        /\ l.array = array /\ l.start = start /\ l.num = num
  BY ListView
<1>2. /\ start \in Nat /\ num \in Nat /\ es \in Seq(Elems) /\ Len(es) = num /\ DOMAIN es = 1 .. num
      /\ \A i \in 1 .. num : array[start + i - 1] = es[i]
  BY <1>1 DEF LiesIn
<1> DEFINE hits == {i \in 0 .. l.num - 1 : l.array[l.start + i] = e}
<1>3. hits = {i \in 0 .. num - 1 : array[start + i] = e}
  BY <1>1
<1>4. LSearch(l, e) = IF hits = {} THEN -1 ELSE CHOOSE i \in hits : \A j \in hits : i <= j
  BY DEF LSearch
<1> HIDE DEF hits
<1>5. ASSUME NEW i \in 1 .. num
      PROVE  es[i] = e <=> i - 1 \in hits
  <2>1. PICK j \in 0 .. num - 1 : j = i - 1 /\ start + j = start + i - 1
    BY <1>2
  <2> QED
    BY <1>2, <1>3, <2>1
<1>6. hits \subseteq 0 .. num - 1
  BY <1>3
<1>7. CASE hits = {}
  <2>1. ~Contains(es, e)
    BY <1>2, <1>5, <1>7 DEF Contains
  <2> QED
    BY <1>1, <1>4, <1>7, <2>1
<1>8. CASE hits # {}
  <2>1. PICK m \in hits : \A j \in hits : m <= j
    <3>1. hits \in SUBSET Nat
      BY <1>6
    <3> QED
      BY <1>8, <3>1, LeastOne
  <2>2. (CHOOSE i \in hits : \A j \in hits : i <= j) = m
    <3>1. \A i \in hits : (\A j \in hits : i <= j) => i = m
      BY <1>2, <1>6, <2>1
    <3> QED
      BY <2>1, <3>1
  <2>3. PICK p \in 1 .. num : p = m + 1 /\ p - 1 = m
    BY <1>2, <1>6, <2>1
  <2> DEFINE First(i) == es[i] = e /\ \A j \in 1 .. i - 1 : es[j] # e
  <2>4. First(p)
    <3>1. es[p] = e
      BY <1>5, <2>3
    <3>2. ASSUME NEW j \in 1 .. p - 1
          PROVE  es[j] # e
      <4>1. j \in 1 .. num /\ ~(m <= j - 1)
        BY <1>2, <1>6, <2>1, <2>3
      <4> QED
        BY <1>5, <2>1, <4>1
    <3> QED
      BY <3>1, <3>2
  <2>5. ASSUME NEW i \in 1 .. num, First(i)
        PROVE  i = p
    <3>1. ~(p < i) /\ ~(i < p)
      BY <2>4, <2>5
    <3> QED
      BY <3>1
  <2>6. (CHOOSE i \in 1 .. num : First(i)) = p
    BY <2>4, <2>5
  <2>7. (CHOOSE i \in DOMAIN es : es[i] = e /\ \A j \in 1 .. i - 1 : es[j] # e) = p
    BY <1>2, <2>6
  <2>8. Contains(es, e)
    BY <1>2, <2>4 DEF Contains
  <2> QED
    BY <1>1, <1>4, <1>8, <2>2, <2>3, <2>7, <2>8
<1> QED
  BY <1>7, <1>8

---------------------------------------------------------------------------
(* The inversion *)

\* The array after i swaps: that many elements from both ends are where they belong.
Turned(array, start, num, i) ==
  [j \in DOMAIN array |-> IF j \in start .. start + i - 1 \/ j \in start + num - i .. start + num - 1
                          THEN array[start + start + num - 1 - j] ELSE array[j]]

\* The slots after i swaps.
LEMMA TurnedSlots ==
  ASSUME NEW n \in Nat, NEW array \in ArrayOf(n), NEW start \in Nat, NEW num \in Nat,
         start + num <= n, NEW i \in Nat, i + i <= num
  PROVE  /\ Turned(array, start, num, i) \in ArrayOf(n)
         /\ \A j \in 0 .. n - 1 : Turned(array, start, num, i)[j] =
              IF j \in start .. start + i - 1 \/ j \in start + num - i .. start + num - 1
              THEN array[start + start + num - 1 - j] ELSE array[j]
<1>1. DOMAIN array = 0 .. n - 1 /\ \A j \in 0 .. n - 1 : array[j] \in Elems \cup {None}
  BY DEF ArrayOf
<1>2. ASSUME NEW j \in 0 .. n - 1
      PROVE  (IF j \in start .. start + i - 1 \/ j \in start + num - i .. start + num - 1
              THEN array[start + start + num - 1 - j] ELSE array[j]) \in Elems \cup {None}
  <2>1. (j \in start .. start + i - 1 \/ j \in start + num - i .. start + num - 1)
          => start + start + num - 1 - j \in 0 .. n - 1
    OBVIOUS
  <2> QED
    BY <1>1, <2>1
<1> QED
  BY <1>1, <1>2 DEF Turned, ArrayOf

\* One swap more.
LEMMA TurnedOnce ==
  ASSUME NEW n \in Nat, NEW array \in ArrayOf(n), NEW start \in Nat, NEW num \in Nat,
         start + num <= n, NEW i \in Nat \ {0}, i + i <= num
  PROVE  Swapped(Turned(array, start, num, i - 1), start + i - 1, start + num - i)
           = Turned(array, start, num, i)
<1>1. PICK h \in Nat : h = i - 1
  OBVIOUS
<1>2. PICK old : old = Turned(array, start, num, h)
  OBVIOUS
<1>3. PICK new : new = Turned(array, start, num, i)
  OBVIOUS
<1>4. /\ old \in ArrayOf(n)
      /\ \A j \in 0 .. n - 1 : old[j] =
           IF j \in start .. start + h - 1 \/ j \in start + num - h .. start + num - 1
           THEN array[start + start + num - 1 - j] ELSE array[j]
  <2>1. h + h <= num
    BY <1>1
  <2> QED
    BY <1>2, <2>1, TurnedSlots
<1>5. /\ new \in ArrayOf(n)
      /\ \A j \in 0 .. n - 1 : new[j] =
           IF j \in start .. start + i - 1 \/ j \in start + num - i .. start + num - 1
           THEN array[start + start + num - 1 - j] ELSE array[j]
  BY <1>3, TurnedSlots
<1>6. PICK p \in 0 .. n - 1 : p = start + i - 1
  OBVIOUS
<1>7. PICK q \in 0 .. n - 1 : q = start + num - i
  OBVIOUS
<1>8. p < q /\ old[p] = array[p] /\ old[q] = array[q]
  <2>1. p < q
    BY <1>6, <1>7
  <2>2. ~(p \in start .. start + h - 1 \/ p \in start + num - h .. start + num - 1)
    BY <1>1, <1>6
  <2>3. ~(q \in start .. start + h - 1 \/ q \in start + num - h .. start + num - 1)
    BY <1>1, <1>7
  <2> QED
    BY <1>4, <2>1, <2>2, <2>3
<1>9. new[p] = array[q] /\ new[q] = array[p]
  <2>1. p \in start .. start + i - 1 /\ start + start + num - 1 - p = q
    BY <1>6, <1>7
  <2>2. q \in start + num - i .. start + num - 1 /\ start + start + num - 1 - q = p
    BY <1>6, <1>7
  <2> QED
    BY <1>5, <2>1, <2>2
<1>10. ASSUME NEW j \in 0 .. n - 1, j # p, j # q
       PROVE  new[j] = old[j]
  <2>1. (j \in start .. start + i - 1 \/ j \in start + num - i .. start + num - 1)
          <=> (j \in start .. start + h - 1 \/ j \in start + num - h .. start + num - 1)
    BY <1>1, <1>6, <1>7, <1>10
  <2> QED
    BY <1>4, <1>5, <2>1
<1>11. PICK swapped : swapped = [old EXCEPT ![p] = old[q], ![q] = old[p]]
  OBVIOUS
<1>12. swapped = new
  <2>1. /\ DOMAIN old = 0 .. n - 1 /\ DOMAIN new = 0 .. n - 1
        /\ new = [j \in 0 .. n - 1 |-> new[j]]
    BY <1>4, <1>5 DEF ArrayOf
  <2>2. swapped = [j \in 0 .. n - 1 |-> IF j = q THEN old[p] ELSE IF j = p THEN old[q] ELSE old[j]]
    BY <1>8, <1>11, <2>1
  <2>3. ASSUME NEW j \in 0 .. n - 1
        PROVE  new[j] = IF j = q THEN old[p] ELSE IF j = p THEN old[q] ELSE old[j]
    BY <1>8, <1>9, <1>10
  <2> QED
    BY <2>1, <2>2, <2>3
<1> QED
  BY <1>1, <1>2, <1>3, <1>6, <1>7, <1>11, <1>12 DEF Swapped

\* tclistinvert turns the elements round.
LEMMA InvertKeeps ==
  ASSUME NEW n, NEW l, IsList(l, n)
  PROVE  Gives(ListInvert(l), Reverse(Elements(l)))
<1>1. PICK array, start, num, es :
        /\ LiesIn(n, array, start, num, es) /\ es = Elements(l) /\ Anum(l) = n
        /\ l = [array |-> array, start |-> start, num |-> num]
        /\ l.array = array /\ l.start = start /\ l.num = num
  BY ListView
<1>2. /\ n \in Nat /\ n > 0 /\ array \in ArrayOf(n)
      /\ start \in Nat /\ num \in Nat /\ start + num <= n
      /\ es \in Seq(Elems) /\ Len(es) = num
      /\ \A i \in 1 .. num : array[start + i - 1] = es[i]
  BY <1>1 DEF LiesIn
<1>3. PICK h \in Nat : h = num \div 2 /\ h + h <= num /\ num <= h + h + 1
  <2>1. num \div 2 \in Nat /\ num \div 2 + num \div 2 <= num /\ num <= num \div 2 + num \div 2 + 1
    BY <1>2
  <2> QED
    BY <2>1
<1> DEFINE IsLoop(f) ==
      f = [i \in 0 .. l.num \div 2 |->
             IF i = 0 THEN l.array
             ELSE Swapped(f[i - 1], l.start + i - 1, l.start + l.num - i)]
<1> DEFINE swaps == CHOOSE f : IsLoop(f)
<1>4. ListInvert(l) = [l EXCEPT !.array = swaps[l.num \div 2]]
  BY DEF ListInvert
<1>5. PICK g : g = [i \in 0 .. h |-> Turned(array, start, num, i)]
  OBVIOUS
<1>6. g[0] = array
  <2>1. PICK none \in Nat : none = 0
    OBVIOUS
  <2>2. none + none <= num
    BY <1>2, <2>1
  <2>3. /\ Turned(array, start, num, none) \in ArrayOf(n)
        /\ \A j \in 0 .. n - 1 : Turned(array, start, num, none)[j] =
              IF j \in start .. start + none - 1 \/ j \in start + num - none .. start + num - 1
              THEN array[start + start + num - 1 - j] ELSE array[j]
    BY <1>2, <2>2, TurnedSlots
  <2>4. \A j \in 0 .. n - 1 :
          ~(j \in start .. start + none - 1 \/ j \in start + num - none .. start + num - 1)
    BY <1>2, <2>1
  <2>5. \A j \in 0 .. n - 1 : Turned(array, start, num, none)[j] = array[j]
    BY <2>3, <2>4
  <2>6. Turned(array, start, num, none) = array
    BY <1>2, <2>3, <2>5 DEF ArrayOf
  <2> QED
    BY <1>3, <1>5, <2>1, <2>6
<1>7. ASSUME NEW i \in 1 .. h
      PROVE  g[i] = Swapped(g[i - 1], start + i - 1, start + num - i)
  <2>1. i \in Nat \ {0} /\ i + i <= num /\ i - 1 \in 0 .. h /\ i \in 0 .. h
    BY <1>2, <1>3
  <2>2. Swapped(Turned(array, start, num, i - 1), start + i - 1, start + num - i)
          = Turned(array, start, num, i)
    BY <1>2, <2>1, TurnedOnce
  <2> QED
    BY <1>5, <2>1, <2>2
<1>8. IsLoop(g)
  <2>1. ASSUME NEW i \in 0 .. h
        PROVE  g[i] = IF i = 0 THEN array ELSE Swapped(g[i - 1], start + i - 1, start + num - i)
    <3>1. CASE i = 0
      BY <1>6, <3>1
    <3>2. CASE i # 0
      <4>1. i \in 1 .. h
        BY <3>2
      <4> QED
        BY <1>7, <3>2, <4>1
    <3> QED
      BY <3>1, <3>2
  <2>2. g = [i \in 0 .. h |-> g[i]]
    BY <1>5
  <2>3. g = [i \in 0 .. h |-> IF i = 0 THEN array ELSE Swapped(g[i - 1], start + i - 1, start + num - i)]
    BY <2>1, <2>2
  <2> QED
    BY <1>1, <1>3, <2>3
<1>9. IsLoop(swaps)
  BY <1>8
<1>10. PICK f : f = swaps
  OBVIOUS
<1>11. f = [i \in 0 .. h |-> IF i = 0 THEN array ELSE Swapped(f[i - 1], start + i - 1, start + num - i)]
  BY <1>1, <1>3, <1>9, <1>10
<1> HIDE DEF swaps, IsLoop
<1>12. \A i \in 0 .. h : f[i] = g[i]
  <2> DEFINE P == {i \in Nat : f[i] = g[i]}
  <2>1. 0 \in P
    BY <1>6, <1>11
  <2>2. ASSUME NEW i \in 1 .. h, i - 1 \in P
        PROVE  i \in P
    <3>1. f[i] = Swapped(f[i - 1], start + i - 1, start + num - i)
      BY <1>11
    <3> QED
      BY <1>7, <2>2, <3>1
  <2> HIDE DEF P
  <2>3. \A i \in 0 .. h : i \in P
    BY <2>1, <2>2, Reached
  <2> QED
    BY <2>3 DEF P
<1>13. PICK new : new = Turned(array, start, num, h)
  OBVIOUS
<1>14. ListInvert(l) = [array |-> new, start |-> start, num |-> num]
  <2>1. swaps[l.num \div 2] = new
    <3>1. l.num \div 2 = h /\ h \in 0 .. h
      BY <1>1, <1>3
    <3>2. f[h] = g[h] /\ g[h] = new
      BY <1>5, <1>12, <1>13, <3>1
    <3> QED
      BY <1>10, <3>1, <3>2
  <2>2. ListInvert(l) = [l EXCEPT !.array = new]
    BY <1>4, <2>1, Zenon
  <2> QED
    BY <1>1, <2>2
<1>15. /\ new \in ArrayOf(n)
       /\ \A j \in 0 .. n - 1 : new[j] =
            IF j \in start .. start + h - 1 \/ j \in start + num - h .. start + num - 1
            THEN array[start + start + num - 1 - j] ELSE array[j]
  <2>1. /\ n \in Nat /\ array \in ArrayOf(n) /\ start \in Nat /\ num \in Nat /\ start + num <= n
        /\ h + h <= num
    BY <1>2, <1>3
  <2>2. /\ Turned(array, start, num, h) \in ArrayOf(n)
        /\ \A j \in 0 .. n - 1 : Turned(array, start, num, h)[j] =
             IF j \in start .. start + h - 1 \/ j \in start + num - h .. start + num - 1
             THEN array[start + start + num - 1 - j] ELSE array[j]
    BY <2>1, TurnedSlots
  <2> QED
    BY <1>13, <2>2
<1>16. PICK t : t = Reverse(es)
  OBVIOUS
<1>17. t \in Seq(Elems) /\ Len(t) = num /\ \A i \in 1 .. num : t[i] = es[num - i + 1]
  BY <1>2, <1>16, Reversed
<1>18. ASSUME NEW i \in 1 .. num
       PROVE  new[start + i - 1] = t[i]
  <2>1. PICK j \in 0 .. n - 1 : j = start + i - 1
    BY <1>2
  <2>2. PICK k \in 1 .. num : k = num - i + 1
    BY <1>2
  <2>3. array[start + k - 1] = es[k] /\ t[i] = es[k]
    BY <1>2, <1>17, <2>2
  <2>4. CASE j \in start .. start + h - 1 \/ j \in start + num - h .. start + num - 1
    <3>1. start + start + num - 1 - j = start + k - 1
      BY <1>2, <2>1, <2>2
    <3> QED
      BY <1>15, <2>1, <2>3, <2>4, <3>1
  <2>5. CASE ~(j \in start .. start + h - 1 \/ j \in start + num - h .. start + num - 1)
    <3>1. k = i
      BY <1>2, <1>3, <2>1, <2>2, <2>5
    <3> QED
      BY <1>15, <2>1, <2>3, <2>5, <3>1
  <2> QED
    BY <2>4, <2>5
<1>19. LiesIn(n, new, start, num, t)
  BY <1>2, <1>15, <1>17, <1>18 DEF LiesIn
<1>20. Gives([array |-> new, start |-> start, num |-> num], t)
  BY <1>19, Made
<1> QED
  BY <1>1, <1>14, <1>16, <1>20

---------------------------------------------------------------------------
(* The sort *)

\* An order, p, of the first n of the integers s, in which none is followed by
\* a smaller one.
Orders(n, s, p) ==
  /\ p \in [1 .. n -> 1 .. n]
  /\ \A i, j \in 1 .. n : p[i] = p[j] => i = j
  /\ \A k \in 1 .. n : \E i \in 1 .. n : p[i] = k
  /\ \A i \in 1 .. n - 1 : s[p[i]] <= s[p[i + 1]]

\* An order is a bijection.
LEMMA OrderParts ==
  ASSUME NEW n \in Nat, NEW s, NEW p, Orders(n, s, p)
  PROVE  p \in Bijection(1 .. n, 1 .. n)
BY DEF Orders, Bijection, Injection, Surjection, IsInjective

\* What a bijection is.
LEMMA BijectionParts ==
  ASSUME NEW n \in Nat, NEW p \in Bijection(1 .. n, 1 .. n)
  PROVE  p \in [1 .. n -> 1 .. n]
BY DEF Bijection, Injection, Surjection

\* One integer more is put in behind those that are not larger.
LEMMA OrderNext ==
  ASSUME NEW num \in Nat, NEW s \in [1 .. num -> Int], NEW n \in 1 .. num, NEW p, Orders(n - 1, s, p)
  PROVE  \E q : Orders(n, s, q)
<1>a. n \in Nat /\ n > 0 /\ \A i \in 1 .. n : s[i] \in Int
  OBVIOUS
<1>b. \A i \in 1 .. n - 1 : p[i] \in 1 .. n - 1
  BY <1>a DEF Orders
<1>c. \A i, j \in 1 .. n - 1 : p[i] = p[j] => i = j
  BY DEF Orders
<1>d. \A k \in 1 .. n - 1 : \E i \in 1 .. n - 1 : p[i] = k
  BY DEF Orders
<1>e. \A i \in 1 .. n - 2 : s[p[i]] <= s[p[i + 1]]
  <2>1. \A i \in 1 .. n - 1 - 1 : s[p[i]] <= s[p[i + 1]]
    BY DEF Orders
  <2>2. n - 1 - 1 = n - 2
    BY <1>a
  <2> QED
    BY <2>1, <2>2
<1> DEFINE larger == {i \in 1 .. n : i = n \/ s[p[i]] > s[n]}
<1>1. PICK at \in larger : \A k \in larger : at <= k
  <2>1. larger \in SUBSET Nat /\ n \in larger
    BY <1>a
  <2> HIDE DEF larger
  <2> QED
    BY <2>1, LeastOne
<1>2. at \in 1 .. n /\ (at < n => s[p[at]] > s[n])
  OBVIOUS
<1>3. ASSUME NEW i \in 1 .. at - 1
      PROVE  s[p[i]] <= s[n]
  <2>1. i \in 1 .. n - 1 /\ i \notin larger
    <3>1. i \in 1 .. n /\ i \in 1 .. n - 1 /\ ~(at <= i)
      BY <1>a, <1>2
    <3> HIDE DEF larger
    <3> QED
      BY <1>1, <3>1
  <2>2. p[i] \in 1 .. n /\ s[p[i]] \in Int /\ s[n] \in Int
    BY <1>a, <1>b, <2>1
  <2>3. ~(s[p[i]] > s[n])
    BY <1>a, <2>1
  <2> QED
    BY <2>2, <2>3
<1> HIDE DEF larger
<1>4. PICK q : q = [i \in 1 .. n |-> IF i < at THEN p[i] ELSE IF i = at THEN n ELSE p[i - 1]]
  OBVIOUS
<1>5. \A i \in 1 .. n : q[i] = IF i < at THEN p[i] ELSE IF i = at THEN n ELSE p[i - 1]
  BY <1>4
<1>6. ASSUME NEW i \in 1 .. n
      PROVE  /\ i < at => i \in 1 .. n - 1 /\ p[i] \in 1 .. n - 1
             /\ i > at => i - 1 \in 1 .. n - 1 /\ p[i - 1] \in 1 .. n - 1
  <2>1. i < at => i \in 1 .. n - 1
    BY <1>a, <1>2
  <2>2. i > at => i - 1 \in 1 .. n - 1
    BY <1>a, <1>2
  <2> QED
    BY <1>b, <2>1, <2>2
<1>7. q \in [1 .. n -> 1 .. n]
  <2>1. ASSUME NEW i \in 1 .. n
        PROVE  (IF i < at THEN p[i] ELSE IF i = at THEN n ELSE p[i - 1]) \in 1 .. n
    <3>1. CASE i < at
      BY <1>a, <1>6, <3>1
    <3>2. CASE i = at
      BY <1>a, <1>2, <3>2
    <3>3. CASE i > at
      <4>1. ~(i < at) /\ i # at
        BY <1>a, <1>2, <3>3
      <4>2. p[i - 1] \in 1 .. n - 1
        BY <1>6, <3>3
      <4>3. p[i - 1] \in 1 .. n
        BY <1>a, <4>2
      <4> QED
        BY <4>1, <4>3
    <3> QED
      BY <1>a, <1>2, <3>1, <3>2, <3>3
  <2> QED
    BY <1>4, <2>1
<1>8. ASSUME NEW i \in 1 .. n, NEW j \in 1 .. n, q[i] = q[j]
      PROVE  i = j
  <2>1. i = at <=> q[i] = n
    BY <1>a, <1>2, <1>5, <1>6
  <2>2. j = at <=> q[j] = n
    BY <1>a, <1>2, <1>5, <1>6
  <2>3. CASE i = at \/ j = at
    BY <1>8, <2>1, <2>2, <2>3
  <2>4. CASE ~(i = at \/ j = at)
    <3>1. PICK a \in 1 .. n - 1 : a = (IF i < at THEN i ELSE i - 1) /\ q[i] = p[a]
      BY <1>a, <1>2, <1>5, <1>6, <2>4
    <3>2. PICK b \in 1 .. n - 1 : b = (IF j < at THEN j ELSE j - 1) /\ q[j] = p[b]
      BY <1>a, <1>2, <1>5, <1>6, <2>4
    <3>3. a = b
      BY <1>c, <1>8, <3>1, <3>2
    <3> QED
      BY <1>a, <1>2, <2>4, <3>1, <3>2, <3>3
  <2> QED
    BY <2>3, <2>4
<1>9. ASSUME NEW k \in 1 .. n
      PROVE  \E i \in 1 .. n : q[i] = k
  <2>1. CASE k = n
    BY <1>2, <1>5, <2>1
  <2>2. CASE k # n
    <3>1. PICK a \in 1 .. n - 1 : p[a] = k
      <4>1. k \in 1 .. n - 1
        BY <1>a, <2>2
      <4> QED
        BY <1>d, <4>1
    <3>2. PICK i \in 1 .. n : i = (IF a < at THEN a ELSE a + 1)
      BY <1>a
    <3>3. q[i] = p[a]
      <4>1. CASE a < at
        BY <1>5, <3>2, <4>1
      <4>2. CASE ~(a < at)
        <5>1. i = a + 1 /\ i > at /\ i - 1 = a
          BY <1>2, <3>2, <4>2
        <5> QED
          BY <1>2, <1>5, <5>1
      <4> QED
        BY <4>1, <4>2
    <3> QED
      BY <3>1, <3>3
  <2> QED
    BY <2>1, <2>2
<1>10. ASSUME NEW i \in 1 .. n - 1
       PROVE  s[q[i]] <= s[q[i + 1]]
  <2>1. i \in 1 .. n /\ i + 1 \in 1 .. n
    BY <1>a
  <2>2. CASE i + 1 < at
    <3>1. i < at /\ i \in 1 .. n - 2
      BY <1>a, <1>2, <2>2
    <3>2. q[i] = p[i] /\ q[i + 1] = p[i + 1]
      BY <1>5, <2>1, <2>2, <3>1
    <3> QED
      BY <1>e, <3>1, <3>2
  <2>3. CASE i + 1 = at
    <3>1. q[i] = p[i] /\ q[i + 1] = n /\ i \in 1 .. at - 1
      BY <1>a, <1>2, <1>5, <2>1, <2>3
    <3> QED
      BY <1>3, <3>1
  <2>4. CASE i = at
    <3>1. q[i] = n /\ q[i + 1] = p[i] /\ at < n
      BY <1>a, <1>2, <1>5, <2>1, <2>4
    <3>2. p[at] \in 1 .. n /\ s[p[at]] \in Int /\ s[n] \in Int
      BY <1>a, <1>b, <1>2, <3>1
    <3> QED
      BY <1>2, <2>4, <3>1, <3>2
  <2>5. CASE i > at
    <3>1. PICK h \in 1 .. n - 2 : h = i - 1
      BY <1>a, <1>2, <2>5
    <3>2. q[i] = p[h] /\ q[i + 1] = p[h + 1]
      BY <1>a, <1>2, <1>5, <2>1, <2>5, <3>1
    <3> QED
      BY <1>e, <3>2
  <2> QED
    BY <1>a, <1>2, <2>2, <2>3, <2>4, <2>5
<1>11. Orders(n, s, q)
  BY <1>7, <1>8, <1>9, <1>10 DEF Orders
<1> QED
  BY <1>11

\* Any number of integers can be ordered.
LEMMA Sortable ==
  ASSUME NEW num \in Nat, NEW s \in [1 .. num -> Int]
  PROVE  \E p : Orders(num, s, p)
<1> DEFINE P == {n \in Nat : \E p : Orders(n, s, p)}
<1>1. 0 \in P
  <2>1. PICK p : p = [i \in 1 .. 0 |-> i]
    OBVIOUS
  <2>2. Orders(0, s, p)
    BY <2>1 DEF Orders
  <2> QED
    BY <2>2
<1>2. ASSUME NEW n \in 1 .. num, n - 1 \in P
      PROVE  n \in P
  <2>1. PICK p : Orders(n - 1, s, p)
    BY <1>2
  <2>2. \E q : Orders(n, s, q)
    BY <2>1, OrderNext
  <2> QED
    BY <2>2
<1> HIDE DEF P
<1>3. \A n \in 0 .. num : n \in P
  BY <1>1, <1>2, Reached
<1> QED
  BY <1>3 DEF P

\* tclistsort arranges the elements.
LEMMA SortKeeps ==
  ASSUME NEW n, NEW l, IsList(l, n)
  PROVE  \E t, p : /\ Gives(ListSort(l), t)
                   /\ p \in Bijection(DOMAIN Elements(l), DOMAIN Elements(l))
                   /\ t = [i \in DOMAIN Elements(l) |-> Elements(l)[p[i]]]
                   /\ \A i \in 1 .. Len(Elements(l)) - 1 : t[i] <= t[i + 1]
<1>1. PICK array, start, num, es :
        /\ LiesIn(n, array, start, num, es) /\ es = Elements(l) /\ Anum(l) = n
        /\ l = [array |-> array, start |-> start, num |-> num]
        /\ l.array = array /\ l.start = start /\ l.num = num
  BY ListView
<1>2. /\ n \in Nat /\ n > 0 /\ array \in ArrayOf(n)
      /\ start \in Nat /\ num \in Nat /\ start + num <= n
      /\ es \in Seq(Elems) /\ Len(es) = num /\ DOMAIN es = 1 .. num
      /\ \A i \in 1 .. num : array[start + i - 1] = es[i]
  BY <1>1 DEF LiesIn
<1>3. PICK t : t = CHOOSE u \in Permuted(es) : Ascending(u)
  OBVIOUS
<1>4. t \in Permuted(es) /\ Ascending(t)
  <2>1. es \in [1 .. num -> Int]
    <3>1. es \in [1 .. num -> Elems]
      BY <1>2
    <3>2. Elems \subseteq Int
      BY ListCallsAssumption
    <3> QED
      BY <3>1, <3>2
  <2>2. PICK p : Orders(num, es, p)
    BY <1>2, <2>1, Sortable
  <2>3. PICK u : u = [i \in 1 .. num |-> es[p[i]]]
    OBVIOUS
  <2>4. u \in Permuted(es)
    <3>1. p \in Bijection(DOMAIN es, DOMAIN es)
      BY <1>2, <2>2, OrderParts
    <3> QED
      BY <1>2, <2>3, <3>1 DEF Permuted
  <2>5. Ascending(u)
    <3>1. Len(u) = num
      BY <1>2, <2>3
    <3>2. \A i \in 1 .. num - 1 : i \in 1 .. num /\ i + 1 \in 1 .. num
      BY <1>2
    <3>3. \A i \in 1 .. num - 1 : u[i] <= u[i + 1]
      BY <1>2, <2>2, <2>3, <3>2 DEF Orders
    <3> QED
      BY <3>1, <3>3 DEF Ascending
  <2> QED
    BY <1>3, <2>4, <2>5
<1>5. PICK p \in Bijection(1 .. num, 1 .. num) : t = [i \in 1 .. num |-> es[p[i]]]
  BY <1>2, <1>4 DEF Permuted
<1>6. p \in [1 .. num -> 1 .. num]
  BY <1>2, <1>5, BijectionParts
<1>7. \A i \in 1 .. num : t[i] \in Elems
  BY <1>2, <1>5, <1>6
<1>8. t \in Seq(Elems) /\ Len(t) = num
  <2>1. t \in [1 .. num -> Elems]
    BY <1>5, <1>7
  <2> QED
    BY <1>2, <2>1
<1>9. PICK new : new = [i \in 0 .. n - 1 |-> IF i \in start .. start + num - 1
                                             THEN t[i - start + 1] ELSE array[i]]
  OBVIOUS
<1>10. DOMAIN array = 0 .. n - 1 /\ \A i \in 0 .. n - 1 : array[i] \in Elems \cup {None}
  BY <1>2 DEF ArrayOf
<1>11. new \in ArrayOf(n)
  <2>1. ASSUME NEW i \in 0 .. n - 1
        PROVE  (IF i \in start .. start + num - 1 THEN t[i - start + 1] ELSE array[i])
                 \in Elems \cup {None}
    <3>1. i \in start .. start + num - 1 => i - start + 1 \in 1 .. num
      BY <1>2
    <3> QED
      BY <1>7, <1>10, <3>1
  <2> QED
    BY <1>9, <2>1 DEF ArrayOf
<1>12. ASSUME NEW i \in 1 .. num
       PROVE  new[start + i - 1] = t[i]
  <2>1. PICK j \in 0 .. n - 1 : j = start + i - 1
    BY <1>2
  <2>2. j \in start .. start + num - 1 /\ j - start + 1 = i
    BY <1>2, <2>1
  <2> QED
    BY <1>9, <2>1, <2>2
<1>13. ListSort(l) = [array |-> new, start |-> start, num |-> num]
  <2>1. ListSort(l) = Rewritten(l, t)
    BY <1>1, <1>3 DEF ListSort
  <2>2. [i \in DOMAIN l.array |-> IF i \in l.start .. l.start + l.num - 1
                                 THEN t[i - l.start + 1] ELSE l.array[i]] = new
    BY <1>1, <1>9, <1>10
  <2>3. ListSort(l) = [l EXCEPT !.array = new]
    BY <2>1, <2>2, Zenon DEF Rewritten
  <2> QED
    BY <1>1, <2>3
<1>14. LiesIn(n, new, start, num, t)
  BY <1>2, <1>8, <1>11, <1>12 DEF LiesIn
<1>15. Gives(ListSort(l), t)
  BY <1>13, <1>14, Made
<1>16. \A i \in 1 .. num - 1 : t[i] <= t[i + 1]
  BY <1>4, <1>8 DEF Ascending
<1> QED
  BY <1>1, <1>2, <1>5, <1>15, <1>16

---------------------------------------------------------------------------
(* The loading *)

\* What the loop of ListLoad does with the element of that number.
ReadStep(es, size, g, num) ==
  IF num = 0 THEN Fresh(size \div 4 + 1)
  ELSE [Doubled(g[num - 1], num - 1) EXCEPT ![num - 1] = es[num]]

\* The loop of ListLoad is well defined.
LEMMA ReadLoop ==
  ASSUME NEW n \in Nat, NEW es, NEW size
  PROVE  \E g : g = [num \in 0 .. n |-> ReadStep(es, size, g, num)]
<1> DEFINE P == {k \in Nat : \E g : g = [num \in 0 .. k |-> ReadStep(es, size, g, num)]}
<1>1. 0 \in P
  <2>1. PICK g : g = [num \in 0 .. 0 |-> Fresh(size \div 4 + 1)]
    OBVIOUS
  <2>2. \A num \in 0 .. 0 : g[num] = ReadStep(es, size, g, num)
    BY <2>1 DEF ReadStep
  <2>3. g = [num \in 0 .. 0 |-> ReadStep(es, size, g, num)]
    BY <2>1, <2>2
  <2> QED
    BY <2>3
<1>2. ASSUME NEW k \in 1 .. n, k - 1 \in P
      PROVE  k \in P
  <2>1. PICK g : g = [num \in 0 .. k - 1 |-> ReadStep(es, size, g, num)]
    BY <1>2
  <2>2. PICK h : h = [num \in 0 .. k |-> IF num = k THEN ReadStep(es, size, g, num) ELSE g[num]]
    OBVIOUS
  <2>3. ASSUME NEW num \in 0 .. k
        PROVE  h[num] = ReadStep(es, size, h, num)
    <3>1. num # 0 => h[num - 1] = g[num - 1]
      BY <2>2
    <3>2. ReadStep(es, size, h, num) = ReadStep(es, size, g, num)
      BY <3>1 DEF ReadStep
    <3>3. h[num] = ReadStep(es, size, g, num)
      BY <2>1, <2>2
    <3> QED
      BY <3>2, <3>3
  <2>4. h = [num \in 0 .. k |-> ReadStep(es, size, h, num)]
    BY <2>2, <2>3
  <2> QED
    BY <2>4
<1> HIDE DEF P
<1>3. \A k \in 0 .. n : k \in P
  BY <1>1, <1>2, Reached
<1> QED
  BY <1>3 DEF P

\* The array with a slot more in use than before.
LEMMA DoubledSlots ==
  ASSUME NEW m \in Nat, m > 0, NEW array \in ArrayOf(m), NEW num \in Nat, num <= m
  PROVE  \E more \in Nat : /\ num < more /\ m <= more /\ Doubled(array, num) \in ArrayOf(more)
                           /\ \A i \in 0 .. m - 1 : Doubled(array, num)[i] = array[i]
<1>1. Cardinality(DOMAIN array) = m
  BY Slotted
<1>2. CASE num < m
  <2>1. Doubled(array, num) = array
    BY <1>1, <1>2, Zenon DEF Doubled
  <2> QED
    BY <1>2, <2>1
<1>3. CASE ~(num < m)
  <2>1. PICK more \in Nat : more = 2 * m
    OBVIOUS
  <2>2. PICK d : d = [i \in 0 .. 2 * m - 1 |-> IF i < m THEN array[i] ELSE None]
    OBVIOUS
  <2>3. Doubled(array, num) = d
    BY <1>1, <1>3, <2>2, Zenon DEF Doubled
  <2>4. DOMAIN array = 0 .. m - 1 /\ \A i \in 0 .. m - 1 : array[i] \in Elems \cup {None}
    BY DEF ArrayOf
  <2>5. \A i \in 0 .. m - 1 : d[i] = array[i]
    BY <2>2
  <2>6. d \in ArrayOf(more)
    BY <2>1, <2>2, <2>4 DEF ArrayOf
  <2> QED
    BY <2>1, <2>3, <2>5, <2>6
<1> QED
  BY <1>2, <1>3

\* After so many elements they are in the array.
ReadSoFar(es, array, num) ==
  \E m \in Nat : /\ m > 0 /\ num <= m /\ array \in ArrayOf(m)
                 /\ \A i \in 1 .. num : array[i - 1] = es[i]

\* One element more is read.
LEMMA ReadNext ==
  ASSUME NEW es \in Seq(Elems), NEW num \in 1 .. Len(es), NEW array, ReadSoFar(es, array, num - 1)
  PROVE  ReadSoFar(es, [Doubled(array, num - 1) EXCEPT ![num - 1] = es[num]], num)
<1>1. PICK h \in Nat : h = num - 1
  OBVIOUS
<1>2. PICK m \in Nat : m > 0 /\ h <= m /\ array \in ArrayOf(m) /\ \A i \in 1 .. h : array[i - 1] = es[i]
  BY <1>1 DEF ReadSoFar
<1>3. PICK d : d = Doubled(array, h)
  OBVIOUS
<1>4. PICK more \in Nat : /\ h < more /\ m <= more /\ d \in ArrayOf(more)
                          /\ \A i \in 0 .. m - 1 : d[i] = array[i]
  BY <1>2, <1>3, DoubledSlots
<1>5. PICK new : new = [d EXCEPT ![h] = es[num]]
  OBVIOUS
<1>6. es[num] \in Elems
  OBVIOUS
<1>7. new \in ArrayOf(more) /\ \A i \in 0 .. more - 1 : new[i] = IF i = h THEN es[num] ELSE d[i]
  BY <1>4, <1>5, <1>6 DEF ArrayOf
<1>8. ASSUME NEW i \in 1 .. num
      PROVE  new[i - 1] = es[i]
  <2>1. PICK j \in 0 .. more - 1 : j = i - 1
    BY <1>1, <1>4
  <2>2. CASE i = num
    BY <1>1, <1>7, <2>1, <2>2
  <2>3. CASE i # num
    <3>1. i \in 1 .. h /\ j \in 0 .. m - 1 /\ j # h
      BY <1>1, <1>2, <2>1, <2>3
    <3>2. d[j] = array[j] /\ array[j] = es[i]
      BY <1>2, <1>4, <2>1, <3>1
    <3> QED
      BY <1>7, <2>1, <3>1, <3>2
  <2> QED
    BY <2>2, <2>3
<1>9. more > 0 /\ num <= more
  BY <1>1, <1>4
<1>10. ReadSoFar(es, new, num)
  BY <1>7, <1>8, <1>9 DEF ReadSoFar
<1> QED
  BY <1>1, <1>3, <1>5, <1>10

\* tclistload reads all elements.
LEMMA LoadKeeps ==
  ASSUME NEW es \in Seq(Elems), NEW size \in Nat
  PROVE  Gives(ListLoad(es, size), es)
<1>1. PICK num \in Nat : num = Len(es)
  OBVIOUS
<1> DEFINE IsLoop(f) == f = [k \in 0 .. Len(es) |->
                               IF k = 0 THEN Fresh(size \div 4 + 1)
                               ELSE [Doubled(f[k - 1], k - 1) EXCEPT ![k - 1] = es[k]]]
           read == CHOOSE f : IsLoop(f)
<1>2. ListLoad(es, size) = [array |-> read[Len(es)], start |-> 0, num |-> Len(es)]
  BY DEF ListLoad
<1>3. IsLoop(read)
  <2>1. PICK g : g = [k \in 0 .. num |-> ReadStep(es, size, g, k)]
    BY ReadLoop
  <2>2. IsLoop(g)
    BY <1>1, <2>1 DEF ReadStep
  <2> QED
    BY <2>2
<1>4. PICK f : f = read
  OBVIOUS
<1>5. f = [k \in 0 .. num |-> IF k = 0 THEN Fresh(size \div 4 + 1)
                              ELSE [Doubled(f[k - 1], k - 1) EXCEPT ![k - 1] = es[k]]]
  BY <1>1, <1>3, <1>4
<1> HIDE DEF IsLoop, read
<1> DEFINE P == {k \in Nat : ReadSoFar(es, f[k], k)}
<1>6. 0 \in P
  <2>1. PICK m \in Nat : m = size \div 4 + 1 /\ m > 0
    <3>1. size \div 4 \in Nat
      OBVIOUS
    <3> QED
      BY <3>1
  <2>2. f[0] = Fresh(m)
    BY <1>1, <1>5, <2>1
  <2>3. Fresh(m) \in ArrayOf(m)
    BY DEF Fresh, ArrayOf
  <2>4. ReadSoFar(es, f[0], 0)
    BY <2>1, <2>2, <2>3 DEF ReadSoFar
  <2> QED
    BY <2>4
<1>7. ASSUME NEW k \in 1 .. num, k - 1 \in P
      PROVE  k \in P
  <2>1. ReadSoFar(es, f[k - 1], k - 1)
    BY <1>7
  <2>2. f[k] = [Doubled(f[k - 1], k - 1) EXCEPT ![k - 1] = es[k]]
    <3>1. k \in 0 .. num /\ k # 0
      OBVIOUS
    <3>2. f[k] = IF k = 0 THEN Fresh(size \div 4 + 1)
                 ELSE [Doubled(f[k - 1], k - 1) EXCEPT ![k - 1] = es[k]]
      BY <1>5, <3>1, Zenon
    <3> QED
      BY <3>1, <3>2
  <2>3. ReadSoFar(es, f[k], k)
    BY <1>1, <2>1, <2>2, ReadNext
  <2> QED
    BY <2>3
<1> HIDE DEF P
<1>8. \A k \in 0 .. num : k \in P
  BY <1>6, <1>7, Reached
<1>9. ReadSoFar(es, f[num], num)
  BY <1>8 DEF P
<1>10. PICK a : a = f[num]
  OBVIOUS
<1>11. PICK m \in Nat : m > 0 /\ num <= m /\ a \in ArrayOf(m) /\ \A i \in 1 .. num : a[i - 1] = es[i]
  BY <1>9, <1>10 DEF ReadSoFar
<1>12. LiesIn(m, a, 0, num, es)
  <2>1. \A i \in 1 .. num : a[0 + i - 1] = es[i]
    BY <1>11
  <2>2. 0 + num <= m
    BY <1>11
  <2> QED
    BY <1>1, <1>11, <2>1, <2>2 DEF LiesIn
<1>13. Gives([array |-> a, start |-> 0, num |-> num], es)
  BY <1>12, Made
<1> QED
  BY <1>1, <1>2, <1>4, <1>10, <1>13

---------------------------------------------------------------------------
(* The calls as steps of the sequence *)

\* What a call leaves and answers is what the sequence would.
LEMMA OnListGives ==
  ASSUME NEW c, NEW l, NEW answer, NEW es, OnList(c, l, answer), Gives(l, es)
  PROVE  ListOK' /\ Linear!Become(es, answer) /\ listcall' = c
BY DEF OnList, Gives, ListOK, Linear!Become

\* tclistval answers an element.
LEMMA ValRight ==
  ASSUME NEW n, IsList(list, n), NEW index \in Nat
  PROVE  Val(index) = Linear!At(index)
<1>1. /\ list.num \in Nat /\ list.start \in Nat /\ Len(Elements(list)) = list.num
      /\ \A i \in 1 .. list.num : Elements(list)[i] = list.array[list.start + i - 1]
  BY ElementsSeq DEF IsList
<1>2. CASE index < list.num
  <2>1. PICK i \in 1 .. list.num : i = index + 1
    BY <1>1, <1>2
  <2>2. index \in 0 .. list.num - 1 /\ list.start + i - 1 = list.start + index
    BY <1>1, <1>2, <2>1
  <2> QED
    BY <1>1, <1>2, <2>1, <2>2 DEF Val, Linear!At
<1>3. CASE ~(index < list.num)
  <2>1. index \notin 0 .. list.num - 1
    BY <1>1, <1>3
  <2> QED
    BY <1>1, <1>3, <2>1 DEF Val, Linear!At
<1> QED
  BY <1>2, <1>3

\* Push and unshift.
LEMMA AddsImplement ==
  ASSUME NEW n, IsList(list, n), ListAdds
  PROVE  ListOK' /\ Linear!Next
<1>1. PICK e \in Elems : \/ OnList(<<"push", e>>, ListPush(list, e), None)
                         \/ OnList(<<"unshift", e>>, ListUnshift(list, e), None)
  BY DEF ListAdds
<1>2. CASE OnList(<<"push", e>>, ListPush(list, e), None)
  <2>1. ListOK' /\ Linear!Become(Append(Elements(list), e), None) /\ listcall' = <<"push", e>>
    BY <1>2, PushKeeps, OnListGives
  <2>2. listcall' # <<"new">>
    BY <2>1
  <2> QED
    BY <2>1, <2>2 DEF Linear!Next, Linear!Call
<1>3. CASE OnList(<<"unshift", e>>, ListUnshift(list, e), None)
  <2>1. ListOK' /\ Linear!Become(<<e>> \o Elements(list), None) /\ listcall' = <<"unshift", e>>
    BY <1>3, UnshiftKeeps, OnListGives
  <2>2. listcall' # <<"new">>
    BY <2>1
  <2> QED
    BY <2>1, <2>2 DEF Linear!Next, Linear!Call
<1> QED
  BY <1>1, <1>2, <1>3

\* Pop and shift.
LEMMA TakesImplement ==
  ASSUME NEW n, IsList(list, n), ListTakes
  PROVE  ListOK' /\ Linear!Next
<1>1. list.num \in Nat /\ Elements(list) \in Seq(Elems) /\ Len(Elements(list)) = list.num
  BY ElementsSeq DEF IsList
<1>2. CASE OnList(<<"pop">>, ListPop(list), Val(list.num - 1))
  <2>1. /\ ListOK' /\ listcall' = <<"pop">>
        /\ Linear!Become(IF Elements(list) = <<>> THEN Elements(list) ELSE Front(Elements(list)),
                         Val(list.num - 1))
    BY <1>2, PopKeeps, OnListGives
  <2>2. Val(list.num - 1) = IF Elements(list) = <<>> THEN None ELSE Last(Elements(list))
    <3>1. CASE Elements(list) = <<>>
      <4>1. list.num = 0
        BY <1>1, <3>1
      <4> QED
        BY <3>1, <4>1 DEF Val
    <3>2. CASE Elements(list) # <<>>
      <4>1. PICK index \in Nat : index = list.num - 1
        <5>1. list.num # 0
          BY <1>1, <3>2
        <5> QED
          BY <1>1, <5>1
      <4>2. Val(index) = Elements(list)[list.num]
        BY <1>1, <4>1, ValRight DEF Linear!At
      <4> QED
        BY <1>1, <3>2, <4>1, <4>2 DEF Last
    <3> QED
      BY <3>1, <3>2
  <2>3. Linear!Pop
    BY <2>1, <2>2, Zenon DEF Linear!Pop, Linear!Become, Linear!Front, Linear!Last, Front, Last
  <2>4. listcall' # <<"new">>
    BY <2>1
  <2> QED
    BY <2>1, <2>3, <2>4 DEF Linear!Next, Linear!Call
<1>3. CASE OnList(<<"shift">>, ListShift(list), Val(0))
  <2>1. /\ ListOK' /\ listcall' = <<"shift">>
        /\ Linear!Become(IF Elements(list) = <<>> THEN Elements(list) ELSE Tail(Elements(list)), Val(0))
    BY <1>3, ShiftKeeps, OnListGives
  <2>2. Val(0) = Linear!At(0)
    BY ValRight
  <2>3. Linear!Shift /\ listcall' # <<"new">>
    BY <2>1, <2>2 DEF Linear!Shift
  <2> QED
    BY <2>1, <2>3 DEF Linear!Next, Linear!Call
<1> QED
  BY <1>2, <1>3 DEF ListTakes

\* Remove, insert and over.
LEMMA EditsImplement ==
  ASSUME NEW n, IsList(list, n), ListEdits
  PROVE  ListOK' /\ Linear!Next
<1>1. list.num \in Nat /\ Len(Elements(list)) = list.num
  BY ElementsSeq DEF IsList
<1>2. PICK index \in 0 .. list.num + 1 :
        \/ OnList(<<"remove", index>>, ListRemove(list, index), Val(index))
        \/ \E e \in Elems : \/ OnList(<<"insert", index, e>>, ListInsert(list, index, e), None)
                            \/ OnList(<<"over", index, e>>, ListOver(list, index, e), None)
  BY DEF ListEdits
<1>3. index \in Nat /\ index \in 0 .. Len(Elements(list)) + 1
  BY <1>1
<1>4. CASE OnList(<<"remove", index>>, ListRemove(list, index), Val(index))
  <2>1. /\ ListOK' /\ listcall' = <<"remove", index>>
        /\ Linear!Become(IF index >= Len(Elements(list)) THEN Elements(list)
                         ELSE RemoveAt(Elements(list), index + 1), Val(index))
    BY <1>3, <1>4, RemoveKeeps, OnListGives
  <2>2. Val(index) = Linear!At(index)
    BY <1>3, ValRight
  <2>3. Linear!RemoveIndex(index)
    BY <2>1, <2>2, Zenon DEF Linear!RemoveIndex, Linear!Become, Linear!RemoveAt, RemoveAt
  <2>4. listcall' # <<"new">>
    BY <2>1
  <2> QED
    BY <1>3, <2>1, <2>3, <2>4 DEF Linear!Next, Linear!Call
<1>5. ASSUME NEW e \in Elems, OnList(<<"insert", index, e>>, ListInsert(list, index, e), None)
      PROVE  ListOK' /\ Linear!Next
  <2>1. /\ ListOK' /\ listcall' = <<"insert", index, e>>
        /\ Linear!Become(IF index > Len(Elements(list)) THEN Elements(list)
                         ELSE InsertAt(Elements(list), index + 1, e), None)
    BY <1>3, <1>5, InsertKeeps, OnListGives
  <2>2. Linear!Insert(index, e)
    BY <2>1, Zenon DEF Linear!Insert, Linear!Become, Linear!InsertAt, InsertAt
  <2>3. listcall' # <<"new">>
    BY <2>1
  <2> QED
    BY <1>3, <2>1, <2>2, <2>3 DEF Linear!Next, Linear!Call
<1>6. ASSUME NEW e \in Elems, OnList(<<"over", index, e>>, ListOver(list, index, e), None)
      PROVE  ListOK' /\ Linear!Next
  <2>1. /\ ListOK' /\ listcall' = <<"over", index, e>>
        /\ Linear!Become(IF index >= Len(Elements(list)) THEN Elements(list)
                         ELSE ReplaceAt(Elements(list), index + 1, e), None)
    BY <1>3, <1>6, OverKeeps, OnListGives
  <2>2. Linear!Over(index, e)
    BY <2>1, Zenon DEF Linear!Over, Linear!Become, Linear!ReplaceAt, ReplaceAt
  <2>3. listcall' # <<"new">>
    BY <2>1
  <2> QED
    BY <1>3, <2>1, <2>2, <2>3 DEF Linear!Next, Linear!Call
<1> QED
  BY <1>2, <1>4, <1>5, <1>6

\* Sort, invert and clear.
LEMMA ArrangesImplement ==
  ASSUME NEW n, IsList(list, n), ListArranges
  PROVE  ListOK' /\ Linear!Next
<1>1. CASE OnList(<<"sort">>, ListSort(list), None)
  <2>1. PICK t, p : /\ Gives(ListSort(list), t)
                    /\ p \in Bijection(DOMAIN Elements(list), DOMAIN Elements(list))
                    /\ t = [i \in DOMAIN Elements(list) |-> Elements(list)[p[i]]]
                    /\ \A i \in 1 .. Len(Elements(list)) - 1 : t[i] <= t[i + 1]
    BY SortKeeps
  <2>2. ListOK' /\ Linear!Become(t, None) /\ listcall' = <<"sort">>
    BY <1>1, <2>1, OnListGives
  <2>3. Elements(list)' = t /\ listret' = None
    BY <2>2 DEF Linear!Become
  <2>4. Linear!Sort
    <3>1. p \in Linear!Bijection(DOMAIN Elements(list), DOMAIN Elements(list))
      BY <2>1, Zenon DEF Linear!Bijection, Linear!Injection, Linear!Surjection, Linear!IsInjective,
                         Bijection, Injection, Surjection, IsInjective
    <3> QED
      BY <2>1, <2>3, <3>1, Zenon DEF Linear!Sort
  <2>5. listcall' # <<"new">>
    BY <2>2
  <2> QED
    BY <2>2, <2>4, <2>5 DEF Linear!Next, Linear!Call
<1>2. CASE OnList(<<"invert">>, ListInvert(list), None)
  <2>1. ListOK' /\ Linear!Become(Linear!Reverse(Elements(list)), None) /\ listcall' = <<"invert">>
    BY <1>2, InvertKeeps, OnListGives DEF Reverse, Linear!Reverse
  <2>2. listcall' # <<"new">>
    BY <2>1
  <2> QED
    BY <2>1, <2>2 DEF Linear!Next, Linear!Call
<1>3. CASE OnList(<<"clear">>, ListClear(list), None)
  <2>1. ListOK' /\ Linear!Become(<<>>, None) /\ listcall' = <<"clear">>
    BY <1>3, ClearKeeps, OnListGives
  <2>2. listcall' # <<"new">>
    BY <2>1
  <2> QED
    BY <2>1, <2>2 DEF Linear!Next, Linear!Call
<1> QED
  BY <1>1, <1>2, <1>3 DEF ListArranges

\* Search, dup and load.
LEMMA ReadsImplement ==
  ASSUME NEW n, IsList(list, n), ListSearches \/ ListCopies
  PROVE  ListOK' /\ Linear!Next
<1>1. n \in Nat /\ list.num \in Nat /\ Elements(list) \in Seq(Elems)
  BY ElementsSeq DEF IsList
<1>2. ASSUME NEW e \in Elems, OnList(<<"lsearch", e>>, list, LSearch(list, e))
      PROVE  ListOK' /\ Linear!Next
  <2>1. Gives(list, Elements(list))
    BY <1>1 DEF Gives
  <2>2. ListOK' /\ Linear!Become(Elements(list), LSearch(list, e)) /\ listcall' = <<"lsearch", e>>
    BY <1>2, <2>1, OnListGives
  <2>3. LSearch(list, e) = IF Contains(Elements(list), e)
                           THEN (CHOOSE i \in DOMAIN Elements(list) :
                                   /\ Elements(list)[i] = e
                                   /\ \A j \in 1 .. i - 1 : Elements(list)[j] # e) - 1
                           ELSE -1
    BY SearchRight
  <2>4. Linear!LSearch(e)
    BY <2>2, <2>3, Zenon DEF Linear!LSearch, Linear!Become, Linear!Contains, Contains
  <2>5. listcall' # <<"new">>
    BY <2>2
  <2> QED
    BY <2>2, <2>4, <2>5 DEF Linear!Next, Linear!Call
<1>3. CASE OnList(<<"dup">>, ListDup(list), None)
  <2>1. ListOK' /\ Linear!Become(Elements(list), None) /\ listcall' = <<"dup">>
    BY <1>3, DupKeeps, OnListGives
  <2>2. listcall' # <<"new">>
    BY <2>1
  <2> QED
    BY <2>1, <2>2 DEF Linear!Next, Linear!Call
<1>4. CASE OnList(<<"load">>, ListLoad(Elements(list), list.num * ElemSize), None)
  <2>1. list.num * ElemSize \in Nat
    BY <1>1, ListCallsAssumption
  <2>2. Gives(ListLoad(Elements(list), list.num * ElemSize), Elements(list))
    BY <1>1, <2>1, LoadKeeps
  <2>3. ListOK' /\ Linear!Become(Elements(list), None) /\ listcall' = <<"load">>
    BY <1>4, <2>2, OnListGives
  <2>4. listcall' # <<"new">>
    BY <2>3
  <2> QED
    BY <2>3, <2>4 DEF Linear!Next, Linear!Call
<1> QED
  BY <1>2, <1>3, <1>4 DEF ListSearches, ListCopies

---------------------------------------------------------------------------
(* The refinement *)

\* ListImplements: whatever calls are made, the array list answers and holds
\* what a sequence would.
THEOREM ListIsImplemented == ListSpec => ListImplements
<1>1. ListInit => ListOK /\ Linear!Init
  <2> SUFFICES ASSUME ListInit PROVE ListOK /\ Linear!Init
    OBVIOUS
  <2>1. Gives(list, <<>>) /\ listcall = <<"new">> /\ listret = None
    BY NewKeeps DEF ListInit
  <2> QED
    BY <2>1 DEF Gives, ListOK, Linear!Init
<1>2. ListOK /\ [ListNext]_listvars => ListOK' /\ [Linear!Next]_(Linear!vars)
  <2> SUFFICES ASSUME ListOK, [ListNext]_listvars PROVE ListOK' /\ [Linear!Next]_(Linear!vars)
    OBVIOUS
  <2>1. PICK n \in Nat : IsList(list, n)
    BY DEF ListOK
  <2>2. CASE ListNext
    BY <2>1, <2>2, AddsImplement, TakesImplement, EditsImplement, ArrangesImplement, ReadsImplement
       DEF ListNext
  <2>3. CASE UNCHANGED listvars
    BY <2>1, <2>3 DEF listvars, ListOK, Linear!vars
  <2> QED
    BY <2>2, <2>3
<1> QED
  BY <1>1, <1>2, PTL DEF ListSpec, ListImplements, Linear!Spec

================================================================================
