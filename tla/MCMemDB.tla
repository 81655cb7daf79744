-------------------------------- MODULE MCMemDB --------------------------------
(***************************************************************************)
(* Small instances of MemDB: three keys in two maps.                       *)
(***************************************************************************)
EXTENDS MemDB

CONSTANTS k1, k2, k3, t1, t2

MCKeys == {k1, k2, k3}

\* Two keys share a map, and the one bucket in it.
MCMapOf == [k \in MCKeys |-> IF k = k3 THEN 1 ELSE 0]
MCBuckets == {0}
MCBucketOf == [k \in MCKeys |-> 0]
MCHashOf == [k \in MCKeys |-> 5]
MCKeyOrd == [k \in MCKeys |-> IF k = k1 THEN 2 ELSE IF k = k2 THEN 1 ELSE 3]

MCPrior == {<<k2, k1, k3>>}

\* One thread iterates, scans and visits; the other makes every call.
MCCalls == [t \in {t1, t2} |->
  {<<"iterinit">>, <<"iternext">>} \cup
  IF t = t1 THEN {<<"iterinit2", k2>>, <<"fwmkeys">>, <<"foreach">>}
  ELSE {<<"put", k1, <<0>>>>, <<"putkeep", k2, <<1>>>>, <<"putcat", k3, <<1>>>>,
        <<"put3", k1, <<>>>>, <<"put4", k2, <<0>>, <<>>>>, <<"putcat3", k2, <<1>>>>,
        <<"putproc", k1, <<1>>, Discard>>, <<"addint", k3, 1>>, <<"out", k1>>,
        <<"out", k3>>, <<"get3", k2>>, <<"get", k1>>, <<"vsiz", k3>>,
        <<"vanish">>, <<"cutfront", 1>>, <<"rnum">>, <<"msiz">>, <<"foreach">>}]

MCMaxCalls == [t \in {t1, t2} |-> IF t = t1 THEN 4 ELSE 2]
=============================================================================
