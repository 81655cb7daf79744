------------------------------ MODULE MCContainers -----------------------------
(***************************************************************************)
(* Small instances of Containers.                                          *)
(***************************************************************************)
EXTENDS Containers

CONSTANTS k1, k2, k3, k4

MCKeys == {k1, k2, k3, k4}

\* One bucket, in which two keys have the same second hash.
MCBuckets == {0}
MCBucketOf == [k \in MCKeys |-> 0]
MCHashOf == [k \in MCKeys |-> IF k \in {k1, k2} THEN 5 ELSE IF k = k3 THEN 3 ELSE 8]
MCKeyOrd == [k \in MCKeys |-> IF k = k1 THEN 2 ELSE IF k = k2 THEN 1
                              ELSE IF k = k3 THEN 3 ELSE 4]

MCVals == {<<0>>, <<1>>, <<1, 0>>}
MCPlain == <<0>>

\* What a call may depend on: everything but the last call and its answer,
\* and the size of the map, which no operation reads.
WithoutAnswer == <<focus, [map EXCEPT !.msiz = 0], tree, list>>
=============================================================================
