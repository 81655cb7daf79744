------------------------------- MODULE MCMStore --------------------------------
(* Small instances of MStore. *)
EXTENDS MStore

CONSTANTS k1, k2, k3

MCKeys3 == {k1, k2, k3}
MCOneBucket == {1}
MCBucketOf == [k \in Keys |-> 1]
MCHashOf == [k \in Keys |-> IF k = k1 THEN 5 ELSE IF k = k2 THEN 3 ELSE 8]
MCKeyOrd == [k \in Keys |-> IF k = k1 THEN 1 ELSE IF k = k2 THEN 2 ELSE 3]

MCValSize(v) == v.size

\* zlib may shorten a value or lengthen it.
MCPacked(n) == IF n = 0 THEN {} ELSE {n \div 4, n + 2}

\* The instance meets what the theorem of the quota supposes.
ASSUME QuotaAmple

WithoutAnswer == <<db, status, maxlen, saved, now>>
===============================================================================
