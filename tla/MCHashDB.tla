------------------------------- MODULE MCHashDB -------------------------------
(***************************************************************************)
(* Small instances of HashDB.  A value is a sequence of atoms of AtomSize  *)
(* bytes; the keys differ in bucket, second hash and order as a run needs. *)
(***************************************************************************)
EXTENDS HashDB

CONSTANTS k1, k2, k3, k4, a, AtomSize

MCKeys3 == {k1, k2, k3}
MCKeys4 == {k1, k2, k3, k4}

\* One bucket: every key is a node of one tree, some with equal hashes.
MCOneBucket == {1}
MCBucketOf1 == [k \in Keys |-> 1]
MCTwoBuckets == {1, 2}
MCBucketOf2 == [k \in Keys |-> IF k = k3 THEN 2 ELSE 1]

MCHashOf == [k \in Keys |-> IF k = k1 THEN 5 ELSE IF k = k2 THEN 5
                            ELSE IF k = k3 THEN 3 ELSE 8]
MCKeyOrd == [k \in Keys |-> IF k = k1 THEN 2 ELSE IF k = k2 THEN 1
                            ELSE IF k = k3 THEN 3 ELSE 4]

MCValSize(v) == Len(v) * AtomSize

\* Sequences of atoms up to a length: records of as many sizes.
MCUpTo1 == {<<>>, <<a>>}
MCUpTo2 == {<<>>, <<a>>, <<a, a>>}

\* What a call may depend on: everything but the last answer.
WithoutAnswer == <<db, status, due, seen, kept, doubt>>

\* Nothing reads the record count of a file that death has left half written.
WithoutCount == <<[db EXCEPT !.rnum = IF doubt = {} THEN @ ELSE 0], status, kept, doubt>>

\* Without an iterator, and with at most one key in doubt.
OneDoubt == db.iter = 0 /\ Cardinality(doubt) <= 1

\* Either two keys and no iterator, or an iterator and three keys with short
\* records in a short file.
Narrow == \/ db.iter = 0 /\ kept[k3] = Absent
          \/ db.fsiz <= 16 /\ \A k \in Keys : kept[k] \in MCUpTo1 \cup {Absent}
=============================================================================
