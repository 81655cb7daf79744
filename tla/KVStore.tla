-------------------------------- MODULE KVStore --------------------------------
(***************************************************************************)
(* What the hash database promises its caller: a dictionary, an answer to  *)
(* every call, and an iterator.  Nothing is said of files.                 *)
(*                                                                         *)
(* The iterator's promise, after the comment above tchdbiternext in        *)
(* tchdb.h: every key present since the iterator was set is returned, and  *)
(* no key is returned twice, as long as it is not itself written; keys     *)
(* written meanwhile may be returned or not.                               *)
(***************************************************************************)
EXTENDS Sequences

CONSTANTS Keys, Vals, Absent, NoKey

VARIABLES
  kv,    \* the dictionary, Absent where there is no record
  ret,   \* what the last call returned: an error code and a key
  due,   \* keys the iterator has still to return
  seen   \* keys the iterator has returned

vars == <<kv, ret, due, seen>>

Answer(ecode, k) == [ecode |-> ecode, key |-> k]

Present == {k \in Keys : kv[k] # Absent}

Init == /\ kv = [k \in Keys |-> Absent]
        /\ ret = Answer("success", NoKey)
        /\ due = {} /\ seen = {}

\* The iterator owes nothing for a key that is written.
Write(k, v) == /\ ret' = Answer("success", NoKey)
               /\ due' = due \ {k} /\ seen' = seen \ {k}
               /\ kv'[k] = v /\ \A l \in Keys \ {k} : kv'[l] = kv[l]

Refuse(ecode) == ret' = Answer(ecode, NoKey) /\ UNCHANGED <<kv, due, seen>>

\* put, putkeep of a new key, and putcat, of which v is the result; putkeep of an
\* old key; out.
Put(k, v) == Write(k, v)

PutKeep(k) == Refuse("keep") /\ kv[k] # Absent

Out(k) == \/ Write(k, Absent) /\ kv[k] # Absent
          \/ Refuse("norec") /\ kv[k] = Absent

IterInit == /\ due' = Present /\ seen' = {} /\ UNCHANGED kv
            /\ ret' = Answer("success", NoKey)

IterNext == \/ \E k \in Present \ seen :
                 /\ due' = due \ {k} /\ seen' = seen \cup {k}
                 /\ ret' = Answer("success", k) /\ UNCHANGED kv
            \/ due = {} /\ Refuse("norec")

\* Optimization, opening and closing lose no record but end the iteration.
Reorganise == /\ due' = {} /\ seen' = {} /\ UNCHANGED kv
              /\ ret' = Answer("success", NoKey)

Defrag == ret' = Answer("success", NoKey) /\ UNCHANGED <<kv, due, seen>>

\* A call of a closed database, or of an iterator that was not set.
Invalid == due = {} /\ Refuse("invalid")

Vanish == /\ kv' = [k \in Keys |-> Absent]
          /\ due' = {} /\ seen' = {} /\ ret' = Answer("success", NoKey)

Next == \/ \E k \in Keys, v \in Vals : Put(k, v)
        \/ \E k \in Keys : PutKeep(k) \/ Out(k)
        \/ IterInit \/ IterNext \/ Defrag \/ Reorganise \/ Vanish \/ Invalid

Spec == Init /\ [][Next]_vars
=============================================================================
