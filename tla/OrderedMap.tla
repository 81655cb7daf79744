------------------------------ MODULE OrderedMap -------------------------------
(***************************************************************************)
(* What the hash map promises its caller: a dictionary whose keys keep the *)
(* order in which they were stored, an iterator that follows this order,   *)
(* and the removal of the records stored first.  Buckets, trees and links  *)
(* do not show.                                                            *)
(***************************************************************************)
EXTENDS Integers, Sequences, SequencesExt, Functions

CONSTANTS Keys, Vals, None, Discard, Base

VARIABLES
  order,  \* the keys in stored order
  vals,   \* the value of each of them
  cur,    \* the key the iterator returns next, or None
  call,   \* the last call
  ret     \* what it returned

vars == <<order, vals, cur, call, ret>>

Stored == DOMAIN vals

Init == /\ order = <<>> /\ vals = [k \in {} |-> None] /\ cur = None
        /\ call = <<"new">> /\ ret = None

First(s) == IF s = <<>> THEN None ELSE s[1]

Place(k) == CHOOSE i \in DOMAIN order : order[i] = k

\* The key behind k in the stored order.
After(k) == IF Place(k) = Len(order) THEN None ELSE order[Place(k) + 1]

Without(k) == IF k \in Stored THEN RemoveAt(order, Place(k)) ELSE order

Value(k) == IF k \in Stored THEN vals[k] ELSE None

Whole(k, v) == IF k \in Stored THEN vals[k] \o v ELSE v

Bind(k, v) == vals' = [x \in Stored \cup {k} |-> IF x = k THEN v ELSE vals[x]]

Same(answer) == ret' = answer /\ UNCHANGED <<order, vals, cur>>

\* A record that is stored again keeps its place.
Put(k, v) == /\ Bind(k, v) /\ ret' = TRUE /\ UNCHANGED cur
             /\ order' = IF k \in Stored THEN order ELSE Append(order, k)

PutCat(k, v) == Put(k, Whole(k, v))

PutKeep(k, v) == IF k \in Stored THEN Same(FALSE) ELSE Put(k, v)

\* A record that is stored or read to survive goes to the end.
Put3(k, v) == /\ Bind(k, v) /\ ret' = TRUE /\ UNCHANGED cur
              /\ order' = Append(Without(k), k)

PutCat3(k, v) == Put3(k, Whole(k, v))

Move(k, head) ==
  IF k \notin Stored THEN Same(FALSE)
  ELSE /\ order' = IF head THEN <<k>> \o Without(k) ELSE Append(Without(k), k)
       /\ ret' = TRUE /\ UNCHANGED <<vals, cur>>

Get(k) == Same(Value(k))

Get3(k) == IF k \notin Stored THEN Same(None)
           ELSE /\ order' = Append(Without(k), k) /\ ret' = vals[k]
                /\ UNCHANGED <<vals, cur>>

\* An integer is a value of one digit.
AddInt(k, num) == LET sum == <<(Value(k)[1] + num) % Base>>
                  IN IF k \notin Stored THEN Put(k, <<num>>)
                     ELSE IF Len(vals[k]) = 1 THEN Put(k, sum) ELSE Same(FALSE)

\* The iterator on a key that goes moves to the key behind it.
Out(k) == IF k \notin Stored THEN Same(FALSE)
          ELSE /\ order' = Without(k) /\ vals' = Restrict(vals, Stored \ {k})
               /\ cur' = IF cur = k THEN After(k) ELSE cur
               /\ ret' = TRUE

\* The caller decides what becomes of a record that exists.
PutProc(k, v, answer) ==
  IF k \notin Stored THEN IF v = None THEN Same(FALSE) ELSE Put(k, v)
  ELSE IF answer = Discard THEN Out(k)
  ELSE IF answer = None THEN Same(FALSE) ELSE Put(k, answer)

SetCur(k) == cur' = k /\ ret' = TRUE /\ UNCHANGED <<order, vals>>

IterInit2(k) == IF k \in Stored THEN SetCur(k) ELSE Same(TRUE)

IterNext == /\ ret' = cur /\ UNCHANGED <<order, vals>>
            /\ cur' = IF cur = None THEN None ELSE After(cur)

\* The iterator is left on the first record that remains.
CutFront(num) == LET rest == SubSeq(order, num + 1, Len(order))
                 IN /\ order' = rest /\ vals' = Restrict(vals, Range(rest))
                    /\ cur' = First(rest) /\ ret' = TRUE

Clear == /\ order' = <<>> /\ vals' = [k \in {} |-> None]
         /\ cur' = None /\ ret' = TRUE

Call(c, A) == call' = c /\ A

\* An object is created once.
Next ==
  /\ call' # <<"new">>
  /\ \/ \E k \in Keys, v \in Vals :
          \/ Call(<<"put", k, v>>, Put(k, v))
          \/ Call(<<"putkeep", k, v>>, PutKeep(k, v))
          \/ Call(<<"putcat", k, v>>, PutCat(k, v))
          \/ Call(<<"put3", k, v>>, Put3(k, v))
          \/ Call(<<"putcat3", k, v>>, PutCat3(k, v))
     \/ \E k \in Keys, v \in Vals \cup {None}, answer \in Vals \cup {None, Discard} :
          Call(<<"putproc", k, v, answer>>, PutProc(k, v, answer))
     \/ \E k \in Keys, first, last \in Vals :
          Call(<<"put4", k, first, last>>, Put(k, first \o last))
     \/ \E k \in Keys, num \in 0 .. Base - 1 : Call(<<"addint", k, num>>, AddInt(k, num))
     \/ \E k \in Keys, head \in BOOLEAN : Call(<<"move", k, head>>, Move(k, head))
     \/ \E k \in Keys : \/ Call(<<"get", k>>, Get(k))
                       \/ Call(<<"get3", k>>, Get3(k))
                       \/ Call(<<"out", k>>, Out(k))
                       \/ Call(<<"iterinit2", k>>, IterInit2(k))
     \/ Call(<<"iterinit">>, SetCur(First(order))) \/ Call(<<"iternext">>, IterNext)
     \/ \E num \in 0 .. Len(order) + 1 : Call(<<"cutfront", num>>, CutFront(num))
     \/ Call(<<"clear">>, Clear)
     \/ Call(<<"dup">>, SetCur(None)) \/ Call(<<"load">>, SetCur(None))

Spec == Init /\ [][Next]_vars
=============================================================================
