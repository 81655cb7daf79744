------------------------------- MODULE SortedMap -------------------------------
(***************************************************************************)
(* What the ordered tree promises its caller: a dictionary, an iterator    *)
(* that goes upwards through the keys, and the removal of a number of      *)
(* records whose choice is the tree's.  The shape of the tree does not     *)
(* show.                                                                   *)
(***************************************************************************)
EXTENDS Integers, Sequences, FiniteSets, Functions

CONSTANTS Keys, Vals, None, Discard, Base

VARIABLES
  vals,  \* the value of each key that is stored
  cur,   \* the key the iterator returns next, or None
  call,  \* the last call
  ret    \* what it returned

vars == <<vals, cur, call, ret>>

Stored == DOMAIN vals

Init == vals = [k \in {} |-> None] /\ cur = None /\ call = <<"new">> /\ ret = None

Least(ks) == IF ks = {} THEN None ELSE CHOOSE k \in ks : \A l \in ks : k <= l

\* The first of the keys ks behind k.
Behind(k, ks) == Least({l \in ks : l > k})

Value(k) == IF k \in Stored THEN vals[k] ELSE None

Same(answer) == ret' = answer /\ UNCHANGED <<vals, cur>>

Put(k, v) == /\ vals' = [x \in Stored \cup {k} |-> IF x = k THEN v ELSE vals[x]]
             /\ ret' = TRUE /\ UNCHANGED cur

PutCat(k, v) == Put(k, IF k \in Stored THEN vals[k] \o v ELSE v)

PutKeep(k, v) == IF k \in Stored THEN Same(FALSE) ELSE Put(k, v)

Get(k) == Same(Value(k))

\* An integer is a value of one digit.
AddInt(k, num) == LET sum == <<(Value(k)[1] + num) % Base>>
                  IN IF k \notin Stored THEN Put(k, <<num>>)
                     ELSE IF Len(vals[k]) = 1 THEN Put(k, sum) ELSE Same(FALSE)

\* The iterator on a key that goes moves to the next one that stays.
Drop(ks) == LET stay == Stored \ ks
            IN /\ vals' = Restrict(vals, stay)
               /\ cur' = IF cur \in ks THEN Behind(cur, stay) ELSE cur
               /\ ret' = TRUE

Out(k) == IF k \in Stored THEN Drop({k}) ELSE Same(FALSE)

\* The caller decides what becomes of a record that exists.
PutProc(k, v, answer) ==
  IF k \notin Stored THEN IF v = None THEN Same(FALSE) ELSE Put(k, v)
  ELSE IF answer = Discard THEN Out(k)
  ELSE IF answer = None THEN Same(FALSE) ELSE Put(k, answer)

CutFringe(num) ==
  \E ks \in SUBSET Stored :
    /\ Cardinality(ks) = IF num < Cardinality(Stored) THEN num ELSE Cardinality(Stored)
    /\ Drop(ks)

SetCur(k) == cur' = k /\ ret' = TRUE /\ UNCHANGED vals

\* In front of a key that is larger than every key stored the iterator stays.
IterInit2(k) == LET from == Least({l \in Stored : l >= k})
                IN SetCur(IF from = None THEN cur ELSE from)

IterNext == /\ ret' = cur /\ UNCHANGED vals
            /\ cur' = IF cur = None THEN None ELSE Behind(cur, Stored)

\* The keys of a set, in ascending order, at most max of them.
FwmKeys(ks, max) ==
  LET n == IF max < Cardinality(ks) THEN max ELSE Cardinality(ks)
  IN \E s \in [1 .. n -> ks] :
       /\ \A i \in 1 .. n : \A k \in ks : k < s[i] <=> \E j \in 1 .. i - 1 : s[j] = k
       /\ Same(s)

Clear == vals' = [k \in {} |-> None] /\ cur' = None /\ ret' = TRUE

Call(c, A) == call' = c /\ A

\* An object is created once.
Next ==
  /\ call' # <<"new">>
  /\ \/ \E k \in Keys, v \in Vals :
          \/ Call(<<"put", k, v>>, Put(k, v)) \/ Call(<<"put3", k, v>>, Put(k, v))
          \/ Call(<<"putkeep", k, v>>, PutKeep(k, v)) \/ Call(<<"putkeep3", k, v>>, PutKeep(k, v))
          \/ Call(<<"putcat", k, v>>, PutCat(k, v)) \/ Call(<<"putcat3", k, v>>, PutCat(k, v))
     \/ \E k \in Keys, v \in Vals \cup {None}, answer \in Vals \cup {None, Discard} :
          Call(<<"putproc", k, v, answer>>, PutProc(k, v, answer))
     \/ \E k \in Keys, num \in 0 .. Base - 1 : Call(<<"addint", k, num>>, AddInt(k, num))
     \/ \E k \in Keys : \/ Call(<<"get", k>>, Get(k)) \/ Call(<<"get3", k>>, Get(k))
                       \/ Call(<<"out", k>>, Out(k))
                       \/ Call(<<"iterinit2", k>>, IterInit2(k))
     \/ Call(<<"iterinit">>, SetCur(Least(Stored))) \/ Call(<<"iternext">>, IterNext)
     \/ \E lo, hi \in Keys, max \in 0 .. Cardinality(Keys) :
          Call(<<"fwmkeys", lo, hi, max>>, FwmKeys({x \in Stored : lo <= x /\ x <= hi}, max))
     \/ Call(<<"foreach">>, FwmKeys(Stored, Cardinality(Stored)))
     \/ \E num \in 0 .. Cardinality(Keys) + 1 : Call(<<"cutfringe", num>>, CutFringe(num))
     \/ Call(<<"clear">>, Clear)
     \/ Call(<<"dup">>, SetCur(None)) \/ Call(<<"load">>, SetCur(None))

Spec == Init /\ [][Next]_vars
=============================================================================
