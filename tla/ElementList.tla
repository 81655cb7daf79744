------------------------------ MODULE ElementList ------------------------------
(***************************************************************************)
(* What the array list promises its caller: a sequence.  The array, where  *)
(* in it the elements begin and how it grows do not show.  Indices count   *)
(* from 0, and a call with an index out of range changes nothing.          *)
(***************************************************************************)
EXTENDS Integers, Sequences, SequencesExt

CONSTANTS Elems, None

VARIABLES
  elems,  \* the elements
  call,   \* the last call
  ret     \* what it returned

vars == <<elems, call, ret>>

Init == elems = <<>> /\ call = <<"new">> /\ ret = None

Become(s, answer) == elems' = s /\ ret' = answer

At(index) == IF index < Len(elems) THEN elems[index + 1] ELSE None

Shift == Become(IF elems = <<>> THEN elems ELSE Tail(elems), At(0))

Pop == Become(IF elems = <<>> THEN elems ELSE Front(elems),
              IF elems = <<>> THEN None ELSE Last(elems))

Insert(index, e) ==
  Become(IF index > Len(elems) THEN elems ELSE InsertAt(elems, index + 1, e), None)

RemoveIndex(index) ==
  Become(IF index >= Len(elems) THEN elems ELSE RemoveAt(elems, index + 1), At(index))

Over(index, e) ==
  Become(IF index >= Len(elems) THEN elems ELSE ReplaceAt(elems, index + 1, e), None)

\* The elements in ascending order.
Sort == /\ \E p \in Bijection(DOMAIN elems, DOMAIN elems) :
             elems' = [i \in DOMAIN elems |-> elems[p[i]]]
        /\ \A i \in 1 .. Len(elems) - 1 : elems'[i] <= elems'[i + 1]
        /\ ret' = None

LSearch(e) ==
  Become(elems, IF Contains(elems, e)
                THEN (CHOOSE i \in DOMAIN elems :
                        elems[i] = e /\ \A j \in 1 .. i - 1 : elems[j] # e) - 1
                ELSE -1)

Call(c, A) == call' = c /\ A

\* An object is created once.
Next ==
  /\ call' # <<"new">>
  /\ \/ \E e \in Elems : \/ Call(<<"push", e>>, Become(Append(elems, e), None))
                        \/ Call(<<"unshift", e>>, Become(<<e>> \o elems, None))
                        \/ Call(<<"lsearch", e>>, LSearch(e))
     \/ Call(<<"pop">>, Pop) \/ Call(<<"shift">>, Shift)
     \/ \E index \in 0 .. Len(elems) + 1 :
          \/ Call(<<"remove", index>>, RemoveIndex(index))
          \/ \E e \in Elems : \/ Call(<<"insert", index, e>>, Insert(index, e))
                             \/ Call(<<"over", index, e>>, Over(index, e))
     \/ Call(<<"sort">>, Sort) \/ Call(<<"invert">>, Become(Reverse(elems), None))
     \/ Call(<<"clear">>, Become(<<>>, None))
     \/ Call(<<"dup">>, Become(elems, None)) \/ Call(<<"load">>, Become(elems, None))

Spec == Init /\ [][Next]_vars
=============================================================================
