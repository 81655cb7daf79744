------------------------------- MODULE ListCalls -------------------------------
(***************************************************************************)
(* The calls of the array list of jni/cpp/tcutil.c, one action for each    *)
(* group of them.                                                          *)
(***************************************************************************)
EXTENDS TCList

CONSTANTS
  Elems,     \* the elements of a list, integers in lexical order
  MaxNum,    \* bound: so many elements are in a list
  MaxSlots,  \* bound: so many slots has its array
  ElemSize   \* the serialized size of an element

ASSUME ListCallsAssumption ==
  Elems \subseteq Int /\ None \notin Elems /\ {MaxNum, MaxSlots, ElemSize} \subseteq Nat

VARIABLES
  list,
  listcall,  \* the last call
  listret    \* what it returned

listvars == <<list, listcall, listret>>

ListInit == list = NewList /\ listcall = <<"new">> /\ listret = None

OnList(c, l, answer) ==
  /\ l.num <= MaxNum /\ Anum(l) <= MaxSlots
  /\ list' = l /\ listcall' = c /\ listret' = answer

Val(index) == IF index \in 0 .. list.num - 1 THEN list.array[list.start + index] ELSE None

ListAdds ==
  \E e \in Elems : \/ OnList(<<"push", e>>, ListPush(list, e), None)
                   \/ OnList(<<"unshift", e>>, ListUnshift(list, e), None)

ListTakes == \/ OnList(<<"pop">>, ListPop(list), Val(list.num - 1))
             \/ OnList(<<"shift">>, ListShift(list), Val(0))

ListEdits ==
  \E index \in 0 .. list.num + 1 :
    \/ OnList(<<"remove", index>>, ListRemove(list, index), Val(index))
    \/ \E e \in Elems : \/ OnList(<<"insert", index, e>>, ListInsert(list, index, e), None)
                        \/ OnList(<<"over", index, e>>, ListOver(list, index, e), None)

ListArranges == \/ OnList(<<"sort">>, ListSort(list), None)
                \/ OnList(<<"invert">>, ListInvert(list), None)
                \/ OnList(<<"clear">>, ListClear(list), None)

ListSearches == \E e \in Elems : OnList(<<"lsearch", e>>, list, LSearch(list, e))

ListCopies ==
  \/ OnList(<<"dup">>, ListDup(list), None)
  \/ OnList(<<"load">>, ListLoad(Elements(list), list.num * ElemSize), None)

ListNext == ListAdds \/ ListTakes \/ ListEdits \/ ListArranges \/ ListSearches \/ ListCopies

ListSpec == ListInit /\ [][ListNext]_listvars

---------------------------------------------------------------------------
(* Properties *)

Linear == INSTANCE ElementList
            WITH elems <- Elements(list), call <- listcall, ret <- listret

\* To its caller the array is a sequence, however it grows and shifts.
ListImplements == Linear!Spec
=============================================================================
