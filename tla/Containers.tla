------------------------------- MODULE Containers ------------------------------
(***************************************************************************)
(* The calls of the hash map, the ordered tree and the array list of       *)
(* jni/cpp/tcutil.c.  The three do not interact: a behaviour is about one  *)
(* of them, the one in `focus'.  The tree is also that of TCNDB, which     *)
(* makes every call under one mutex and so makes it in one step.           *)
(***************************************************************************)
EXTENDS MapCalls, TCTree, ListCalls

CONSTANTS
  Kinds,      \* the containers the behaviours are about
  TreeKeys,   \* the keys of the tree, integers in the order of its comparison
  Maxes       \* the limits a caller gives to a list of keys

ASSUME ContainersAssumption ==
  /\ Kinds \subseteq {"map", "tree", "list"} /\ Maxes \subseteq Nat
  /\ TreeKeys \subseteq Int /\ None \notin TreeKeys

VARIABLES
  focus,  \* the kind of container this behaviour is about
  tree,
  call,   \* the last call of the tree
  ret     \* what it returned

treevars == <<tree, call, ret>>

vars == <<focus, mapvars, treevars, listvars>>

Init == /\ focus \in Kinds /\ MapInit /\ ListInit
        /\ tree = NewTree /\ call = <<"new">> /\ ret = None

---------------------------------------------------------------------------
(* The ordered tree *)

TreeHas(k) == Lookup3(tree.root, k) # None

OnTree(c, t, answer) ==
  /\ Bounded([k \in {n.key : n \in Range(InOrder(t.root))} |-> Lookup3(t.root, k)])
  /\ tree' = t /\ call' = c /\ ret' = answer

TreeStores ==
  \E k \in TreeKeys, v \in Vals :
    \/ OnTree(<<"put", k, v>>, TreePut(tree, k, v), TRUE)
    \/ OnTree(<<"putkeep", k, v>>, TreePutKeep(tree, k, v), ~TreeHas(k))
    \/ OnTree(<<"putcat", k, v>>, TreePutCat(tree, k, v), TRUE)
    \/ OnTree(<<"put3", k, v>>, TreePut3(tree, k, v), TRUE)
    \/ OnTree(<<"putkeep3", k, v>>, TreePutKeep3(tree, k, v), ~TreeHas(k))
    \/ OnTree(<<"putcat3", k, v>>, TreePutCat3(tree, k, v), TRUE)

TreeProcesses ==
  \E k \in TreeKeys, v \in Vals \cup {None}, answer \in Vals \cup {None, Discard} :
    /\ Looked(TreeHas(k), v, answer)
    /\ OnTree(<<"putproc", k, v, answer>>, TreePutProc(tree, k, v, answer),
              Processed(TreeHas(k), v, answer))

TreeAdds ==
  \E k \in TreeKeys, num \in 0 .. Base - 1 :
    OnTree(<<"addint", k, num>>, TreeAddInt(tree, k, num),
           ~TreeHas(k) \/ IsInt(Lookup3(tree.root, k)))

TreeReads ==
  \E k \in TreeKeys : \/ OnTree(<<"get", k>>, Splayed(tree, k), TreeGet(tree, k))
                      \/ OnTree(<<"get3", k>>, tree, Lookup3(tree.root, k))

TreeOuts == \E k \in TreeKeys : OnTree(<<"out", k>>, TreeOut(tree, k), TreeHas(k))

TreeIterates ==
  \/ OnTree(<<"iterinit">>, TreeIterInit(tree), TRUE)
  \/ \E k \in TreeKeys : OnTree(<<"iterinit2", k>>, TreeIterInit2(tree, k), TRUE)
  \/ OnTree(<<"iternext">>, TreeIterNext(tree), tree.cur)

\* A prefix selects the keys of an interval.
TreeScans ==
  \/ \E lo, hi \in TreeKeys, max \in Maxes :
       LET s == FwmKeys(tree, lo, {k \in TreeKeys : lo <= k /\ k <= hi}, max)
       IN lo <= hi /\ OnTree(<<"fwmkeys", lo, hi, max>>, s.tree, s.keys)
  \/ OnTree(<<"foreach">>, Foreach(tree).tree, Foreach(tree).keys)

TreeCuts ==
  \/ \E num \in 0 .. tree.rnum + 1 : OnTree(<<"cutfringe", num>>, TreeCutFringe(tree, num), TRUE)
  \/ OnTree(<<"clear">>, TreeClear(tree), TRUE)

TreeCopies == \/ OnTree(<<"dup">>, TreeDup(tree), TRUE)
              \/ OnTree(<<"load">>, TreeLoad(TreeDump(tree)), TRUE)

TreeNext == \/ TreeStores \/ TreeProcesses \/ TreeAdds \/ TreeReads \/ TreeOuts
            \/ TreeIterates \/ TreeScans \/ TreeCuts \/ TreeCopies

---------------------------------------------------------------------------
(* All of them *)

Next == /\ UNCHANGED focus
        /\ \/ focus = "map" /\ MapNext /\ UNCHANGED <<treevars, listvars>>
           \/ focus = "tree" /\ TreeNext /\ UNCHANGED <<mapvars, listvars>>
           \/ focus = "list" /\ ListNext /\ UNCHANGED <<mapvars, treevars>>

Spec == Init /\ [][Next]_vars

---------------------------------------------------------------------------
(* Properties *)

\* Splaying, rotating and removing keep the records in ascending order (so
\* that every one is found), and count and size those of the records.
TreeIsSound ==
  LET nodes == InOrder(tree.root)
  IN /\ \A i \in 1 .. Len(nodes) - 1 : nodes[i].key < nodes[i + 1].key
     /\ tree.rnum = Len(nodes)
     /\ tree.msiz = FoldLeft(LAMBDA sum, n : sum + Size(n.val), 0, nodes)
     /\ tree.cur \in {None} \cup {nodes[i].key : i \in DOMAIN nodes}

Sorted == INSTANCE SortedMap
            WITH Keys <- TreeKeys, cur <- tree.cur,
                 vals <- [k \in {k \in TreeKeys : TreeHas(k)} |-> Lookup3(tree.root, k)]

\* To its caller the splay tree is an ordered dictionary, and no call but
\* those on the iterator disturbs an iteration that is under way.
TreeImplements == Sorted!Spec
=============================================================================
