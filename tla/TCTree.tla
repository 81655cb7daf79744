-------------------------------- MODULE TCTree ---------------------------------
(***************************************************************************)
(* The ordered tree of jni/cpp/tcutil.c (TCTREE), a splay tree, as         *)
(* operators on one record.  A tree of records is a value: Nil, or a node  *)
(* with the trees to its left and right.  The iterator `cur' is the key of *)
(* the record it points to; reallocations, which leave the order and the   *)
(* shape as they are, do not show.                                         *)
(*                                                                         *)
(* Keys are integers in the order of the comparison function.              *)
(***************************************************************************)
EXTENDS TCCommon, SequencesExt

Nil == <<>>

Node(l, k, v, r) == [left |-> l, key |-> k, val |-> v, right |-> r]

NewTree == [root |-> Nil, cur |-> None, rnum |-> 0, msiz |-> 0]

---------------------------------------------------------------------------
(* Shapes *)

RECURSIVE InOrder(_)
\* The nodes in ascending order, the walk of tctreekeys and tctreevals.
InOrder(t) == IF t = Nil THEN <<>> ELSE InOrder(t.left) \o <<t>> \o InOrder(t.right)

RECURSIVE PreOrder(_)
\* The nodes as a stack meets them that is given the left child first.
PreOrder(t) == IF t = Nil THEN <<>> ELSE <<t>> \o PreOrder(t.right) \o PreOrder(t.left)

RECURSIVE Levels(_)
\* The nodes of a sequence of trees, level by level.
Levels(ts) ==
  LET nodes == SelectSeq(ts, LAMBDA t : t # Nil)
      children == FlattenSeq([i \in DOMAIN nodes |-> <<nodes[i].left, nodes[i].right>>])
  IN IF nodes = <<>> THEN <<>> ELSE nodes \o Levels(children)

Leftmost(t) == IF t = Nil THEN None ELSE InOrder(t)[1].key

---------------------------------------------------------------------------
(* The splay operation.  The top-down splay takes the tree apart into the  *)
(* records before, the top, and the records behind; two steps in the same  *)
(* direction rotate first.                                                 *)

RotateRight(t) == [t.left EXCEPT !.right = [t EXCEPT !.left = t.left.right]]

\* Mutant: the rotation forgets the subtree between the two records.
RotateLeftLossy(t) == [t.right EXCEPT !.left = [t EXCEPT !.right = Nil]]

RotateLeft(t) == [t.right EXCEPT !.left = [t EXCEPT !.right = t.right.left]]

RECURSIVE Splay(_, _)
Splay(t, k) ==
  IF k < t.key /\ t.left # Nil
  THEN LET s == IF k < t.left.key THEN RotateRight(t) ELSE t
           rest == Splay(s.left, k)
       IN IF s.left = Nil THEN s
          ELSE [rest EXCEPT !.right = [s EXCEPT !.left = rest.right]]
  ELSE IF k > t.key /\ t.right # Nil
  THEN LET s == IF k > t.right.key THEN RotateLeft(t) ELSE t
           rest == Splay(s.right, k)
       IN IF s.right = Nil THEN s
          ELSE [rest EXCEPT !.left = [s EXCEPT !.right = rest.left]]
  ELSE t

Splayed(t, k) == IF t.root = Nil THEN t ELSE [t EXCEPT !.root = Splay(@, k)]

---------------------------------------------------------------------------
(* Operations *)

OnTop(t, k) == t.root # Nil /\ t.root.key = k

\* A new record on top of a splayed tree.
Planted(t, k, v) ==
  LET top == t.root
      new == IF top = Nil THEN Node(Nil, k, v, Nil)
             ELSE IF k < top.key THEN Node(top.left, k, v, [top EXCEPT !.left = Nil])
             ELSE Node([top EXCEPT !.right = Nil], k, v, top.right)
  IN [t EXCEPT !.root = new, !.rnum = @ + 1, !.msiz = @ + Size(v)]

TopReplaced(t, v) == [t EXCEPT !.root.val = v, !.msiz = @ + Len(v) - Len(t.root.val)]

\* The iterator on a record that goes moves to the next one.
NextOfTop(t) == IF t.cur = t.root.key THEN Leftmost(t.root.right) ELSE t.cur

\* The left subtree, splayed for the key removed, has no right child.
TopRemoved(t) ==
  LET top == t.root
      rest == IF top.left = Nil THEN top.right
              ELSE IF top.right = Nil THEN top.left
              ELSE [Splay(top.left, top.key) EXCEPT !.right = top.right]
  IN [t EXCEPT !.root = rest, !.cur = NextOfTop(t), !.rnum = @ - 1,
               !.msiz = @ - Size(top.val)]

TreePut(t, k, v) == LET s == Splayed(t, k)
                    IN IF OnTop(s, k) THEN TopReplaced(s, v) ELSE Planted(s, k, v)

TreePutKeep(t, k, v) == LET s == Splayed(t, k)
                        IN IF OnTop(s, k) THEN s ELSE Planted(s, k, v)

TreePutCat(t, k, v) == LET s == Splayed(t, k)
                       IN IF OnTop(s, k) THEN TopReplaced(s, s.root.val \o v)
                          ELSE Planted(s, k, v)

\* The callback answers None to keep the record, Discard to remove it, or a value.
TreePutProc(t, k, v, answer) ==
  LET s == Splayed(t, k)
  IN IF ~OnTop(s, k) THEN IF v = None THEN s ELSE Planted(s, k, v)
     ELSE IF answer = Discard THEN TopRemoved(s)
     ELSE IF answer = None THEN s ELSE TopReplaced(s, answer)

TreeAddInt(t, k, num) ==
  LET s == Splayed(t, k)
  IN IF ~OnTop(s, k) THEN Planted(s, k, <<num>>)
     ELSE IF IsInt(s.root.val)
     THEN [s EXCEPT !.root.val = Plus(@, num)] ELSE s

TreeOut(t, k) == LET s == Splayed(t, k) IN IF OnTop(s, k) THEN TopRemoved(s) ELSE s

TreeGet(t, k) == IF OnTop(Splayed(t, k), k) THEN Splayed(t, k).root.val ELSE None

RECURSIVE Lookup3(_, _)
\* The value of k by the way of tctreeget3, which does not splay.
Lookup3(t, k) == IF t = Nil THEN None
                 ELSE IF k = t.key THEN t.val
                 ELSE Lookup3(IF k < t.key THEN t.left ELSE t.right, k)

RECURSIVE Grown(_, _, _)
\* The tree with a record that replaces the one of its key or becomes a leaf.
Grown(t, k, v) == IF t = Nil THEN Node(Nil, k, v, Nil)
                  ELSE IF k = t.key THEN [t EXCEPT !.val = v]
                  ELSE IF k < t.key THEN [t EXCEPT !.left = Grown(@, k, v)]
                  ELSE [t EXCEPT !.right = Grown(@, k, v)]

\* The functions that do not balance nodes.
TreePut3(t, k, v) ==
  LET old == Lookup3(t.root, k)
  IN [t EXCEPT !.root = Grown(@, k, v), !.rnum = IF old = None THEN @ + 1 ELSE @,
               !.msiz = IF old = None THEN @ + Size(v) ELSE @ + Len(v) - Len(old)]

TreePutKeep3(t, k, v) == IF Lookup3(t.root, k) = None THEN TreePut3(t, k, v) ELSE t

TreePutCat3(t, k, v) ==
  TreePut3(t, k, IF Lookup3(t.root, k) = None THEN v ELSE Lookup3(t.root, k) \o v)

\* An empty tree leaves the iterator where it is.
TreeIterInit(t) == IF t.root = Nil THEN t ELSE [t EXCEPT !.cur = Leftmost(t.root)]

RECURSIVE AtOrBehind(_, _, _)
\* The record at k or the last one left on the way for a smaller key.
AtOrBehind(t, k, cur) == IF t = Nil THEN cur
                         ELSE IF k = t.key THEN k
                         ELSE IF k < t.key THEN AtOrBehind(t.left, k, t.key)
                         ELSE AtOrBehind(t.right, k, cur)

\* With no record at k or behind it, the iterator stays where it is.
TreeIterInit2(t, k) == [t EXCEPT !.cur = AtOrBehind(t.root, k, @)]

\* The key returned is the old t.cur; None ends the iteration.
TreeIterNext(t) ==
  IF t.cur = None \/ t.root = Nil THEN t
  ELSE LET s == Splayed(t, t.cur) IN [s EXCEPT !.cur = Leftmost(s.root.right)]

TreeClear(t) == NewTree

RECURSIVE Without(_, _)
\* The tree without the records of ks, all of them fringe.
Without(t, ks) == IF t = Nil \/ t.key \in ks THEN Nil
                  ELSE [t EXCEPT !.left = Without(@, ks), !.right = Without(@, ks)]

\* The children of the nodes, last level first, the left one of two first.
Fringe(t) ==
  LET nodes == Reverse(Levels(<<t>>))
      Of(n) == SelectSeq(<<n.left, n.right>>, LAMBDA c : c # Nil)
  IN FlattenSeq([i \in DOMAIN nodes |-> Of(nodes[i])])

\* Mutant: an iterator on a record that goes is lost.
CutCurLost(t, gone) == IF t.cur \in gone THEN [t EXCEPT !.cur = None] ELSE t

\* The iterator on a record that went is set again in front of its key.
CutCur(t, gone) ==
  IF t.cur \in gone THEN TreeIterInit2([t EXCEPT !.cur = None], t.cur) ELSE t

TreeCutFringe(t, num) ==
  LET fringe == Fringe(t.root)
      cut == SubSeq(fringe, 1, IF num < Len(fringe) THEN num ELSE Len(fringe))
      gone == {cut[i].key : i \in DOMAIN cut}
      Less(m, c) == m - Size(c.val)
      rest == [t EXCEPT !.root = Without(@, gone), !.rnum = @ - Len(cut),
                        !.msiz = FoldLeft(Less, @, cut)]
  IN IF t.root = Nil \/ num < 1 THEN t
     ELSE IF num > Len(fringe) THEN NewTree ELSE CutCur(rest, gone)

\* A serialized tree.
TreeDump(t) == LET ns == PreOrder(t.root) IN [i \in DOMAIN ns |-> <<ns[i].key, ns[i].val>>]

TreeLoad(dump) ==
  LET Add(t, rec) == TreePutKeep(t, rec[1], rec[2]) IN FoldLeft(Add, NewTree, dump)

TreeDup(t) ==
  LET Add(n, rec) == TreePut(n, rec[1], rec[2]) IN FoldLeft(Add, NewTree, TreeDump(t))

RECURSIVE Scanned(_, _, _, _)
\* The iteration of tcndbfwmkeys: up to max keys of `prefix', which the order
\* keeps together; the key behind them, or the max-th, ends it.
Scanned(t, prefix, max, keys) ==
  IF Len(keys) >= max \/ t.cur = None THEN [tree |-> t, keys |-> keys]
  ELSE IF t.cur \notin prefix THEN [tree |-> TreeIterNext(t), keys |-> keys]
  ELSE Scanned(TreeIterNext(t), prefix, max, Append(keys, t.cur))

\* It starts in front of the first key `lo' with the prefix, and leaves the
\* iterator as it was.
FwmKeys(t, lo, prefix, max) ==
  LET s == Scanned(TreeIterInit2(t, lo), prefix, max, <<>>)
  IN [s EXCEPT !.tree.cur = t.cur]

\* tcndbforeach: the iteration through the whole tree.
Foreach(t) ==
  LET keys == {InOrder(t.root)[i].key : i \in DOMAIN InOrder(t.root)}
      s == Scanned(TreeIterInit(t), keys, t.rnum + 1, <<>>)
  IN [s EXCEPT !.tree.cur = t.cur]
=============================================================================
