----------------------------- MODULE HashFileProofs -----------------------------
(***************************************************************************)
(* What the operations of HashFile keep of a file, for every set of keys,  *)
(* every hash and every choice of the sizes: the segments go on without    *)
(* gap or overlap to the end of the file, a hole excepted while a record   *)
(* is being written (Laid, Kept); the blocks of the pool are runs of free  *)
(* segments, no two of which share a byte (Pooled); and the records hang,  *)
(* one of each key, in the search trees of their buckets (Tree, Indexed).  *)
(*                                                                         *)
(* All three together are Sound.  A new file is sound, and PutIs,          *)
(* RemoveIs, OptimizeIs and ClosedIs say that putting a record, removing   *)
(* one, optimizing, closing and opening keep a file so; SoundIs says what  *)
(* that means for who reads it.                                            *)
(***************************************************************************)
EXTENDS HashFile, FiniteSetTheorems, WellFoundedInduction, SequenceTheorems, TLAPS

---------------------------------------------------------------------------
(* Keys *)

\* What a tree entry refers to that refers to no record.
Nothing == CHOOSE x : x \notin Keys

\* The larger hash value, and of equal ones the larger key, is greater: its
\* record lies to the left.
Greater(k, r) == \/ HashOf[k] > HashOf[r]
                 \/ HashOf[k] = HashOf[r] /\ KeyOrd[k] > KeyOrd[r]

\* What is assumed of keys and buckets.
LEMMA KeysInBuckets ==
  /\ BucketOf \in [Keys -> Buckets] /\ HashOf \in [Keys -> Nat]
  /\ KeyOrd \in [Keys -> Nat] /\ Nothing \notin Keys
  /\ \A k, l \in Keys : KeyOrd[k] = KeyOrd[l] => k = l
BY LayoutAssumption, NoSetContainsEverything DEF Nothing

---------------------------------------------------------------------------
(* The trees *)

\* A nonempty set of numbers has a smallest one.
LEMMA LeastOne ==
  ASSUME NEW S \in SUBSET Nat, S # {}
  PROVE  \E m \in S : \A k \in S : m <= k
<1>1. PICK m \in S : \A k \in S : <<k, m>> \notin OpToRel(<, Nat)
  BY NatLessThanWellFounded, WFMin
<1>2. \A k \in S : ~(k < m)
  BY <1>1 DEF OpToRel
<1> QED
  BY <1>2

Sides == {"left", "right"}

SlotsOf(D) == ({"bucket"} \X Buckets) \cup (Sides \X D)

\* The side of the record r on which the key x is sought.
Side(r, x) == IF Greater(x, r) THEN "left" ELSE "right"

Ptr(D) == D \cup {Nothing}

Below(sub, x) == IF x = Nothing THEN {} ELSE sub[x]

\* sub is what hangs below each record of D, where at says what is in each slot.
Tree(D, at, sub) ==
  /\ D \subseteq Keys /\ IsFiniteSet(D)
  /\ at \in [SlotsOf(D) -> Ptr(D)]
  /\ sub \in [D -> SUBSET D]
  /\ \A r \in D :
       sub[r] = {r} \cup Below(sub, at[<<"left", r>>]) \cup Below(sub, at[<<"right", r>>])
  /\ \A r \in D, f \in Sides : \A x \in Below(sub, at[<<f, r>>]) : x # r /\ Side(r, x) = f
  /\ \A b \in Buckets : Below(sub, at[<<"bucket", b>>]) = {x \in D : BucketOf[x] = b}

\* A slot is a bucket or a side of a record.
LEMMA SlotKinds ==
  ASSUME NEW D, NEW s \in SlotsOf(D)
  PROVE  \/ \E b \in Buckets : s = <<"bucket", b>>
         \/ \E f \in Sides, r \in D : s = <<f, r>>
BY DEF SlotsOf, Sides

\* Buckets and sides of records are slots, and different ones.
LEMMA SlotIn ==
  ASSUME NEW D
  PROVE  /\ \A b \in Buckets : <<"bucket", b>> \in SlotsOf(D)
         /\ \A f \in Sides, r \in D : <<f, r>> \in SlotsOf(D)
         /\ \A b, f, r, g, q : f \in Sides => <<"bucket", b>> # <<f, r>>
BY DEF SlotsOf, Sides

\* Of a child less hangs than of its parent.
LEMMA ChildBelow ==
  ASSUME NEW D, NEW at, NEW sub, Tree(D, at, sub), NEW r \in D, NEW f \in Sides,
         NEW c, c = at[<<f, r>>], c # Nothing
  PROVE  /\ c \in D /\ c \in sub[c] /\ sub[c] \subseteq sub[r] /\ r \notin sub[c]
         /\ \A x \in sub[c] : Side(r, x) = f
         /\ r \in sub[r] /\ c \in sub[r] /\ c # r
<1>1. c \in D
  BY SlotIn DEF Tree, Ptr
<1>2. Below(sub, c) = sub[c]
  BY DEF Below
<1>3. \A x \in sub[c] : x # r /\ Side(r, x) = f
  BY <1>2 DEF Tree
<1>4. sub[r] = {r} \cup Below(sub, at[<<"left", r>>]) \cup Below(sub, at[<<"right", r>>])
  BY DEF Tree
<1>5. sub[c] \subseteq sub[r]
  BY <1>2, <1>4 DEF Sides
<1>6. c \in sub[c]
  BY <1>1, ZenonT(40) DEF Tree
<1> QED
  BY <1>1, <1>3, <1>4, <1>5, <1>6

\* There are two sides.
LEMMA TwoSides ==
  "left" \in Sides /\ "right" \in Sides /\ \A g \in Sides : g = "left" \/ g = "right"
BY DEF Sides

\* A record counts as below itself.
LEMMA SelfBelow ==
  ASSUME NEW D, NEW at, NEW sub, Tree(D, at, sub), NEW r \in D
  PROVE  r \in sub[r] /\ r # Nothing /\ Below(sub, r) = sub[r] /\ sub[r] \subseteq D /\ r \in Keys
<1>1. r \in sub[r] /\ sub[r] \subseteq D /\ r \in Keys
  BY DEF Tree
<1> QED
  BY <1>1, KeysInBuckets DEF Below

\* What is below a record is the record or below a child of it.
LEMMA BelowSplit ==
  ASSUME NEW D, NEW at, NEW sub, Tree(D, at, sub), NEW r \in D, NEW x \in sub[r], x # r
  PROVE  /\ at[<<Side(r, x), r>>] # Nothing /\ at[<<Side(r, x), r>>] \in D
         /\ x \in sub[at[<<Side(r, x), r>>]] /\ Side(r, x) \in Sides
<1>1. sub[r] = {r} \cup Below(sub, at[<<"left", r>>]) \cup Below(sub, at[<<"right", r>>])
  BY DEF Tree
<1>2. PICK f \in Sides : x \in Below(sub, at[<<f, r>>])
  BY <1>1 DEF Sides
<1>3. Side(r, x) = f
  BY <1>2 DEF Tree
<1>4. at[<<f, r>>] # Nothing /\ x \in sub[at[<<f, r>>]]
  BY <1>2 DEF Below
<1> QED
  BY <1>2, <1>3, <1>4, ChildBelow

\* A set of records has one of which no child is in the set.
LEMMA LowestRecord ==
  ASSUME NEW D, NEW at, NEW sub, Tree(D, at, sub),
         NEW R, R \subseteq D, R # {}
  PROVE  \E r \in R : \A f \in Sides : at[<<f, r>>] \notin R
<1>1. \A x \in D : IsFiniteSet(sub[x])
  BY FS_Subset DEF Tree
<1>2. PICK N : N = {Cardinality(sub[r]) : r \in R}
  OBVIOUS
<1>3. \A r \in R : Cardinality(sub[r]) \in Nat
  BY <1>1, FS_CardinalityType
<1>4. N \in SUBSET Nat /\ N # {}
  BY <1>2, <1>3
<1>5. PICK n \in N : \A k \in N : n <= k
  BY <1>4, LeastOne
<1>6. PICK r \in R : n = Cardinality(sub[r])
  BY <1>2
<1>7. ASSUME NEW f \in Sides, at[<<f, r>>] \in R
      PROVE  FALSE
  <2>1. PICK c : c = at[<<f, r>>]
    OBVIOUS
  <2>2. c # Nothing
    BY <1>7, <2>1, KeysInBuckets DEF Tree
  <2>3. sub[c] \subseteq sub[r] /\ r \in sub[r] \ sub[c]
    BY <2>1, <2>2, ChildBelow
  <2>4. Cardinality(sub[c]) <= Cardinality(sub[r]) /\ Cardinality(sub[c]) # Cardinality(sub[r])
    BY <1>1, <2>3, FS_Subset
  <2>5. n <= Cardinality(sub[c])
    BY <1>2, <1>5, <1>7, <2>1
  <2> QED
    BY <1>3, <1>6, <1>7, <2>1, <2>4, <2>5
<1> QED
  BY <1>7

\* A set of slots has one from which no child's slot is in the set.
LEMMA LowestSlot ==
  ASSUME NEW D, NEW at, NEW sub, Tree(D, at, sub),
         NEW S, S \subseteq SlotsOf(D), S # {}
  PROVE  \E s \in S : at[s] # Nothing => \A f \in Sides : <<f, at[s]>> \notin S
<1>1. PICK R : R = {at[s] : s \in {t \in S : at[t] # Nothing}}
  OBVIOUS
<1>2. CASE R = {}
  BY <1>1, <1>2
<1>3. CASE R # {}
  <2>1. R \subseteq D
    BY <1>1 DEF Tree, Ptr
  <2>2. PICK r \in R : \A f \in Sides : at[<<f, r>>] \notin R
    BY <1>3, <2>1, LowestRecord
  <2>3. PICK s \in S : at[s] = r /\ r # Nothing
    BY <1>1
  <2>4. CASE \E f \in Sides : <<f, r>> \in S
    BY <1>1, <2>2, <2>4
  <2> QED
    BY <2>3, <2>4
<1> QED
  BY <1>2, <1>3

\* What hangs below a record hangs below all that the record hangs below.
LEMMA BelowTrans ==
  ASSUME NEW D, NEW at, NEW sub, Tree(D, at, sub), NEW r \in D, NEW p \in sub[r]
  PROVE  sub[p] \subseteq sub[r] /\ p \in D
<1> DEFINE R == {x \in D : ~ \A y \in sub[x] : sub[y] \subseteq sub[x]}
<1>1. ASSUME R # {}
      PROVE  FALSE
  <2>1. PICK x \in R : \A f \in Sides : at[<<f, x>>] \notin R
    <3>1. R \subseteq D
      OBVIOUS
    <3> HIDE DEF R
    <3> QED
      BY <1>1, <3>1, LowestRecord
  <2>2. PICK y \in sub[x] : ~(sub[y] \subseteq sub[x])
    OBVIOUS
  <2>3. y # x
    BY <2>2
  <2>4. PICK f, c : f = Side(x, y) /\ c = at[<<f, x>>]
    OBVIOUS
  <2>5. c # Nothing /\ c \in D /\ y \in sub[c] /\ f \in Sides
    BY <2>3, <2>4, BelowSplit
  <2>6. c \notin R
    BY <2>1, <2>4, <2>5
  <2>7. sub[y] \subseteq sub[c]
    BY <2>5, <2>6
  <2>8. sub[c] \subseteq sub[x]
    BY <2>4, <2>5, ChildBelow
  <2> QED
    BY <2>2, <2>7, <2>8
<1>2. sub[r] \subseteq D
  BY DEF Tree
<1> QED
  BY <1>1, <1>2

\* Two records do not hang below each other.
LEMMA BelowAnti ==
  ASSUME NEW D, NEW at, NEW sub, Tree(D, at, sub), NEW r \in D, NEW p \in D,
         p \in sub[r], r \in sub[p]
  PROVE  p = r
<1>1. ASSUME p # r
      PROVE  FALSE
  <2>1. PICK f, c : f = Side(r, p) /\ c = at[<<f, r>>]
    OBVIOUS
  <2>2. c # Nothing /\ c \in D /\ p \in sub[c] /\ f \in Sides
    BY <1>1, <2>1, BelowSplit
  <2>3. sub[p] \subseteq sub[c]
    BY <2>2, BelowTrans
  <2>4. r \notin sub[c]
    BY <2>1, <2>2, ChildBelow
  <2> QED
    BY <2>3, <2>4
<1> QED
  BY <1>1

\* What is below a record is in its bucket.
LEMMA BelowInBucket ==
  ASSUME NEW D, NEW at, NEW sub, Tree(D, at, sub), NEW r \in D, NEW p \in sub[r]
  PROVE  BucketOf[p] = BucketOf[r]
<1>1. PICK b, t : b = BucketOf[r] /\ t = at[<<"bucket", b>>]
  OBVIOUS
<1>2. b \in Buckets
  BY <1>1, KeysInBuckets DEF Tree
<1>3. Below(sub, t) = {x \in D : BucketOf[x] = b}
  BY <1>1, <1>2 DEF Tree
<1>4. r \in Below(sub, t)
  BY <1>1, <1>3
<1>5. t # Nothing /\ r \in sub[t] /\ sub[t] = Below(sub, t)
  BY <1>4 DEF Below
<1>6. t \in D
  BY <1>1, <1>2, <1>5, SlotIn DEF Tree, Ptr
<1>7. p \in sub[t]
  BY <1>5, <1>6, BelowTrans
<1> QED
  BY <1>1, <1>3, <1>5, <1>7

\* A property of 0 that goes on from each number to the next up to h.
LEMMA Reached ==
  ASSUME NEW h \in Nat, NEW P, 0 \in P, \A i \in 1 .. h : i - 1 \in P => i \in P
  PROVE  \A i \in 0 .. h : i \in P
<1> DEFINE bad == {i \in 0 .. h : i \notin P}
<1>1. ASSUME bad # {}
      PROVE  FALSE
  <2>1. bad \in SUBSET Nat
    OBVIOUS
  <2>2. PICK m \in bad : \A k \in bad : m <= k
    <3> HIDE DEF bad
    <3> QED
      BY <1>1, <2>1, LeastOne
  <2>3. m \in 1 .. h /\ m - 1 \in 0 .. h /\ ~(m <= m - 1)
    BY <2>2
  <2>4. m - 1 \in P
    BY <2>2, <2>3
  <2> QED
    BY <2>2, <2>3, <2>4
<1> QED
  BY <1>1

\* A walk each step of which makes something smaller has an end.
Lessens(S, stop, nx, size, n) ==
  /\ nx \in [S -> S] /\ size \in [S -> Nat] /\ n \in Nat
  /\ \A s \in S : size[s] < n
  /\ \A s \in S : s \notin stop => size[nx[s]] < size[s]

Walks(S, stop, nx, f) ==
  /\ f \in [S -> S]
  /\ \A s \in S : f[s] = IF s \in stop THEN s ELSE f[nx[s]]

\* By the smaller sizes: the end of a walk is a function of its start.
LEMMA WalkEnds ==
  ASSUME NEW S, NEW stop, NEW nx, NEW size, NEW n, Lessens(S, stop, nx, size, n)
  PROVE  \E f : Walks(S, stop, nx, f)
<1> USE DEF Lessens
<1> DEFINE Steps(f, s) == f[s] = IF s \in stop THEN s ELSE f[nx[s]]
<1> DEFINE P == {i \in Nat : \E f \in [S -> S] : \A s \in S : size[s] < i => Steps(f, s)}
<1>1. 0 \in P
  <2>1. \A s \in S : ~(size[s] < 0)
    OBVIOUS
  <2>2. [s \in S |-> s] \in [S -> S]
    OBVIOUS
  <2> QED
    BY <2>1, <2>2
<1>2. ASSUME NEW i \in 1 .. n, i - 1 \in P
      PROVE  i \in P
  <2>1. PICK f \in [S -> S] : \A s \in S : size[s] < i - 1 => Steps(f, s)
    BY <1>2
  <2>2. PICK g : g = [s \in S |-> IF size[s] < i - 1 THEN f[s] ELSE IF s \in stop THEN s ELSE f[nx[s]]]
    OBVIOUS
  <2>3. g \in [S -> S]
    BY <2>2
  <2>4. ASSUME NEW s \in S, size[s] < i
        PROVE  Steps(g, s)
    <3>1. CASE s \in stop
      BY <2>1, <2>2, <3>1
    <3>2. CASE s \notin stop
      <4>1. nx[s] \in S /\ size[nx[s]] < i - 1
        BY <2>4, <3>2
      <4>2. g[nx[s]] = f[nx[s]]
        BY <2>2, <4>1
      <4>3. g[s] = f[nx[s]]
        BY <2>1, <2>2, <3>2
      <4> QED
        BY <3>2, <4>2, <4>3
    <3> QED
      BY <3>1, <3>2
  <2>5. i \in Nat
    OBVIOUS
  <2> QED
    BY <2>3, <2>4, <2>5
<1>3. n \in P
  <2> HIDE DEF P
  <2>1. \A i \in 0 .. n : i \in P
    BY <1>1, <1>2, Reached
  <2> QED
    BY <2>1
<1>4. PICK f \in [S -> S] : \A s \in S : Steps(f, s)
  BY <1>3
<1> QED
  BY <1>4 DEF Walks

\* The sizes of the subtrees.
LEMMA SubtreeSizes ==
  ASSUME NEW D, NEW at, NEW sub, Tree(D, at, sub)
  PROVE  \E size \in [SlotsOf(D) -> Nat], n \in Nat :
           /\ \A s \in SlotsOf(D) : size[s] < n
           /\ \A s \in SlotsOf(D), f \in Sides : at[s] # Nothing => size[<<f, at[s]>>] < size[s]
           /\ \A s \in SlotsOf(D), t \in SlotsOf(D) : at[s] = at[t] => size[s] = size[t]
<1>1. PICK size : size = [s \in SlotsOf(D) |-> Cardinality(Below(sub, at[s]))]
  OBVIOUS
<1>2. \A s \in SlotsOf(D) : Below(sub, at[s]) \subseteq D
  <2>1. \A s \in SlotsOf(D) : at[s] \in Ptr(D)
    BY DEF Tree
  <2> QED
    BY <2>1 DEF Tree, Below, Ptr
<1>3. \A s \in SlotsOf(D) : IsFiniteSet(Below(sub, at[s])) /\ size[s] <= Cardinality(D)
  BY <1>1, <1>2, FS_Subset DEF Tree
<1>4. Cardinality(D) \in Nat
  BY FS_CardinalityType DEF Tree
<1>5. \A s \in SlotsOf(D) : size[s] \in Nat
  BY <1>1, <1>3, FS_CardinalityType
<1>6. size \in [SlotsOf(D) -> Nat]
  BY <1>1, <1>5
<1>7. ASSUME NEW s \in SlotsOf(D), NEW f \in Sides, at[s] # Nothing
      PROVE  size[<<f, at[s]>>] < size[s]
  <2>1. PICK r, c : r = at[s] /\ c = at[<<f, r>>]
    OBVIOUS
  <2>2. r \in D /\ <<f, r>> \in SlotsOf(D)
    BY <1>7, <2>1, SlotIn DEF Tree, Ptr
  <2>3. Below(sub, r) = sub[r] /\ r \in sub[r]
    BY <1>7, <2>1, <2>2 DEF Below, Tree
  <2>4. Below(sub, c) \subseteq sub[r] /\ r \notin Below(sub, c)
    <3>1. CASE c = Nothing
      BY <3>1 DEF Below
    <3>2. CASE c # Nothing
      <4>1. sub[c] \subseteq sub[r] /\ r \notin sub[c]
        BY <2>1, <2>2, <3>2, ChildBelow
      <4> QED
        BY <3>2, <4>1 DEF Below
    <3> QED
      BY <3>1, <3>2
  <2>5. IsFiniteSet(sub[r])
    BY <1>3, <2>1, <2>3
  <2>6. Cardinality(Below(sub, c)) <= Cardinality(sub[r]) /\ Cardinality(Below(sub, c)) # Cardinality(sub[r])
    BY <2>3, <2>4, <2>5, FS_Subset
  <2>7. size[<<f, r>>] = Cardinality(Below(sub, c)) /\ size[s] = Cardinality(sub[r])
    BY <1>1, <2>1, <2>2, <2>3
  <2> QED
    BY <1>5, <2>1, <2>2, <2>6, <2>7
<1>8. \A s \in SlotsOf(D), t \in SlotsOf(D) : at[s] = at[t] => size[s] = size[t]
  BY <1>1
<1> QED
  <2>1. \A s \in SlotsOf(D) : size[s] < Cardinality(D) + 1
    BY <1>3, <1>4, <1>5
  <2>2. Cardinality(D) + 1 \in Nat
    BY <1>4
  <2> QED
    BY <1>6, <1>7, <1>8, <2>1, <2>2

\* The descent for k: where it goes from each slot.
Descends(D, at, k, f) ==
  /\ f \in [SlotsOf(D) -> SlotsOf(D)]
  /\ \A s \in SlotsOf(D) :
       f[s] = IF at[s] \in {Nothing, k} THEN s ELSE f[<<Side(at[s], k), at[s]>>]

\* The descent for a key ends, wherever it starts.
LEMMA DescentEnds ==
  ASSUME NEW D, NEW at, NEW sub, Tree(D, at, sub), NEW k
  PROVE  \E f : Descends(D, at, k, f)
<1>1. PICK size \in [SlotsOf(D) -> Nat], n \in Nat :
           /\ \A s \in SlotsOf(D) : size[s] < n
           /\ \A s \in SlotsOf(D), f \in Sides : at[s] # Nothing => size[<<f, at[s]>>] < size[s]
  BY SubtreeSizes
<1>2. PICK S : S = SlotsOf(D)
  OBVIOUS
<1>3. PICK stop : stop = {s \in S : at[s] \in {Nothing, k}}
  OBVIOUS
<1>4. PICK nx : nx = [s \in S |-> IF s \in stop THEN s ELSE <<Side(at[s], k), at[s]>>]
  OBVIOUS
<1>5. \A s \in S \ stop : at[s] # Nothing /\ at[s] \in D /\ Side(at[s], k) \in Sides
  BY <1>2, <1>3 DEF Tree, Ptr, Side, Sides
<1>6. nx \in [S -> S]
  BY <1>2, <1>4, <1>5, SlotIn
<1>7. \A s \in S \ stop : size[nx[s]] < size[s]
  BY <1>1, <1>2, <1>4, <1>5
<1>8. PICK f : Walks(S, stop, nx, f)
  <2>1. Lessens(S, stop, nx, size, n)
    BY <1>1, <1>2, <1>6, <1>7 DEF Lessens
  <2> QED
    BY <2>1, WalkEnds
<1>9. ASSUME NEW s \in S
      PROVE  (IF s \in stop THEN s ELSE f[nx[s]]) = IF at[s] \in {Nothing, k} THEN s ELSE f[<<Side(at[s], k), at[s]>>]
  BY <1>3, <1>4, <1>9
<1>10. \A s \in S : f[s] = IF at[s] \in {Nothing, k} THEN s ELSE f[<<Side(at[s], k), at[s]>>]
  BY <1>8, <1>9 DEF Walks
<1> QED
  BY <1>2, <1>8, <1>10 DEF Descends, Walks

\* The slot where the descent for k ends.
Home(k) == <<"bucket", BucketOf[k]>>

\* The descent comes to the record if it is below, and else to an empty slot.
LEMMA DescentFinds ==
  ASSUME NEW D, NEW at, NEW sub, Tree(D, at, sub), NEW k, NEW f, Descends(D, at, k, f),
         k # Nothing, NEW s \in SlotsOf(D)
  PROVE  /\ k \in Below(sub, at[s]) => at[f[s]] = k
         /\ k \notin Below(sub, at[s]) => at[f[s]] = Nothing
         /\ f[s] \in SlotsOf(D)
<1> DEFINE Good(t) == /\ k \in Below(sub, at[t]) => at[f[t]] = k
                      /\ k \notin Below(sub, at[t]) => at[f[t]] = Nothing
<1> DEFINE S == {t \in SlotsOf(D) : ~Good(t)}
<1>1. ASSUME S # {}
      PROVE  FALSE
  <2>1. PICK t \in S : at[t] # Nothing => \A g \in Sides : <<g, at[t]>> \notin S
    <3>1. S \subseteq SlotsOf(D)
      OBVIOUS
    <3> HIDE DEF S
    <3> QED
      BY <1>1, <3>1, LowestSlot
  <2>2. t \in SlotsOf(D) /\ ~Good(t)
    OBVIOUS
  <2>3. CASE at[t] = Nothing
    BY <2>2, <2>3 DEF Below, Descends
  <2>4. CASE at[t] = k
    <3>1. at[t] \in D
      BY <2>2, <2>4 DEF Tree, Ptr
    <3>2. k \in Below(sub, at[t])
      BY <2>4, <3>1 DEF Tree, Below
    <3> QED
      BY <2>2, <2>4, <3>2 DEF Descends
  <2>5. CASE at[t] # Nothing /\ at[t] # k
    <3>1. PICK r, g, u : r = at[t] /\ g = Side(r, k) /\ u = <<g, r>>
      OBVIOUS
    <3>2. r \in D /\ g \in Sides /\ u \in SlotsOf(D)
      BY <2>2, <2>5, <3>1, SlotIn DEF Tree, Ptr, Side, Sides
    <3>3. Good(u)
      BY <2>1, <2>5, <3>1, <3>2
    <3>4. f[t] = f[u]
      BY <2>2, <2>5, <3>1 DEF Descends
    <3>5. k \in Below(sub, r) <=> k \in Below(sub, at[u])
      <4>1. Below(sub, r) = sub[r]
        BY <2>5, <3>1 DEF Below
      <4>2. ASSUME k \in sub[r]
            PROVE  k \in Below(sub, at[u])
        BY <2>5, <3>1, <3>2, <4>2, BelowSplit DEF Below
      <4>3. ASSUME k \in Below(sub, at[u])
            PROVE  k \in sub[r]
        <5>1. at[u] # Nothing /\ k \in sub[at[u]]
          BY <4>3 DEF Below
        <5> QED
          BY <3>1, <3>2, <5>1, ChildBelow
      <4> QED
        BY <4>1, <4>2, <4>3
    <3> QED
      BY <2>2, <3>1, <3>3, <3>4, <3>5
  <2> QED
    BY <2>3, <2>4, <2>5
<1> QED
  BY <1>1 DEF Descends

\* From a slot above p, the descent for what is in a slot of p comes to it.
LEMMA DescentToChild ==
  ASSUME NEW D, NEW at, NEW sub, Tree(D, at, sub), NEW k \in D, NEW f, Descends(D, at, k, f),
         NEW g \in Sides, NEW p \in D, at[<<g, p>>] = k,
         NEW s \in SlotsOf(D), p \in Below(sub, at[s])
  PROVE  f[s] = <<g, p>>
<1> DEFINE S == {t \in SlotsOf(D) : p \in Below(sub, at[t]) /\ f[t] # <<g, p>>}
<1>0. /\ k \in sub[p] /\ k # p /\ Side(p, k) = g /\ k # Nothing /\ k \in sub[k] /\ p \notin sub[k]
      /\ <<g, p>> \in SlotsOf(D) /\ p # Nothing
  BY ChildBelow, SlotIn, KeysInBuckets DEF Tree
<1>1. ASSUME S # {}
      PROVE  FALSE
  <2>1. PICK t \in S : at[t] # Nothing => \A h \in Sides : <<h, at[t]>> \notin S
    <3>1. S \subseteq SlotsOf(D)
      OBVIOUS
    <3> HIDE DEF S
    <3> QED
      BY <1>1, <3>1, LowestSlot
  <2>2. t \in SlotsOf(D) /\ p \in Below(sub, at[t]) /\ f[t] # <<g, p>>
    OBVIOUS
  <2>3. PICK r : r = at[t]
    OBVIOUS
  <2>4. r # Nothing /\ r \in D /\ p \in sub[r]
    BY <2>2, <2>3 DEF Below, Tree, Ptr
  <2>5. r # k
    BY <1>0, <2>4
  <2>6. PICK h, u : h = Side(r, k) /\ u = <<h, r>>
    OBVIOUS
  <2>7. h \in Sides /\ u \in SlotsOf(D) /\ f[t] = f[u]
    BY <2>2, <2>3, <2>4, <2>5, <2>6, SlotIn DEF Descends, Side, Sides
  <2>8. CASE r = p
    BY <1>0, <2>2, <2>6, <2>7, <2>8 DEF Descends
  <2>9. CASE r # p
    <3>1. PICK e, c : e = Side(r, p) /\ c = at[<<e, r>>]
      OBVIOUS
    <3>2. c # Nothing /\ c \in D /\ p \in sub[c] /\ e \in Sides
      BY <2>4, <2>9, <3>1, BelowSplit
    <3>3. k \in sub[c]
      BY <1>0, <3>2, BelowTrans
    <3>4. Side(r, k) = e
      BY <2>4, <3>1, <3>2, <3>3, ChildBelow
    <3>5. p \in Below(sub, at[u])
      BY <2>6, <3>1, <3>2, <3>4 DEF Below
    <3>6. u \notin S
      BY <2>1, <2>3, <2>4, <2>6, <2>7
    <3> QED
      BY <2>2, <2>7, <3>5, <3>6
  <2> QED
    BY <2>8, <2>9
<1> QED
  BY <1>1

\* The only slot of a record is the one that the descent for it comes to.
LEMMA SlotUnique ==
  ASSUME NEW D, NEW at, NEW sub, Tree(D, at, sub), NEW k \in D, NEW f, Descends(D, at, k, f)
  PROVE  /\ at[f[Home(k)]] = k /\ f[Home(k)] \in SlotsOf(D) /\ Home(k) \in SlotsOf(D)
         /\ \A t \in SlotsOf(D) : at[t] = k => t = f[Home(k)]
<1>1. BucketOf[k] \in Buckets /\ k # Nothing /\ k \in Keys
  BY KeysInBuckets DEF Tree
<1>2. Home(k) \in SlotsOf(D)
  BY <1>1, SlotIn DEF Home
<1>3. Below(sub, at[Home(k)]) = {x \in D : BucketOf[x] = BucketOf[k]}
  BY <1>1 DEF Home, Tree
<1>4. at[f[Home(k)]] = k /\ f[Home(k)] \in SlotsOf(D)
  BY <1>1, <1>2, <1>3, DescentFinds
<1>5. ASSUME NEW t \in SlotsOf(D), at[t] = k
      PROVE  t = f[Home(k)]
  <2>1. CASE \E b \in Buckets : t = <<"bucket", b>>
    <3>1. PICK b \in Buckets : t = <<"bucket", b>>
      BY <2>1
    <3>2. k \in Below(sub, at[t])
      <4>1. k \in sub[k]
        BY DEF Tree
      <4> QED
        BY <1>1, <1>5, <4>1 DEF Below
    <3>3. Below(sub, at[<<"bucket", b>>]) = {x \in D : BucketOf[x] = b}
      BY DEF Tree
    <3>4. BucketOf[k] = b
      BY <3>1, <3>2, <3>3
    <3>5. t = Home(k)
      BY <3>1, <3>4 DEF Home
    <3> QED
      BY <1>2, <1>5, <3>5 DEF Descends
  <2>2. CASE \E g \in Sides, p \in D : t = <<g, p>>
    <3>1. PICK g \in Sides, p \in D : t = <<g, p>>
      BY <2>2
    <3>2. k \in sub[p]
      BY <1>1, <1>5, <3>1, ChildBelow
    <3>3. BucketOf[p] = BucketOf[k]
      BY <3>2, BelowInBucket
    <3>4. p \in Below(sub, at[Home(k)])
      BY <1>3, <3>3
    <3> QED
      BY <1>2, <1>5, <3>1, <3>4, DescentToChild
  <2> QED
    BY <2>1, <2>2, SlotKinds
<1> QED
  BY <1>2, <1>4, <1>5

\* Every record above p has the key k on the side where p is, and so has p.
LeadsTo(at, sub, k, x, p) ==
  /\ p \in Below(sub, x)
  /\ \A a \in Below(sub, x), h \in Sides : p \in Below(sub, at[<<h, a>>]) => Side(a, k) = h

\* The empty slot to which the descent for a new key leads.
LEMMA DescentPath ==
  ASSUME NEW D, NEW at, NEW sub, Tree(D, at, sub), NEW k, k \notin D, k # Nothing,
         NEW f, Descends(D, at, k, f), NEW s \in SlotsOf(D)
  PROVE  f[s] # s => \E p \in D : f[s] = <<Side(p, k), p>> /\ LeadsTo(at, sub, k, at[s], p)
<1> DEFINE Good(t) == f[t] # t => \E p \in D : f[t] = <<Side(p, k), p>> /\ LeadsTo(at, sub, k, at[t], p)
<1> DEFINE S == {t \in SlotsOf(D) : ~Good(t)}
<1>1. ASSUME S # {}
      PROVE  FALSE
  <2>1. PICK t \in S : at[t] # Nothing => \A h \in Sides : <<h, at[t]>> \notin S
    <3>1. S \subseteq SlotsOf(D)
      OBVIOUS
    <3> HIDE DEF S
    <3> QED
      BY <1>1, <3>1, LowestSlot
  <2>2. t \in SlotsOf(D) /\ ~Good(t)
    OBVIOUS
  <2>3. f[t] # t
    BY <2>2
  <2>4. PICK r : r = at[t]
    OBVIOUS
  <2>5. r # Nothing /\ r # k /\ r \in D
    BY <2>2, <2>3, <2>4 DEF Descends, Tree, Ptr
  <2>6. PICK h, u : h = Side(r, k) /\ u = <<h, r>>
    OBVIOUS
  <2>7. h \in Sides /\ u \in SlotsOf(D) /\ f[t] = f[u]
    BY <2>2, <2>4, <2>5, <2>6, SlotIn DEF Descends, Side, Sides
  <2>8. Good(u)
    BY <2>1, <2>4, <2>5, <2>6, <2>7
  <2>9. Below(sub, r) = sub[r] /\ r \in sub[r]
    BY <2>5, SelfBelow
  <2>10. CASE f[u] = u
    <3>1. ASSUME NEW a \in sub[r], NEW e \in Sides, r \in Below(sub, at[<<e, a>>])
          PROVE  FALSE
      <4>1. a \in D
        BY <2>5 DEF Tree
      <4>2. PICK c : c = at[<<e, a>>]
        OBVIOUS
      <4>3. c # Nothing /\ r \in sub[c]
        BY <3>1, <4>2 DEF Below
      <4>4. c \in D /\ a \notin sub[c] /\ sub[c] \subseteq D
        BY <4>1, <4>2, <4>3, ChildBelow DEF Tree
      <4>5. a \in sub[c]
        BY <4>3, <4>4, BelowTrans
      <4> QED
        BY <4>4, <4>5
    <3>2. LeadsTo(at, sub, k, r, r)
      BY <2>9, <3>1 DEF LeadsTo
    <3> QED
      BY <2>2, <2>4, <2>5, <2>6, <2>7, <2>10, <3>2
  <2>11. CASE f[u] # u
    <3>1. PICK p \in D : f[u] = <<Side(p, k), p>> /\ LeadsTo(at, sub, k, at[u], p)
      BY <2>8, <2>11
    <3>2. PICK c : c = at[u]
      OBVIOUS
    <3>3. c # Nothing /\ p \in sub[c] /\ Below(sub, c) = sub[c]
      BY <3>1, <3>2 DEF LeadsTo, Below
    <3>4. c \in D /\ sub[c] \subseteq sub[r] /\ \A x \in sub[c] : Side(r, x) = h
      BY <2>5, <2>6, <2>7, <3>2, <3>3, ChildBelow
    <3>5. ASSUME NEW a \in sub[r], NEW e \in Sides, p \in Below(sub, at[<<e, a>>])
          PROVE  Side(a, k) = e
      <4>1. a \in D
        BY <2>5 DEF Tree
      <4>2. PICK d : d = at[<<e, a>>]
        OBVIOUS
      <4>3. d # Nothing /\ p \in sub[d]
        BY <3>5, <4>2 DEF Below
      <4>4. Side(a, p) = e /\ d \in D /\ p \in sub[a]
        BY <4>1, <4>2, <4>3, ChildBelow
      <4>5. CASE a = r
        BY <2>6, <3>3, <3>4, <4>4, <4>5
      <4>6. CASE a # r
        <5>1. Side(r, a) \in Sides /\ at[<<Side(r, a), r>>] # Nothing /\ a \in sub[at[<<Side(r, a), r>>]]
              /\ at[<<Side(r, a), r>>] \in D
          BY <2>5, <4>6, BelowSplit
        <5>2. p \in sub[at[<<Side(r, a), r>>]]
          BY <4>4, <5>1, BelowTrans
        <5>3. Side(r, a) = Side(r, p)
          BY <2>5, <5>1, <5>2, ChildBelow
        <5>4. a \in sub[c]
          BY <2>6, <3>2, <3>3, <3>4, <5>1, <5>3
        <5> QED
          BY <3>1, <3>2, <3>3, <3>5, <5>4 DEF LeadsTo
      <4> QED
        BY <4>5, <4>6
    <3>6. LeadsTo(at, sub, k, r, p)
      BY <2>9, <3>3, <3>4, <3>5 DEF LeadsTo
    <3> QED
      BY <2>2, <2>4, <2>7, <3>1, <3>6
  <2> QED
    BY <2>10, <2>11
<1> QED
  BY <1>1

\* The records that the descent for k passes on its way to the slot t.
Passed(D, at, k, t, up) ==
  /\ up \subseteq D
  /\ \A r \in D, g \in Sides : t = <<g, r>> => r \in up /\ Side(r, k) = g
  /\ \A r \in up : t = <<Side(r, k), r>> \/ at[<<Side(r, k), r>>] \in up
  /\ \A r \in D, g \in Sides : at[<<g, r>>] \in up => r \in up /\ Side(r, k) = g
  /\ \A b \in Buckets : at[<<"bucket", b>>] \in up => b = BucketOf[k]
  /\ t = Home(k) \/ at[Home(k)] \in up
  /\ t = Home(k) \/ \E g \in Sides, r \in D : t = <<g, r>>

\* The descent for a new key ends at an empty slot, and passes records.
LEMMA PathExists ==
  ASSUME NEW D, NEW at, NEW sub, Tree(D, at, sub), NEW k \in Keys, k \notin D,
         NEW f, Descends(D, at, k, f), NEW t, t = f[Home(k)]
  PROVE  t \in SlotsOf(D) /\ at[t] = Nothing /\ \E up : Passed(D, at, k, t, up)
<1>1. k # Nothing /\ BucketOf[k] \in Buckets /\ Home(k) \in SlotsOf(D)
  BY KeysInBuckets, SlotIn DEF Home
<1>2. Below(sub, at[Home(k)]) = {x \in D : BucketOf[x] = BucketOf[k]}
  BY <1>1 DEF Tree, Home
<1>3. t \in SlotsOf(D) /\ at[t] = Nothing
  BY <1>1, <1>2, DescentFinds
<1>4. CASE t = Home(k)
  <2>1. \A r \in D, g \in Sides : t # <<g, r>>
    BY <1>4, SlotIn DEF Home
  <2>2. Passed(D, at, k, t, {})
    BY <1>4, <2>1 DEF Passed
  <2> QED
    BY <1>3, <2>2
<1>5. CASE t # Home(k)
  <2>1. PICK p \in D : t = <<Side(p, k), p>> /\ LeadsTo(at, sub, k, at[Home(k)], p)
    BY <1>1, <1>5, DescentPath
  <2>2. PICK h : h = at[Home(k)]
    OBVIOUS
  <2>3. h # Nothing /\ p \in sub[h] /\ Below(sub, h) = sub[h] /\ h \in D
    BY <1>1, <2>1, <2>2 DEF LeadsTo, Below, Tree, Ptr
  <2>4. sub[h] = {x \in D : BucketOf[x] = BucketOf[k]}
    BY <1>2, <2>2, <2>3
  <2>5. PICK up : up = {r \in D : p \in sub[r]}
    OBVIOUS
  <2>6. up \subseteq sub[h]
    <3>1. \A r \in up : BucketOf[p] = BucketOf[r]
      BY <2>5, BelowInBucket
    <3> QED
      BY <2>3, <2>4, <2>5, <3>1
  <2>7. ASSUME NEW r \in D, NEW g \in Sides, t = <<g, r>>
        PROVE  r \in up /\ Side(r, k) = g
    <3>1. r = p /\ g = Side(p, k)
      BY <2>1, <2>7
    <3> QED
      BY <2>5, <3>1, SelfBelow
  <2>8. ASSUME NEW r \in up
        PROVE  t = <<Side(r, k), r>> \/ at[<<Side(r, k), r>>] \in up
    <3>1. CASE r = p
      BY <2>1, <3>1
    <3>2. CASE r # p
      <4>1. PICK e, c : e = Side(r, p) /\ c = at[<<e, r>>]
        OBVIOUS
      <4>2. c # Nothing /\ c \in D /\ p \in sub[c] /\ e \in Sides
        BY <2>5, <3>2, <4>1, BelowSplit
      <4>3. p \in Below(sub, at[<<e, r>>])
        BY <4>1, <4>2 DEF Below
      <4>4. Side(r, k) = e
        BY <2>1, <2>2, <2>3, <2>6, <4>2, <4>3 DEF LeadsTo
      <4> QED
        BY <2>5, <4>1, <4>2, <4>4
    <3> QED
      BY <3>1, <3>2
  <2>9. ASSUME NEW r \in D, NEW g \in Sides, at[<<g, r>>] \in up
        PROVE  r \in up /\ Side(r, k) = g
    <3>1. PICK c : c = at[<<g, r>>]
      OBVIOUS
    <3>2. c # Nothing /\ c \in D /\ p \in sub[c]
      BY <2>5, <2>9, <3>1, KeysInBuckets DEF Tree
    <3>3. p \in sub[r]
      BY <3>1, <3>2, ChildBelow
    <3>4. p \in Below(sub, at[<<g, r>>])
      BY <3>1, <3>2 DEF Below
    <3>5. r \in up
      BY <2>5, <3>3
    <3> QED
      BY <2>1, <2>2, <2>3, <2>6, <3>4, <3>5 DEF LeadsTo
  <2>10. ASSUME NEW b \in Buckets, at[<<"bucket", b>>] \in up
         PROVE  b = BucketOf[k]
    <3>1. PICK c : c = at[<<"bucket", b>>]
      OBVIOUS
    <3>2. c # Nothing /\ c \in sub[c] /\ c \in D
      BY <2>5, <2>10, <3>1, SelfBelow
    <3>3. Below(sub, c) = {x \in D : BucketOf[x] = b}
      BY <3>1 DEF Tree
    <3>4. BucketOf[c] = b
      BY <3>2, <3>3 DEF Below
    <3> QED
      BY <2>4, <2>6, <2>10, <3>1, <3>4
  <2>11. h \in up
    BY <2>3, <2>5
  <2>12. Side(p, k) \in Sides
    BY DEF Side, Sides
  <2>13. Passed(D, at, k, t, up)
    BY <2>1, <2>2, <2>5, <2>7, <2>8, <2>9, <2>10, <2>11, <2>12 DEF Passed
  <2> QED
    BY <1>3, <2>13
<1> QED
  BY <1>4, <1>5

\* k in the slot t, over empty slots of its own.
Planting(D, at, E, t, k) ==
  [s \in SlotsOf(E) |-> IF s = t THEN k ELSE IF s \in SlotsOf(D) THEN at[s] ELSE Nothing]

\* A new record in the empty slot that the descent for it comes to.
LEMMA Planted ==
  ASSUME NEW D, NEW at, NEW sub, Tree(D, at, sub), NEW k \in Keys, k \notin D,
         NEW f, Descends(D, at, k, f), NEW t, t = f[Home(k)], NEW E, E = D \cup {k},
         NEW new, new = Planting(D, at, E, t, k)
  PROVE  \E sub2 : Tree(E, new, sub2)
<1> USE DEF Planting
<1>1. t \in SlotsOf(D) /\ at[t] = Nothing /\ k # Nothing
  BY PathExists, KeysInBuckets
<1>2. PICK up : Passed(D, at, k, t, up)
  BY PathExists
<1>3. PICK sub2 : sub2 = [r \in E |-> IF r = k THEN {k} ELSE IF r \in up THEN sub[r] \cup {k} ELSE sub[r]]
  OBVIOUS
<1>4. /\ \A r \in up : sub2[r] = sub[r] \cup {k}
      /\ \A r \in D \ up : sub2[r] = sub[r]
      /\ sub2[k] = {k}
  BY <1>2, <1>3 DEF Passed
<1>5. SlotsOf(D) \subseteq SlotsOf(E)
  BY DEF SlotsOf
<1>6. /\ \A s \in SlotsOf(D) : s # t => new[s] = at[s]
      /\ new[t] = k
      /\ \A g \in Sides : new[<<g, k>>] = Nothing
  <2>1. \A g \in Sides : <<g, k>> \in SlotsOf(E) /\ <<g, k>> \notin SlotsOf(D)
    BY DEF SlotsOf, Sides
  <2> QED
    BY <1>1, <1>5, <2>1
<1>7. new \in [SlotsOf(E) -> Ptr(E)]
  <2>1. \A s \in SlotsOf(D) : at[s] \in Ptr(D)
    BY DEF Tree
  <2> QED
    BY <2>1 DEF Ptr
<1>8. D \subseteq Keys /\ IsFiniteSet(D)
  BY DEF Tree
<1>9. E \subseteq Keys /\ IsFiniteSet(E)
  BY <1>8, FS_AddElement
<1>10. sub2 \in [E -> SUBSET E]
  <2>1. \A r \in D : sub[r] \subseteq D
    BY DEF Tree
  <2> QED
    BY <1>3, <2>1
<1>11. \A x \in Ptr(D) : Below(sub2, x) = Below(sub, x) \cup (IF x \in up THEN {k} ELSE {})
  <2>1. Nothing \notin D
    BY <1>8, KeysInBuckets
  <2>2. up \subseteq D
    BY <1>2 DEF Passed
  <2> QED
    BY <1>4, <2>1, <2>2 DEF Below, Ptr
<1>12. Below(sub2, k) = {k} /\ Below(sub2, Nothing) = {} /\ Below(sub, Nothing) = {}
  BY <1>1, <1>4 DEF Below
<1>13. ASSUME NEW r \in D, NEW g \in Sides
       PROVE  Below(sub2, new[<<g, r>>]) = Below(sub, at[<<g, r>>]) \cup
                (IF r \in up /\ Side(r, k) = g THEN {k} ELSE {})
  <2>1. PICK s : s = <<g, r>>
    OBVIOUS
  <2>2. s \in SlotsOf(D) /\ at[s] \in Ptr(D)
    BY <2>1, SlotIn DEF Tree
  <2>3. CASE s = t
    <3>1. r \in up /\ Side(r, k) = g
      BY <1>2, <2>1, <2>3 DEF Passed
    <3> QED
      BY <1>1, <1>6, <1>12, <2>1, <2>3, <3>1
  <2>4. CASE s # t
    <3>1. new[s] = at[s]
      BY <1>6, <2>2, <2>4
    <3>2. at[s] \in up <=> r \in up /\ Side(r, k) = g
      BY <1>2, <2>1, <2>4 DEF Passed
    <3> QED
      BY <1>11, <2>1, <2>2, <3>1, <3>2
  <2> QED
    BY <2>3, <2>4
<1>14. ASSUME NEW r \in E
       PROVE  sub2[r] = {r} \cup Below(sub2, new[<<"left", r>>]) \cup Below(sub2, new[<<"right", r>>])
  <2>1. CASE r = k
    BY <1>4, <1>6, <1>12, <2>1 DEF Sides
  <2>2. CASE r \in D
    <3>1. sub[r] = {r} \cup Below(sub, at[<<"left", r>>]) \cup Below(sub, at[<<"right", r>>])
      BY <2>2 DEF Tree
    <3>2. /\ Below(sub2, new[<<"left", r>>]) = Below(sub, at[<<"left", r>>]) \cup
               (IF r \in up /\ Side(r, k) = "left" THEN {k} ELSE {})
          /\ Below(sub2, new[<<"right", r>>]) = Below(sub, at[<<"right", r>>]) \cup
               (IF r \in up /\ Side(r, k) = "right" THEN {k} ELSE {})
      BY <1>13, <2>2 DEF Sides
    <3>3. Side(r, k) = "left" \/ Side(r, k) = "right"
      BY DEF Side
    <3>4. sub2[r] = sub[r] \cup (IF r \in up THEN {k} ELSE {})
      BY <1>4, <2>2
    <3> QED
      BY <3>1, <3>2, <3>3, <3>4
  <2> QED
    BY <2>1, <2>2
<1>15. ASSUME NEW r \in E, NEW g \in Sides, NEW x \in Below(sub2, new[<<g, r>>])
       PROVE  x # r /\ Side(r, x) = g
  <2>1. CASE r = k
    BY <1>6, <1>12, <1>15, <2>1
  <2>2. CASE r \in D
    <3>1. \A y \in Below(sub, at[<<g, r>>]) : y # r /\ Side(r, y) = g
      BY <2>2 DEF Tree
    <3>2. x \in Below(sub, at[<<g, r>>]) \/ (x = k /\ Side(r, k) = g)
      BY <1>13, <1>15, <2>2
    <3> QED
      BY <2>2, <3>1, <3>2
  <2> QED
    BY <2>1, <2>2
<1>16. ASSUME NEW b \in Buckets
       PROVE  Below(sub2, new[<<"bucket", b>>]) = {x \in E : BucketOf[x] = b}
  <2>1. PICK s : s = <<"bucket", b>>
    OBVIOUS
  <2>2. s \in SlotsOf(D) /\ at[s] \in Ptr(D)
    BY <2>1, SlotIn DEF Tree
  <2>3. Below(sub, at[s]) = {x \in D : BucketOf[x] = b}
    BY <2>1 DEF Tree
  <2>4. t = s => b = BucketOf[k]
    <3>1. ASSUME t = s
          PROVE  t = Home(k)
      BY <1>2, <2>1, <3>1, SlotIn DEF Passed
    <3> QED
      BY <2>1, <3>1 DEF Home
  <2>5. b = BucketOf[k] => t = s \/ at[s] \in up
    BY <1>2, <2>1, ZenonT(40) DEF Passed, Home
  <2>6. at[s] \in up => b = BucketOf[k]
    BY <1>2, <2>1 DEF Passed
  <2>7. CASE t = s
    BY <1>1, <1>6, <1>12, <2>1, <2>3, <2>4, <2>7
  <2>8. CASE t # s
    <3>1. Below(sub2, new[s]) = Below(sub, at[s]) \cup (IF at[s] \in up THEN {k} ELSE {})
      BY <1>6, <1>11, <2>2, <2>8
    <3> QED
      BY <2>1, <2>3, <2>5, <2>6, <2>8, <3>1
  <2> QED
    BY <2>7, <2>8
<1>17. Tree(E, new, sub2)
  BY <1>7, <1>9, <1>10, <1>14, <1>15, <1>16 DEF Tree
<1> QED
  BY <1>17

\* The walk along right pointers.
GoesRight(D, at, w) ==
  /\ w \in [D -> D]
  /\ \A x \in D : w[x] = IF at[<<"right", x>>] = Nothing THEN x ELSE w[at[<<"right", x>>]]

\* The walk along right pointers ends, wherever it starts.
LEMMA RightEnds ==
  ASSUME NEW D, NEW at, NEW sub, Tree(D, at, sub)
  PROVE  \E w : GoesRight(D, at, w)
<1>1. PICK size : size = [x \in D |-> Cardinality(sub[x])]
  OBVIOUS
<1>2. \A x \in D : IsFiniteSet(sub[x]) /\ size[x] <= Cardinality(D) /\ sub[x] \subseteq D
  BY <1>1, FS_Subset DEF Tree
<1>3. Cardinality(D) \in Nat
  BY FS_CardinalityType DEF Tree
<1>4. \A x \in D : size[x] \in Nat /\ size[x] < Cardinality(D) + 1
  <2>1. \A x \in D : size[x] \in Nat
    BY <1>1, <1>2, FS_CardinalityType
  <2> QED
    BY <1>2, <1>3, <2>1
<1>5. PICK stop, nx : /\ stop = {x \in D : at[<<"right", x>>] = Nothing}
                      /\ nx = [x \in D |-> IF x \in stop THEN x ELSE at[<<"right", x>>]]
  OBVIOUS
<1>6. ASSUME NEW x \in D, x \notin stop
      PROVE  nx[x] \in D /\ size[nx[x]] < size[x]
  <2>1. PICK c : c = at[<<"right", x>>]
    OBVIOUS
  <2>2. c # Nothing /\ nx[x] = c
    BY <1>5, <1>6, <2>1
  <2>3. c \in D /\ sub[c] \subseteq sub[x] /\ x \in sub[x] /\ x \notin sub[c]
    BY <2>1, <2>2, ChildBelow, TwoSides
  <2>4. Cardinality(sub[c]) <= Cardinality(sub[x]) /\ Cardinality(sub[c]) # Cardinality(sub[x])
    BY <1>2, <2>3, FS_Subset
  <2> QED
    BY <1>1, <1>4, <2>2, <2>3, <2>4
<1>7. Lessens(D, stop, nx, size, Cardinality(D) + 1)
  <2>1. nx \in [D -> D]
    BY <1>5, <1>6
  <2>2. size \in [D -> Nat]
    BY <1>1, <1>4
  <2> QED
    BY <1>3, <1>4, <1>6, <2>1, <2>2 DEF Lessens
<1>8. PICK w : Walks(D, stop, nx, w)
  BY <1>7, WalkEnds
<1>9. ASSUME NEW x \in D
      PROVE  w[x] = IF at[<<"right", x>>] = Nothing THEN x ELSE w[at[<<"right", x>>]]
  BY <1>5, <1>8 DEF Walks
<1> QED
  BY <1>8, <1>9 DEF GoesRight, Walks

\* It ends at the last of the records below.
LEMMA RightFinds ==
  ASSUME NEW D, NEW at, NEW sub, Tree(D, at, sub), NEW w, GoesRight(D, at, w), NEW l \in D
  PROVE  /\ w[l] \in sub[l] /\ at[<<"right", w[l]>>] = Nothing
         /\ \A a \in sub[l] : w[l] \in sub[a] /\ a # w[l] => Side(a, w[l]) = "right"
<1> DEFINE Good(x) == /\ w[x] \in sub[x] /\ at[<<"right", w[x]>>] = Nothing
                      /\ \A a \in sub[x] : w[x] \in sub[a] /\ a # w[x] => Side(a, w[x]) = "right"
<1> DEFINE R == {x \in D : ~Good(x)}
<1>1. ASSUME R # {}
      PROVE  FALSE
  <2>1. PICK x \in R : \A g \in Sides : at[<<g, x>>] \notin R
    <3>1. R \subseteq D
      OBVIOUS
    <3> HIDE DEF R
    <3> QED
      BY <1>1, <3>1, LowestRecord
  <2>2. x \in D /\ ~Good(x)
    OBVIOUS
  <2>3. x \in sub[x] /\ sub[x] \subseteq D
    BY <2>2, SelfBelow
  <2>4. CASE at[<<"right", x>>] = Nothing
    <3>1. w[x] = x
      BY <2>2, <2>4 DEF GoesRight
    <3>2. \A a \in sub[x] : x \in sub[a] => a = x
      BY <2>2, <2>3, BelowAnti
    <3> QED
      BY <2>2, <2>3, <2>4, <3>1, <3>2
  <2>5. CASE at[<<"right", x>>] # Nothing
    <3>1. PICK c : c = at[<<"right", x>>]
      OBVIOUS
    <3>2. /\ c \in D /\ sub[c] \subseteq sub[x] /\ x \notin sub[c]
          /\ \A y \in sub[c] : Side(x, y) = "right"
      BY <2>2, <2>5, <3>1, ChildBelow, TwoSides
    <3>3. Good(c)
      BY <2>1, <3>1, <3>2 DEF Sides
    <3>4. w[x] = w[c]
      BY <2>2, <2>5, <3>1 DEF GoesRight
    <3>5. PICK e : e = w[c]
      OBVIOUS
    <3>6. ASSUME NEW a \in sub[x], e \in sub[a], a # e
          PROVE  Side(a, e) = "right"
      <4>1. CASE a = x
        BY <3>2, <3>3, <3>5, <4>1
      <4>2. CASE a # x
        <5>1. PICK g, d : g = Side(x, a) /\ d = at[<<g, x>>]
          OBVIOUS
        <5>2. g \in Sides /\ d # Nothing /\ d \in D /\ a \in sub[d]
          BY <2>2, <4>2, <5>1, BelowSplit
        <5>3. e \in sub[d]
          BY <3>6, <5>2, BelowTrans
        <5>4. Side(x, e) = g
          BY <2>2, <5>1, <5>2, <5>3, ChildBelow
        <5>5. a \in sub[c]
          BY <3>1, <3>2, <3>3, <3>5, <5>1, <5>2, <5>4
        <5> QED
          BY <3>3, <3>5, <3>6, <5>5
      <4> QED
        BY <4>1, <4>2
    <3>7. e \in sub[x] /\ at[<<"right", e>>] = Nothing
      BY <3>2, <3>3, <3>5
    <3> QED
      BY <2>2, <3>4, <3>5, <3>6, <3>7
  <2> QED
    BY <2>4, <2>5
<1> QED
  BY <1>1

\* What is below a record is the child of another one there.
LEMMA HasParent ==
  ASSUME NEW D, NEW at, NEW sub, Tree(D, at, sub), NEW x \in D, NEW c \in sub[x], c # x
  PROVE  \E a \in sub[x], g \in Sides : at[<<g, a>>] = c
<1> DEFINE R == {y \in D : c \in sub[y] /\ c # y /\ ~ \E a \in sub[y], g \in Sides : at[<<g, a>>] = c}
<1>1. ASSUME R # {}
      PROVE  FALSE
  <2>1. PICK y \in R : \A g \in Sides : at[<<g, y>>] \notin R
    <3>1. R \subseteq D
      OBVIOUS
    <3> HIDE DEF R
    <3> QED
      BY <1>1, <3>1, LowestRecord
  <2>2. y \in D /\ c \in sub[y] /\ c # y /\ ~ \E a \in sub[y], g \in Sides : at[<<g, a>>] = c
    OBVIOUS
  <2>3. PICK g, d : g = Side(y, c) /\ d = at[<<g, y>>]
    OBVIOUS
  <2>4. g \in Sides /\ d # Nothing /\ d \in D /\ c \in sub[d]
    BY <2>2, <2>3, BelowSplit
  <2>5. y \in sub[y]
    BY <2>2, SelfBelow
  <2>6. d # c
    BY <2>2, <2>3, <2>4, <2>5
  <2>7. sub[d] \subseteq sub[y]
    BY <2>2, <2>3, <2>4, ChildBelow
  <2>8. d \in R
    BY <2>2, <2>4, <2>6, <2>7
  <2> QED
    BY <2>1, <2>3, <2>4, <2>8
<1> QED
  BY <1>1

\* The order of the trees.
LEMMA GreaterOrder ==
  ASSUME NEW x \in Keys, NEW y \in Keys, NEW z \in Keys
  PROVE  /\ x = y \/ Greater(x, y) \/ Greater(y, x)
         /\ ~(Greater(x, y) /\ Greater(y, x))
         /\ Greater(x, y) /\ Greater(y, z) => Greater(x, z)
<1>1. /\ HashOf[x] \in Nat /\ HashOf[y] \in Nat /\ HashOf[z] \in Nat
      /\ KeyOrd[x] \in Nat /\ KeyOrd[y] \in Nat /\ KeyOrd[z] \in Nat
      /\ KeyOrd[x] = KeyOrd[y] => x = y
  BY KeysInBuckets
<1> QED
  BY <1>1 DEF Greater

\* A removed record hangs below nothing else's slot, and its own slot is one
\* of another record, or a bucket.
LEMMA SlotsWithout ==
  ASSUME NEW D, NEW at, NEW sub, Tree(D, at, sub), NEW k \in D,
         NEW s \in SlotsOf(D), at[s] = k, NEW E, E = D \ {k}
  PROVE  /\ s \in SlotsOf(E)
         /\ \A t \in SlotsOf(E) : t # s => at[t] \in Ptr(E)
         /\ SlotsOf(E) \subseteq SlotsOf(D)
         /\ E \subseteq Keys /\ IsFiniteSet(E)
         /\ \A t \in SlotsOf(D) : at[t] = k => t = s
<1>1. PICK f : Descends(D, at, k, f)
  BY DescentEnds
<1>2. \A t \in SlotsOf(D) : at[t] = k => t = s
  BY <1>1, SlotUnique
<1>3. SlotsOf(E) \subseteq SlotsOf(D)
  BY DEF SlotsOf
<1>4. \A t \in SlotsOf(E) : t # s => at[t] \in Ptr(E)
  <2>1. \A t \in SlotsOf(D) : at[t] \in Ptr(D)
    BY DEF Tree
  <2> QED
    BY <1>2, <1>3, <2>1 DEF Ptr
<1>5. s \in SlotsOf(E)
  <2>1. CASE \E b \in Buckets : s = <<"bucket", b>>
    BY <2>1, SlotIn
  <2>2. CASE \E g \in Sides, p \in D : s = <<g, p>>
    <3>1. PICK g \in Sides, p \in D : s = <<g, p>>
      BY <2>2
    <3>2. k # p
      BY <3>1, ChildBelow, SelfBelow
    <3> QED
      BY <3>1, <3>2, SlotIn
  <2> QED
    BY <2>1, <2>2, SlotKinds
<1>6. D \subseteq Keys /\ IsFiniteSet(D)
  BY DEF Tree
<1>7. IsFiniteSet(E)
  BY <1>6, FS_RemoveElement
<1> QED
  BY <1>2, <1>3, <1>4, <1>5, <1>6, <1>7

\* A record with one child or none: the child takes its place.
LEMMA ChildLifted ==
  ASSUME NEW D, NEW at, NEW sub, Tree(D, at, sub), NEW k \in D,
         NEW s \in SlotsOf(D), at[s] = k, NEW E, E = D \ {k},
         NEW c, \/ at[<<"left", k>>] = Nothing /\ c = at[<<"right", k>>]
                \/ at[<<"right", k>>] = Nothing /\ c = at[<<"left", k>>],
         NEW new, new = [t \in SlotsOf(E) |-> IF t = s THEN c ELSE at[t]]
  PROVE  \E sub2 : Tree(E, new, sub2)
<1>1. /\ s \in SlotsOf(E)
      /\ \A t \in SlotsOf(E) : t # s => at[t] \in Ptr(E)
      /\ SlotsOf(E) \subseteq SlotsOf(D)
      /\ E \subseteq Keys /\ IsFiniteSet(E)
  BY SlotsWithout
<1>2. sub[k] = {k} \cup Below(sub, c) /\ k \notin Below(sub, c)
  <2>1. sub[k] = {k} \cup Below(sub, at[<<"left", k>>]) \cup Below(sub, at[<<"right", k>>])
    BY DEF Tree
  <2>2. /\ \A x \in Below(sub, at[<<"left", k>>]) : x # k
        /\ \A x \in Below(sub, at[<<"right", k>>]) : x # k
    BY TwoSides DEF Tree
  <2>3. Below(sub, Nothing) = {}
    BY DEF Below
  <2> QED
    BY <2>1, <2>2, <2>3
<1>3. c \in Ptr(E)
  <2>1. at[<<"left", k>>] \in Ptr(D) /\ at[<<"right", k>>] \in Ptr(D)
    BY SlotIn, TwoSides DEF Tree
  <2>2. c # k
    BY <1>2, SelfBelow
  <2> QED
    BY <2>1, <2>2 DEF Ptr
<1>4. PICK sub2 : sub2 = [a \in E |-> sub[a] \ {k}]
  OBVIOUS
<1>5. \A a \in D : sub[a] \subseteq D
  BY DEF Tree
<1>6. sub2 \in [E -> SUBSET E]
  BY <1>4, <1>5
<1>7. \A x \in Ptr(E) : Below(sub2, x) = Below(sub, x) \ {k}
  BY <1>1, <1>4, KeysInBuckets DEF Below, Ptr
<1>8. ASSUME NEW t \in SlotsOf(E)
      PROVE  new[t] \in Ptr(E) /\ Below(sub2, new[t]) = Below(sub, at[t]) \ {k}
  <2>1. CASE t = s
    <3>1. new[t] = c
      BY <2>1
    <3>2. Below(sub, at[t]) = sub[k]
      BY <2>1, SelfBelow
    <3> QED
      BY <1>2, <1>3, <1>7, <3>1, <3>2
  <2>2. CASE t # s
    BY <1>1, <1>7, <2>2
  <2> QED
    BY <2>1, <2>2
<1>9. new \in [SlotsOf(E) -> Ptr(E)]
  BY <1>8
<1>10. ASSUME NEW r \in E
       PROVE  sub2[r] = {r} \cup Below(sub2, new[<<"left", r>>]) \cup Below(sub2, new[<<"right", r>>])
  <2>1. sub[r] = {r} \cup Below(sub, at[<<"left", r>>]) \cup Below(sub, at[<<"right", r>>])
    BY DEF Tree
  <2>2. <<"left", r>> \in SlotsOf(E) /\ <<"right", r>> \in SlotsOf(E)
    BY SlotIn, TwoSides
  <2>3. /\ Below(sub2, new[<<"left", r>>]) = Below(sub, at[<<"left", r>>]) \ {k}
        /\ Below(sub2, new[<<"right", r>>]) = Below(sub, at[<<"right", r>>]) \ {k}
    BY <1>8, <2>2
  <2>4. sub2[r] = sub[r] \ {k} /\ r # k
    BY <1>4
  <2> QED
    BY <2>1, <2>3, <2>4
<1>11. ASSUME NEW r \in E, NEW g \in Sides, NEW x \in Below(sub2, new[<<g, r>>])
       PROVE  x # r /\ Side(r, x) = g
  <2>1. x \in Below(sub, at[<<g, r>>])
    BY <1>8, <1>11, SlotIn
  <2> QED
    BY <2>1 DEF Tree
<1>12. ASSUME NEW b \in Buckets
       PROVE  Below(sub2, new[<<"bucket", b>>]) = {x \in E : BucketOf[x] = b}
  <2>1. Below(sub, at[<<"bucket", b>>]) = {x \in D : BucketOf[x] = b}
    BY DEF Tree
  <2>2. <<"bucket", b>> \in SlotsOf(E)
    BY SlotIn
  <2> QED
    BY <1>8, <2>1, <2>2
<1>13. Tree(E, new, sub2)
  BY <1>1, <1>6, <1>9, <1>10, <1>11, <1>12 DEF Tree
<1> QED
  BY <1>13

\* A record with two children: the left one takes its place, and the right one
\* hangs below the last record of the left subtree.
Rejoined(at, E, s, l, e, q) ==
  [t \in SlotsOf(E) |-> IF t = s THEN l ELSE IF t = <<"right", e>> THEN q ELSE at[t]]

\* What Joined does when there are two children leaves a tree of the others.
LEMMA ChildrenJoined ==
  ASSUME NEW D, NEW at, NEW sub, Tree(D, at, sub), NEW k \in D,
         NEW s \in SlotsOf(D), at[s] = k, NEW E, E = D \ {k},
         NEW l, l = at[<<"left", k>>], l # Nothing, NEW q, q = at[<<"right", k>>], q # Nothing,
         NEW w, GoesRight(D, at, w), NEW e, e = w[l],
         NEW new, new = Rejoined(at, E, s, l, e, q)
  PROVE  e \in E /\ \E sub2 : Tree(E, new, sub2)
<1>0. new = [t \in SlotsOf(E) |-> IF t = s THEN l ELSE IF t = <<"right", e>> THEN q ELSE at[t]]
  BY DEF Rejoined
<1>1. /\ s \in SlotsOf(E)
      /\ \A t \in SlotsOf(E) : t # s => at[t] \in Ptr(E)
      /\ SlotsOf(E) \subseteq SlotsOf(D)
      /\ E \subseteq Keys /\ IsFiniteSet(E)
      /\ \A t \in SlotsOf(D) : at[t] = k => t = s
  BY SlotsWithout
<1>2. /\ l \in D /\ l \in sub[l] /\ sub[l] \subseteq sub[k] /\ k \notin sub[l]
      /\ \A x \in sub[l] : Side(k, x) = "left"
  BY ChildBelow, TwoSides
<1>3. /\ q \in D /\ q \in sub[q] /\ sub[q] \subseteq sub[k] /\ k \notin sub[q]
      /\ \A x \in sub[q] : Side(k, x) = "right"
  BY ChildBelow, TwoSides
<1>4. sub[k] = {k} \cup sub[l] \cup sub[q]
  BY DEF Tree, Below
<1>5. \A x \in sub[l] : x \notin sub[q]
  BY <1>2, <1>3
<1>6. /\ e \in sub[l] /\ at[<<"right", e>>] = Nothing
      /\ \A a \in sub[l] : e \in sub[a] /\ a # e => Side(a, e) = "right"
  BY <1>2, RightFinds
<1>7. \A a \in D : sub[a] \subseteq D
  BY DEF Tree
<1>8. /\ l \in E /\ q \in E /\ e \in E /\ l # Nothing /\ q # Nothing
      /\ <<"right", e>> # s /\ <<"right", e>> \in SlotsOf(E) /\ k # Nothing
  BY <1>2, <1>3, <1>6, <1>7, SlotIn, TwoSides, SelfBelow
<1>9. PICK SP : SP = {a \in sub[l] : e \in sub[a]}
  OBVIOUS
<1>10. l \in SP /\ e \in SP /\ q \notin SP /\ SP \subseteq E /\ SP \subseteq sub[l] /\ Nothing \notin SP
  <2>1. e \in sub[e]
    BY <1>8, SelfBelow
  <2>2. q \notin sub[l]
    BY <1>3, <1>5
  <2>3. Nothing \notin D
    BY SelfBelow
  <2> QED
    BY <1>2, <1>6, <1>7, <1>9, <2>1, <2>2, <2>3
<1>11. PICK sub2 : sub2 = [a \in E |-> (sub[a] \ {k}) \cup (IF a \in SP THEN sub[q] ELSE {})]
  OBVIOUS
<1>12. sub2 \in [E -> SUBSET E]
  BY <1>3, <1>7, <1>11
<1>13. \A x \in Ptr(E) : Below(sub2, x) = (Below(sub, x) \ {k}) \cup (IF x \in SP THEN sub[q] ELSE {})
  BY <1>1, <1>10, <1>11, KeysInBuckets DEF Below, Ptr
<1>14. ASSUME NEW c \in SP, c # l
       PROVE  \E a \in SP : at[<<"right", a>>] = c
  <2>1. PICK a \in sub[l], g \in Sides : at[<<g, a>>] = c
    BY <1>2, <1>10, <1>14, HasParent
  <2>2. c # Nothing /\ a \in D /\ e \in sub[c]
    BY <1>2, <1>7, <1>9, <1>10, <1>14, <2>1
  <2>3. a \notin sub[c] /\ sub[c] \subseteq sub[a] /\ \A x \in sub[c] : Side(a, x) = g
    BY <2>1, <2>2, ChildBelow
  <2>4. a # e /\ e \in sub[a]
    BY <2>2, <2>3
  <2>5. g = "right"
    BY <1>6, <2>1, <2>2, <2>3, <2>4
  <2> QED
    BY <1>9, <2>1, <2>4, <2>5
<1>15. ASSUME NEW t \in SlotsOf(E), NEW c \in SP, at[t] = c, c # l
       PROVE  \E a \in SP : t = <<"right", a>>
  <2>1. PICK a \in SP : at[<<"right", a>>] = c
    BY <1>14, <1>15
  <2>2. PICK f : Descends(D, at, c, f)
    BY DescentEnds
  <2>3. c \in D /\ a \in D /\ <<"right", a>> \in SlotsOf(D)
    BY <1>10, SlotIn, TwoSides
  <2>4. \A u \in SlotsOf(D) : at[u] = c => u = f[Home(c)]
    BY <2>2, <2>3, SlotUnique
  <2>5. t \in SlotsOf(D)
    BY <1>1
  <2> QED
    BY <1>15, <2>1, <2>3, <2>4, <2>5
<1>16. ASSUME NEW t \in SlotsOf(E), at[t] = l
       PROVE  FALSE
  <2>1. PICK f : Descends(D, at, l, f)
    BY DescentEnds
  <2>2. <<"left", k>> \in SlotsOf(D)
    BY SlotIn, TwoSides
  <2>3. t = <<"left", k>>
    <3>1. \A u \in SlotsOf(D) : at[u] = l => u = f[Home(l)]
      BY <1>2, <2>1, SlotUnique
    <3> QED
      BY <1>1, <1>16, <2>2, <3>1
  <2>4. <<"left", k>> \notin SlotsOf(E)
    BY DEF SlotsOf
  <2> QED
    BY <1>16, <2>3, <2>4
<1>17. ASSUME NEW a \in SP, a # e
       PROVE  at[<<"right", a>>] \in SP
  <2>1. Side(a, e) = "right" /\ a \in D /\ e \in sub[a]
    BY <1>6, <1>9, <1>10, <1>17
  <2>2. PICK c : c = at[<<"right", a>>]
    OBVIOUS
  <2>3. c # Nothing /\ c \in D /\ e \in sub[c]
    BY <1>17, <2>1, <2>2, BelowSplit
  <2>4. c \in sub[a]
    BY <2>1, <2>2, <2>3, ChildBelow, TwoSides
  <2>5. sub[a] \subseteq sub[l]
    BY <1>2, <1>10, BelowTrans
  <2> QED
    BY <1>9, <2>2, <2>3, <2>4, <2>5
<1>18. ASSUME NEW t \in SlotsOf(E)
       PROVE  /\ new[t] \in Ptr(E)
              /\ Below(sub2, new[t]) = (Below(sub, at[t]) \ {k}) \cup
                   (IF \E a \in SP : t = <<"right", a>> THEN sub[q] ELSE {})
  <2>1. CASE t = s
    <3>1. new[t] = l
      BY <2>1, <1>0
    <3>2. Below(sub, at[t]) = sub[k] /\ Below(sub, l) = sub[l]
      BY <1>2, <2>1, SelfBelow
    <3>3. l \in Ptr(E)
      BY <1>8 DEF Ptr
    <3>4. Below(sub2, l) = (sub[l] \ {k}) \cup sub[q]
      BY <1>10, <1>13, <3>2, <3>3
    <3>5. ASSUME NEW a \in SP, t = <<"right", a>>
          PROVE  FALSE
      <4>1. a \in D /\ a \in sub[k]
        BY <1>2, <1>10
      <4>2. k \in sub[a]
        BY <1>8, <2>1, <3>5, <4>1, ChildBelow, TwoSides
      <4>3. a = k
        BY <4>1, <4>2, BelowAnti
      <4> QED
        BY <1>2, <1>10, <4>3
    <3> QED
      BY <1>2, <1>3, <1>4, <3>1, <3>2, <3>3, <3>4, <3>5, <1>0
  <2>2. CASE t = <<"right", e>>
    <3>1. new[t] = q
      BY <1>8, <2>2, <1>0
    <3>2. Below(sub, at[t]) = {} /\ Below(sub, q) = sub[q]
      BY <1>6, <1>8, <2>2 DEF Below
    <3>3. q \in Ptr(E)
      BY <1>8 DEF Ptr
    <3>4. Below(sub2, q) = sub[q]
      BY <1>3, <1>10, <1>13, <3>2, <3>3
    <3> QED
      BY <1>10, <2>2, <3>1, <3>2, <3>3, <3>4
  <2>3. CASE t # s /\ t # <<"right", e>>
    <3>1. new[t] = at[t] /\ at[t] \in Ptr(E)
      BY <1>1, <2>3, <1>0
    <3>2. at[t] \in SP => \E a \in SP : t = <<"right", a>>
      BY <1>15, <1>16
    <3>3. ASSUME NEW a \in SP, t = <<"right", a>>
          PROVE  at[t] \in SP
      BY <1>17, <2>3, <3>3
    <3> QED
      BY <1>13, <3>1, <3>2, <3>3
  <2> QED
    BY <2>1, <2>2, <2>3
<1>19. new \in [SlotsOf(E) -> Ptr(E)]
  BY <1>18, <1>0
<1>20. ASSUME NEW r \in E, NEW g \in Sides
       PROVE  Below(sub2, new[<<g, r>>]) = (Below(sub, at[<<g, r>>]) \ {k}) \cup
                (IF r \in SP /\ g = "right" THEN sub[q] ELSE {})
  <2>1. <<g, r>> \in SlotsOf(E)
    BY SlotIn
  <2>2. (\E a \in SP : <<g, r>> = <<"right", a>>) <=> r \in SP /\ g = "right"
    OBVIOUS
  <2> QED
    BY <1>18, <2>1, <2>2
<1>21. ASSUME NEW r \in E
       PROVE  sub2[r] = {r} \cup Below(sub2, new[<<"left", r>>]) \cup Below(sub2, new[<<"right", r>>])
  <2>1. sub[r] = {r} \cup Below(sub, at[<<"left", r>>]) \cup Below(sub, at[<<"right", r>>])
    BY DEF Tree
  <2>2. /\ Below(sub2, new[<<"left", r>>]) = Below(sub, at[<<"left", r>>]) \ {k}
        /\ Below(sub2, new[<<"right", r>>]) = (Below(sub, at[<<"right", r>>]) \ {k}) \cup
                (IF r \in SP THEN sub[q] ELSE {})
    BY <1>20, TwoSides, SMTT(30)
  <2>3. sub2[r] = (sub[r] \ {k}) \cup (IF r \in SP THEN sub[q] ELSE {})
    BY <1>11
  <2> QED
    BY <2>1, <2>2, <2>3, ZenonT(40)
<1>22. ASSUME NEW r \in E, NEW g \in Sides, NEW x \in Below(sub2, new[<<g, r>>])
       PROVE  x # r /\ Side(r, x) = g
  <2>1. CASE x \in Below(sub, at[<<g, r>>])
    BY <2>1 DEF Tree
  <2>2. CASE x \notin Below(sub, at[<<g, r>>])
    <3>1. r \in SP /\ g = "right" /\ x \in sub[q]
      BY <1>20, <1>22, <2>2
    <3>2. Side(k, r) = "left" /\ Side(k, x) = "right" /\ x # r
      BY <1>2, <1>3, <1>5, <1>10, <3>1
    <3>3. Greater(r, k) /\ ~Greater(x, k)
      BY <3>2 DEF Side
    <3>4. x \in Keys /\ r \in Keys /\ k \in Keys
      BY <1>3, <1>7, <3>1, SelfBelow
    <3>5. ~Greater(x, r)
      BY <3>3, <3>4, GreaterOrder
    <3> QED
      BY <3>1, <3>2, <3>5 DEF Side
  <2> QED
    BY <2>1, <2>2
<1>23. ASSUME NEW b \in Buckets
       PROVE  Below(sub2, new[<<"bucket", b>>]) = {x \in E : BucketOf[x] = b}
  <2>1. Below(sub, at[<<"bucket", b>>]) = {x \in D : BucketOf[x] = b}
    BY DEF Tree
  <2>2. <<"bucket", b>> \in SlotsOf(E) /\ ~ \E a \in SP : <<"bucket", b>> = <<"right", a>>
    BY SlotIn, TwoSides
  <2> QED
    BY <1>18, <2>1, <2>2
<1>24. Tree(E, new, sub2)
  BY <1>1, <1>12, <1>19, <1>21, <1>22, <1>23 DEF Tree
<1> QED
  BY <1>8, <1>24

---------------------------------------------------------------------------
(* Recursive functions *)

\* f is what a recursion computes that stops in `stop', with res, and elsewhere
\* goes on at nx and combines by g what it finds there.
Recurs(S, V, stop, nx, res, g, f) ==
  /\ f \in [S -> V]
  /\ \A s \in S : f[s] = IF s \in stop THEN res[s] ELSE g[<<s, f[nx[s]]>>]

\* A recursion in which something becomes smaller computes something.
LEMMA Recursion ==
  ASSUME NEW S, NEW V, NEW stop, NEW nx, NEW res, NEW g, NEW size, NEW n,
         Lessens(S, stop, nx, size, n), res \in [S -> V], g \in [S \X V -> V]
  PROVE  \E f : Recurs(S, V, stop, nx, res, g, f)
<1> USE DEF Lessens
<1> DEFINE Solves(f, s) == f[s] = IF s \in stop THEN res[s] ELSE g[<<s, f[nx[s]]>>]
<1> DEFINE P == {i \in Nat : \E f \in [S -> V] : \A s \in S : size[s] < i => Solves(f, s)}
<1>1. 0 \in P
  <2>1. \A s \in S : ~(size[s] < 0)
    OBVIOUS
  <2> QED
    BY <2>1
<1>2. ASSUME NEW i \in 1 .. n, i - 1 \in P
      PROVE  i \in P
  <2>1. PICK f \in [S -> V] : \A s \in S : size[s] < i - 1 => Solves(f, s)
    BY <1>2
  <2>2. PICK h : h = [s \in S |-> IF size[s] < i - 1 THEN f[s]
                                  ELSE IF s \in stop THEN res[s] ELSE g[<<s, f[nx[s]]>>]]
    OBVIOUS
  <2>3. h \in [S -> V]
    BY <2>2
  <2>4. ASSUME NEW s \in S, size[s] < i
        PROVE  Solves(h, s)
    <3>1. CASE s \in stop
      BY <2>1, <2>2, <3>1
    <3>2. CASE s \notin stop
      <4>1. nx[s] \in S /\ size[nx[s]] < i - 1
        BY <2>4, <3>2
      <4>2. h[nx[s]] = f[nx[s]]
        BY <2>2, <4>1
      <4>3. h[s] = g[<<s, f[nx[s]]>>]
        BY <2>1, <2>2, <3>2
      <4> QED
        BY <3>2, <4>2, <4>3
    <3> QED
      BY <3>1, <3>2
  <2>5. i \in Nat
    OBVIOUS
  <2> QED
    BY <2>3, <2>4, <2>5
<1>3. n \in P
  <2> HIDE DEF P
  <2>1. \A i \in 0 .. n : i \in P
    BY <1>1, <1>2, Reached
  <2> QED
    BY <2>1
<1> QED
  BY <1>3 DEF Recurs

\* f is where a search that goes on at nx finds res.
Searches(S, V, stop, nx, res, f) ==
  /\ f \in [S -> V]
  /\ \A s \in S : f[s] = IF s \in stop THEN res[s] ELSE f[nx[s]]

\* So does one that only looks for the place where it stops.
LEMMA TailRecursion ==
  ASSUME NEW S, NEW V, NEW stop, NEW nx, NEW res, NEW size, NEW n,
         Lessens(S, stop, nx, size, n), res \in [S -> V]
  PROVE  \E f : Searches(S, V, stop, nx, res, f)
<1>1. PICK g : g = [p \in S \X V |-> p[2]]
  OBVIOUS
<1>2. g \in [S \X V -> V]
  BY <1>1
<1>3. \A s \in S, v \in V : g[<<s, v>>] = v
  BY <1>1
<1>4. PICK f : Recurs(S, V, stop, nx, res, g, f)
  BY <1>2, Recursion
<1>5. f \in [S -> V] /\ \A s \in S : f[s] = IF s \in stop THEN res[s] ELSE g[<<s, f[nx[s]]>>]
  BY <1>4 DEF Recurs
<1>6. \A s \in S : g[<<s, f[nx[s]]>>] = f[nx[s]]
  BY <1>3, <1>5 DEF Lessens
<1>7. \A s \in S : f[s] = IF s \in stop THEN res[s] ELSE f[nx[s]]
  BY <1>5, <1>6
<1> QED
  BY <1>5, <1>7 DEF Searches

---------------------------------------------------------------------------
(* The segments of a file *)

Aligned(o) == o % Align = 0

\* Values that can be stored.
Sizable(Vs) == \A v \in Vs : ValSize(v) \in Nat

\* A free block, or a record that has room for its key and a value of Vs.
IsSeg(s, Vs) ==
  /\ s.rsiz \in Nat \ {0}
  /\ \/ s = FB(s.rsiz)
     \/ /\ s = Rec(s.rsiz, s.key, s.val, s.left, s.right)
        /\ s.key \in Keys /\ s.val \in Vs /\ s.left \in Nat /\ s.right \in Nat
        /\ RecSize(s.val) <= s.rsiz

\* The segments outside of a hole that goes from a to e.
Beyond(seg, a, e) == {o \in DOMAIN seg : o < a \/ o >= e}

\* Segments follow each other from the first to the end of the file, but for a
\* hole from a to e.  With a = e there is none.
Laid(seg, fsiz, a, e, Vs) ==
  /\ fsiz \in Nat /\ a \in Nat /\ e \in Nat /\ Frec <= a /\ a <= e /\ e <= fsiz
  /\ Aligned(fsiz) /\ Aligned(a) /\ Aligned(e)
  /\ DOMAIN seg \subseteq 0 .. fsiz - 1
  /\ \A o \in Beyond(seg, a, e) :
       /\ IsSeg(seg[o], Vs) /\ Frec <= o /\ Aligned(o)
       /\ o + seg[o].rsiz \in Beyond(seg, a, e) \cup {fsiz, a}
       /\ o + seg[o].rsiz <= a \/ e <= o
  /\ \A o, p \in Beyond(seg, a, e) : o < p => o + seg[o].rsiz <= p
  /\ Frec \in Beyond(seg, a, e) \cup {fsiz, a}
  /\ e \in Beyond(seg, a, e) \cup {fsiz}

\* The header sizes are numbers.
LEMMA LayoutSizes ==
  /\ HeadSize \in Nat \ {0} /\ KeySize \in Nat \ {0} /\ Align \in Nat \ {0} /\ Frec \in Nat \ {0}
  /\ FbpMax \in Nat \ {0} /\ AlwRat \in Nat \ {0} /\ MgFreq \in Nat \ {0} /\ MaxPad \in Nat
  /\ MaxPad >= Align /\ Aligned(Frec)
BY LayoutAssumption DEF Aligned

\* What is missing to the next multiple of a number.
LEMMA Missing ==
  ASSUME NEW x \in Nat, NEW n \in Nat \ {0}
  PROVE  (n - (x % n)) % n \in 0 .. n - 1 /\ (x + ((n - (x % n)) % n)) % n = 0
<1>1. (n - (x % n)) % n \in 0 .. n - 1
  OBVIOUS
<1>2. (x + ((n - (x % n)) % n)) % n = 0
  OBVIOUS
<1> QED
  BY <1>1, <1>2

\* A padding brings to the next multiple of the alignment.
LEMMA Padded ==
  ASSUME NEW x \in Nat
  PROVE  PadSize(x) \in 0 .. Align - 1 /\ Aligned(x + PadSize(x))
BY LayoutSizes, Missing DEF PadSize, Aligned

\* What is said of a segment.
LEMMA SegIs ==
  ASSUME NEW Vs, NEW s, IsSeg(s, Vs)
  PROVE  /\ s.rsiz \in Nat /\ s.rsiz > 0
         /\ s.magic \in {"fb", "rec"}
         /\ s.magic = "fb" => s = FB(s.rsiz)
         /\ s.magic # "fb" =>
              /\ s = Rec(s.rsiz, s.key, s.val, s.left, s.right) /\ RecSize(s.val) <= s.rsiz
              /\ s.key \in Keys /\ s.val \in Vs /\ s.left \in Nat /\ s.right \in Nat
<1>1. CASE s = FB(s.rsiz)
  <2>1. s.magic = "fb"
    BY <1>1 DEF FB
  <2> QED
    BY <1>1, <2>1 DEF IsSeg
<1>2. CASE s = Rec(s.rsiz, s.key, s.val, s.left, s.right) /\ s # FB(s.rsiz)
  <2>1. s.magic = "rec"
    BY <1>2 DEF Rec
  <2> QED
    BY <1>2, <2>1 DEF IsSeg
<1> QED
  BY <1>1, <1>2 DEF IsSeg

\* A free block is a segment.
LEMMA FBIs ==
  ASSUME NEW Vs, NEW n \in Nat, n > 0
  PROVE  IsSeg(FB(n), Vs) /\ FB(n).rsiz = n /\ FB(n).magic = "fb"
BY DEF IsSeg, FB

\* A hole of no bytes is no hole.
LEMMA NoHole ==
  ASSUME NEW seg, NEW fsiz, NEW Vs, NEW a
  PROVE  /\ Laid(seg, fsiz, a, a, Vs) => Laid(seg, fsiz, fsiz, fsiz, Vs)
         /\ Laid(seg, fsiz, fsiz, fsiz, Vs) /\ a \in DOMAIN seg \cup {fsiz}
              => Laid(seg, fsiz, a, a, Vs)
         /\ Laid(seg, fsiz, a, a, Vs) => Beyond(seg, a, a) = DOMAIN seg
<1>1. ASSUME Laid(seg, fsiz, a, a, Vs)
      PROVE  Beyond(seg, a, a) = DOMAIN seg /\ Beyond(seg, fsiz, fsiz) = DOMAIN seg
             /\ a \in DOMAIN seg \cup {fsiz}
  <2>1. DOMAIN seg \subseteq Int /\ a \in Int /\ fsiz \in Int
    BY <1>1 DEF Laid
  <2>2. Beyond(seg, a, a) = DOMAIN seg
    BY <2>1 DEF Beyond
  <2> QED
    BY <1>1, <2>1, <2>2 DEF Laid, Beyond
<1>2. ASSUME Laid(seg, fsiz, fsiz, fsiz, Vs), a \in DOMAIN seg \cup {fsiz}
      PROVE  Beyond(seg, a, a) = DOMAIN seg /\ Beyond(seg, fsiz, fsiz) = DOMAIN seg
  BY <1>2 DEF Laid, Beyond
<1>3. ASSUME Laid(seg, fsiz, a, a, Vs)
      PROVE  Laid(seg, fsiz, fsiz, fsiz, Vs)
  <2>1. \A o \in DOMAIN seg : seg[o].rsiz \in Nat /\ o + seg[o].rsiz <= fsiz
    <3>1. \A o \in DOMAIN seg : seg[o].rsiz \in Nat /\ o + seg[o].rsiz \in DOMAIN seg \cup {fsiz, a}
      BY <1>1, <1>3 DEF Laid, IsSeg
    <3>2. \A o \in DOMAIN seg \cup {fsiz, a} : o <= fsiz
      BY <1>3 DEF Laid
    <3> QED
      BY <3>1, <3>2
  <2> QED
    BY <1>1, <1>3, <2>1 DEF Laid
<1>4. ASSUME Laid(seg, fsiz, fsiz, fsiz, Vs), a \in DOMAIN seg \cup {fsiz}
      PROVE  Laid(seg, fsiz, a, a, Vs)
  <2>1. a \in Nat /\ Frec <= a /\ a <= fsiz /\ Aligned(a)
    BY <1>2, <1>4 DEF Laid
  <2>2. \A o \in DOMAIN seg : o + seg[o].rsiz <= a \/ a <= o
    <3>1. \A o \in DOMAIN seg : o \in Int /\ seg[o].rsiz \in Nat
      BY <1>2, <1>4 DEF Laid, IsSeg
    <3>2. CASE a \in DOMAIN seg
      BY <1>2, <1>4, <2>1, <3>1, <3>2 DEF Laid
    <3>3. CASE a = fsiz
      BY <1>2, <1>4, <3>1, <3>3 DEF Laid
    <3> QED
      BY <1>4, <3>2, <3>3
  <2> QED
    BY <1>2, <1>4, <2>1, <2>2 DEF Laid
<1> QED
  BY <1>1, <1>3, <1>4
\* The hole is filled from m on, by a segment that ends where it does.
LEMMA HoleCut ==
  ASSUME NEW seg, NEW fsiz, NEW a, NEW e, NEW Vs, Laid(seg, fsiz, a, e, Vs),
         NEW m \in Nat, a <= m, m < e, Aligned(m),
         NEW s, IsSeg(s, Vs), s.rsiz = e - m,
         NEW new, new = Covered(seg, m, e - m, s)
  PROVE  /\ Laid(new, fsiz, a, m, Vs)
         /\ m \notin Beyond(seg, a, e) /\ Beyond(new, a, m) = Beyond(seg, a, e) \cup {m}
         /\ new[m] = s /\ \A o \in Beyond(seg, a, e) : new[o] = seg[o]
<1>1. /\ fsiz \in Int /\ a \in Int /\ e \in Int /\ m \in Int /\ e <= fsiz /\ Frec <= a /\ Frec \in Int
      /\ DOMAIN seg \subseteq Int /\ DOMAIN seg \subseteq 0 .. fsiz - 1
  BY LayoutSizes DEF Laid
<1>2. m + (e - m) = e
  BY <1>1
<1>3. /\ DOMAIN new = {p \in DOMAIN seg : p <= m \/ p >= e} \cup {m}
      /\ new[m] = s /\ \A p \in DOMAIN seg : (p < m \/ p >= e) => new[p] = seg[p]
  BY <1>1, <1>2 DEF Covered
<1>4. m \notin Beyond(seg, a, e)
  BY <1>1 DEF Beyond
<1>5. Beyond(new, a, m) = Beyond(seg, a, e) \cup {m}
  BY <1>1, <1>3 DEF Beyond
<1>6. \A o \in Beyond(seg, a, e) : new[o] = seg[o]
  BY <1>1, <1>3 DEF Beyond
<1> DEFINE O == Beyond(seg, a, e)
<1>7. \A o \in O : /\ IsSeg(seg[o], Vs) /\ Frec <= o /\ Aligned(o) /\ seg[o].rsiz \in Nat
                   /\ o + seg[o].rsiz \in O \cup {fsiz, a}
                   /\ o + seg[o].rsiz <= a \/ e <= o
                   /\ o \in Int /\ (o < a \/ o >= e)
  BY <1>1 DEF Laid, Beyond, IsSeg
<1>8. \A o \in O \cup {m} :
        /\ IsSeg(new[o], Vs) /\ Frec <= o /\ Aligned(o)
        /\ o + new[o].rsiz \in O \cup {m} \cup {fsiz, a}
        /\ o + new[o].rsiz <= a \/ m <= o
  <2>1. IsSeg(new[m], Vs) /\ Frec <= m /\ m + new[m].rsiz = e
    BY <1>1, <1>3
  <2>2. e \in O \cup {fsiz}
    BY DEF Laid
  <2> HIDE DEF O
  <2>3. ASSUME NEW o \in O
        PROVE  /\ IsSeg(new[o], Vs) /\ Frec <= o /\ Aligned(o)
               /\ o + new[o].rsiz \in O \cup {m} \cup {fsiz, a}
               /\ o + new[o].rsiz <= a \/ m <= o
    <3>1. new[o] = seg[o]
      BY <1>6 DEF O
    <3> QED
      BY <1>1, <1>7, <3>1
  <2> QED
    BY <1>1, <2>1, <2>2, <2>3
<1>9. \A o, p \in O \cup {m} : o < p => o + new[o].rsiz <= p
  <2>1. \A o, p \in O : o < p => o + seg[o].rsiz <= p
    BY DEF Laid
  <2>2. \A o \in O : o < m => o + seg[o].rsiz <= m
    BY <1>1, <1>7
  <2>3. \A p \in O : m < p => m + new[m].rsiz <= p
    BY <1>1, <1>3, <1>7
  <2>4. \A o \in O : new[o] = seg[o]
    BY <1>6
  <2> HIDE DEF O
  <2> QED
    BY <1>1, <2>1, <2>2, <2>3, <2>4
<1>10. Frec \in O \cup {m} \cup {fsiz, a} /\ m \in O \cup {m} \cup {fsiz}
  BY DEF Laid
<1>11. DOMAIN new \subseteq 0 .. fsiz - 1
  BY <1>1, <1>3
<1>12. Aligned(fsiz) /\ Aligned(a) /\ fsiz \in Nat /\ a \in Nat
  BY DEF Laid
<1>13. Laid(new, fsiz, a, m, Vs)
  BY <1>1, <1>5, <1>8, <1>9, <1>10, <1>11, <1>12 DEF Laid
<1> QED
  BY <1>3, <1>4, <1>5, <1>6, <1>13

\* A hole grows to where another segment begins, or the file ends.
LEMMA HoleGrown ==
  ASSUME NEW seg, NEW fsiz, NEW a, NEW e, NEW Vs, Laid(seg, fsiz, a, e, Vs),
         NEW x \in Beyond(seg, a, e) \cup {fsiz}, e <= x
  PROVE  /\ Laid(seg, fsiz, a, x, Vs)
         /\ Beyond(seg, a, x) = {o \in Beyond(seg, a, e) : o < a \/ o >= x}
<1>1. /\ fsiz \in Int /\ a \in Int /\ e \in Int /\ Frec <= a /\ Frec \in Int /\ a <= e
      /\ DOMAIN seg \subseteq 0 .. fsiz - 1 /\ x \in Nat /\ x <= fsiz /\ Aligned(x)
  BY LayoutSizes DEF Laid, Beyond
<1>2. Beyond(seg, a, x) = {o \in Beyond(seg, a, e) : o < a \/ o >= x}
  BY <1>1 DEF Beyond
<1> DEFINE O == Beyond(seg, a, e)  N == Beyond(seg, a, x)
<1>3. \A o \in N : o \in O /\ (o < a \/ o >= x) /\ o \in Int
  BY <1>1 DEF Beyond
<1>4. \A o \in O : o < a \/ o >= x => o \in N
  BY <1>2
<1>5. \A o \in O : /\ IsSeg(seg[o], Vs) /\ Frec <= o /\ Aligned(o) /\ seg[o].rsiz \in Nat /\ seg[o].rsiz > 0
                   /\ o + seg[o].rsiz \in O \cup {fsiz, a}
                   /\ o + seg[o].rsiz <= a \/ e <= o
                   /\ o \in Int
  BY <1>1 DEF Laid, Beyond, IsSeg
<1>6. \A o, p \in O : o < p => o + seg[o].rsiz <= p
  BY DEF Laid
<1>7. ASSUME NEW o \in N
      PROVE  /\ o + seg[o].rsiz \in N \cup {fsiz, a}
             /\ o + seg[o].rsiz <= a \/ x <= o
  <2> HIDE DEF O, N
  <2>1. CASE o < a
    <3>1. o + seg[o].rsiz <= a
      BY <1>1, <1>3, <1>5, <2>1
    <3> QED
      BY <1>1, <1>3, <1>4, <1>5, <3>1
  <2>2. CASE o >= x
    <3>1. o + seg[o].rsiz > x
      BY <1>1, <1>3, <1>5, <2>2
    <3> QED
      BY <1>1, <1>3, <1>4, <1>5, <2>2, <3>1
  <2> QED
    BY <1>3, <2>1, <2>2
<1>8. Frec \in N \cup {fsiz, a} /\ x \in N \cup {fsiz}
  <2>1. Frec \in O \cup {fsiz, a}
    BY DEF Laid
  <2> QED
    BY <1>1, <1>4, <2>1
<1>9. \A o, p \in N : o < p => o + seg[o].rsiz <= p
  BY <1>3, <1>6
<1>10. fsiz \in Nat /\ a \in Nat /\ Aligned(fsiz) /\ Aligned(a)
  BY DEF Laid
<1>11. \A o \in N : IsSeg(seg[o], Vs) /\ Frec <= o /\ Aligned(o)
  BY <1>3, <1>5
<1>12. Laid(seg, fsiz, a, x, Vs)
  <2> HIDE DEF O
  <2> QED
    BY <1>1, <1>7, <1>8, <1>9, <1>10, <1>11 DEF Laid
<1> QED
  BY <1>2, <1>12

\* What a file becomes that grows by a segment.
Appended(seg, fsiz, s, new, n) == new = Covered(seg, fsiz, s.rsiz, s) /\ n = fsiz + s.rsiz

\* A file that is as before, and has one segment more.
HasGrown(seg, fsiz, s, new, n, Vs) ==
  /\ Laid(new, n, n, n, Vs)
  /\ fsiz \notin DOMAIN seg /\ DOMAIN new = DOMAIN seg \cup {fsiz}
  /\ new[fsiz] = s /\ \A o \in DOMAIN seg : new[o] = seg[o]

\* A file grows by a segment.
LEMMA FileGrown ==
  ASSUME NEW seg, NEW fsiz, NEW Vs, Laid(seg, fsiz, fsiz, fsiz, Vs),
         NEW s, IsSeg(s, Vs),
         NEW new, NEW n, Appended(seg, fsiz, s, new, n), Aligned(n)
  PROVE  HasGrown(seg, fsiz, s, new, n, Vs)
<1>1. /\ fsiz \in Nat /\ Frec <= fsiz /\ Frec \in Int /\ s.rsiz \in Nat /\ s.rsiz > 0 /\ n \in Nat
      /\ DOMAIN seg \subseteq 0 .. fsiz - 1 /\ Aligned(fsiz) /\ n > fsiz /\ n = fsiz + s.rsiz
  BY LayoutSizes DEF Laid, IsSeg, Appended
<1>2. /\ DOMAIN new = DOMAIN seg \cup {fsiz} /\ fsiz \notin DOMAIN seg
      /\ new[fsiz] = s /\ \A o \in DOMAIN seg : new[o] = seg[o]
  BY <1>1 DEF Covered, Appended
<1>3. Beyond(seg, fsiz, fsiz) = DOMAIN seg /\ Beyond(new, n, n) = DOMAIN new
  <2>1. \A o \in DOMAIN new : o \in Int
    BY <1>1, <1>2
  <2>2. \A o \in DOMAIN seg : o \in Int
    BY <1>1
  <2>3. fsiz \in Int /\ n \in Int
    BY <1>1
  <2> QED
    BY <2>1, <2>2, <2>3 DEF Beyond
<1>4. \A o \in DOMAIN seg : /\ IsSeg(seg[o], Vs) /\ Frec <= o /\ Aligned(o) /\ seg[o].rsiz \in Nat
                             /\ o + seg[o].rsiz \in DOMAIN seg \cup {fsiz}
                             /\ o \in Int /\ o < fsiz /\ o + seg[o].rsiz <= fsiz
  BY <1>1, <1>3 DEF Laid, IsSeg
<1>5. \A o \in DOMAIN new :
        /\ IsSeg(new[o], Vs) /\ Frec <= o /\ Aligned(o)
        /\ o + new[o].rsiz \in DOMAIN new \cup {n}
        /\ o + new[o].rsiz <= n
  BY <1>1, <1>2, <1>4
<1>6. \A o, p \in DOMAIN new : o < p => o + new[o].rsiz <= p
  <2>1. \A o, p \in DOMAIN seg : o < p => o + seg[o].rsiz <= p
    BY <1>3 DEF Laid
  <2> QED
    BY <1>1, <1>2, <1>4, <2>1
<1>7. Frec \in DOMAIN new \cup {n} /\ DOMAIN new \subseteq 0 .. n - 1
  <2>1. Frec \in DOMAIN seg \cup {fsiz}
    BY <1>3 DEF Laid
  <2> QED
    BY <1>1, <1>2, <2>1
<1>8. Laid(new, n, n, n, Vs)
  BY <1>1, <1>3, <1>5, <1>6, <1>7 DEF Laid
<1> QED
  BY <1>2, <1>8 DEF HasGrown

---------------------------------------------------------------------------
(* Walks over a file *)

\* A file without a hole.
Whole(seg, fsiz, Vs) == Laid(seg, fsiz, fsiz, fsiz, Vs)

\* What is said of the segments of such a file.
LEMMA WholeIs ==
  ASSUME NEW seg, NEW fsiz, NEW Vs, Whole(seg, fsiz, Vs)
  PROVE  /\ fsiz \in Nat /\ Frec <= fsiz /\ Aligned(fsiz) /\ Frec \in DOMAIN seg \cup {fsiz}
         /\ \A o \in DOMAIN seg :
              /\ o \in Nat /\ Frec <= o /\ o > 0 /\ o < fsiz /\ Aligned(o) /\ IsSeg(seg[o], Vs)
              /\ seg[o].rsiz \in Nat /\ seg[o].rsiz > 0
              /\ o + seg[o].rsiz \in DOMAIN seg \cup {fsiz} /\ o + seg[o].rsiz <= fsiz
         /\ \A o, p \in DOMAIN seg : o < p => o + seg[o].rsiz <= p
<1>1. /\ fsiz \in Nat /\ Frec <= fsiz /\ Aligned(fsiz) /\ DOMAIN seg \subseteq 0 .. fsiz - 1
      /\ Frec \in Nat \ {0}
  BY LayoutSizes DEF Whole, Laid
<1>2. Beyond(seg, fsiz, fsiz) = DOMAIN seg
  BY <1>1 DEF Beyond
<1>3. \A o \in DOMAIN seg :
              /\ o \in Nat /\ Frec <= o /\ o > 0 /\ o < fsiz /\ Aligned(o) /\ IsSeg(seg[o], Vs)
              /\ seg[o].rsiz \in Nat /\ seg[o].rsiz > 0
              /\ o + seg[o].rsiz \in DOMAIN seg \cup {fsiz} /\ o + seg[o].rsiz <= fsiz
  BY <1>1, <1>2 DEF Whole, Laid, IsSeg
<1>4. \A o, p \in DOMAIN seg : o < p => o + seg[o].rsiz <= p
  BY <1>2 DEF Whole, Laid
<1>5. Frec \in DOMAIN seg \cup {fsiz}
  BY <1>2 DEF Whole, Laid
<1> QED
  BY <1>1, <1>3, <1>4, <1>5

\* How far the end of the file is.
ToEnd(fsiz) == [o \in Nat |-> IF o < fsiz THEN fsiz - o ELSE 0]

\* A walk that goes on at the end of a segment comes nearer to the end of the
\* file.
Onward(seg, fsiz) == [o \in Nat |-> IF o \in DOMAIN seg THEN o + seg[o].rsiz ELSE o]

\* A walk over the segments comes nearer to the end of the file.
LEMMA WalkNears ==
  ASSUME NEW seg, NEW fsiz, NEW Vs, Whole(seg, fsiz, Vs), NEW stop,
         \A o \in Nat : o \notin stop => o \in DOMAIN seg
  PROVE  Lessens(Nat, stop, Onward(seg, fsiz), ToEnd(fsiz), fsiz + 1)
<1>1. /\ fsiz \in Nat
      /\ \A o \in DOMAIN seg : o \in Nat /\ o < fsiz /\ seg[o].rsiz \in Nat /\ seg[o].rsiz > 0
  BY WholeIs
<1>2. Onward(seg, fsiz) \in [Nat -> Nat] /\ ToEnd(fsiz) \in [Nat -> Nat]
  BY <1>1 DEF Onward, ToEnd
<1>3. \A o \in Nat : ToEnd(fsiz)[o] < fsiz + 1
  BY <1>1 DEF ToEnd
<1>4. ASSUME NEW o \in Nat, o \notin stop
      PROVE  ToEnd(fsiz)[Onward(seg, fsiz)[o]] < ToEnd(fsiz)[o]
  <2>1. o \in DOMAIN seg
    BY <1>4
  <2>2. Onward(seg, fsiz)[o] = o + seg[o].rsiz /\ o + seg[o].rsiz \in Nat /\ o + seg[o].rsiz > o /\ o < fsiz
    BY <1>1, <2>1 DEF Onward
  <2> QED
    BY <1>1, <2>1, <2>2 DEF ToEnd
<1> QED
  BY <1>1, <1>2, <1>3, <1>4 DEF Lessens

\* What holds at the end of the file, and of each segment if it does of what
\* follows it, holds of all segments.
LEMMA FromTheEnd ==
  ASSUME NEW seg, NEW fsiz, NEW Vs, Whole(seg, fsiz, Vs), NEW P, fsiz \in P,
         \A o \in DOMAIN seg : o + seg[o].rsiz \in P => o \in P
  PROVE  DOMAIN seg \subseteq P
<1> DEFINE Q == {i \in 0 .. fsiz : \A o \in DOMAIN seg : fsiz - o <= i => o \in P}
<1>1. /\ fsiz \in Nat
      /\ \A o \in DOMAIN seg : /\ o \in Nat /\ o < fsiz /\ seg[o].rsiz \in Nat /\ seg[o].rsiz > 0
                               /\ o + seg[o].rsiz \in DOMAIN seg \cup {fsiz}
  BY WholeIs
<1>2. 0 \in Q
  BY <1>1
<1>3. ASSUME NEW i \in 1 .. fsiz, i - 1 \in Q
      PROVE  i \in Q
  <2>1. ASSUME NEW o \in DOMAIN seg, fsiz - o <= i
        PROVE  o \in P
    <3>1. o + seg[o].rsiz = fsiz \/ (o + seg[o].rsiz \in DOMAIN seg /\ fsiz - (o + seg[o].rsiz) <= i - 1)
      BY <1>1, <2>1
    <3>2. o + seg[o].rsiz \in P
      BY <1>3, <3>1
    <3> QED
      BY <3>2
  <2> QED
    BY <1>1, <2>1
<1>4. \A i \in 0 .. fsiz : i \in Q
  <2> HIDE DEF Q
  <2> QED
    BY <1>1, <1>2, <1>3, Reached
<1>5. fsiz \in Q
  BY <1>1, <1>4
<1> QED
  BY <1>1, <1>5

\* The file is tiled.
LEMMA WholeTiled ==
  ASSUME NEW db, NEW Vs, Whole(db.seg, db.fsiz, Vs)
  PROVE  Tiled(db)
<1> DEFINE seg == db.seg
<1> DEFINE fsiz == db.fsiz
<1>2. Whole(seg, fsiz, Vs)
  OBVIOUS
<1> DEFINE IsAt(at) == at = [o \in Nat |-> \/ o = db.fsiz
                          \/ /\ o < db.fsiz /\ o \in DOMAIN db.seg
                             /\ o % Align = 0 /\ db.seg[o].rsiz > 0
                             /\ at[o + db.seg[o].rsiz]]
<1> DEFINE stop == {o \in Nat : o = fsiz \/ ~(o < fsiz /\ o \in DOMAIN seg /\ o % Align = 0 /\ seg[o].rsiz > 0)}
<1> DEFINE res == [o \in Nat |-> o = fsiz]
<1>3. PICK f : Searches(Nat, BOOLEAN, stop, Onward(seg, fsiz), res, f)
  <2>1. \A o \in Nat : o \notin stop => o \in DOMAIN seg
    OBVIOUS
  <2>2. res \in [Nat -> BOOLEAN]
    OBVIOUS
  <2> HIDE DEF stop, res
  <2> QED
    BY <1>2, <2>1, <2>2, WalkNears, TailRecursion
<1>4. f \in [Nat -> BOOLEAN] /\ \A o \in Nat : f[o] = IF o \in stop THEN res[o] ELSE f[Onward(seg, fsiz)[o]]
  BY <1>3 DEF Searches
<1>5. ASSUME NEW o \in Nat
      PROVE  f[o] = (\/ o = fsiz
                     \/ /\ o < fsiz /\ o \in DOMAIN seg
                        /\ o % Align = 0 /\ seg[o].rsiz > 0
                        /\ f[o + seg[o].rsiz])
  <2>1. CASE o \in stop
    <3>1. f[o] = (o = fsiz)
      BY <1>4, <2>1
    <3> QED
      BY <2>1, <3>1, Zenon
  <2>2. CASE o \notin stop
    <3>1. f[o] = f[o + seg[o].rsiz]
      BY <1>4, <2>2 DEF Onward
    <3>2. o # fsiz /\ o < fsiz /\ o \in DOMAIN seg /\ o % Align = 0 /\ seg[o].rsiz > 0
      BY <2>2
    <3>3. f[o] \in BOOLEAN
      BY <1>4
    <3> QED
      BY <3>1, <3>2, <3>3, Zenon
  <2> QED
    BY <2>1, <2>2
<1>6. IsAt(f)
  <2>1. f = [o \in Nat |-> f[o]]
    BY <1>4
  <2> HIDE DEF stop, res
  <2> QED
    BY <1>5, <2>1, Zenon
<1>7. PICK at : IsAt(at) /\ at = CHOOSE g : IsAt(g)
  <2> HIDE DEF IsAt
  <2> QED
    BY <1>6, Zenon
<1>8. \A o \in Nat : at[o] = (\/ o = fsiz
                     \/ /\ o < fsiz /\ o \in DOMAIN seg
                        /\ o % Align = 0 /\ seg[o].rsiz > 0
                        /\ at[o + seg[o].rsiz])
  BY <1>7, Zenon
<1> DEFINE P == {o \in Nat : at[o]}
<1>9. /\ fsiz \in Nat /\ Frec <= fsiz /\ Frec \in DOMAIN seg \cup {fsiz}
      /\ \A o \in DOMAIN seg : o \in Nat /\ o < fsiz /\ o % Align = 0 /\ seg[o].rsiz > 0
  BY <1>2, WholeIs DEF Aligned
<1>10. fsiz \in P
  BY <1>8, <1>9
<1>11. \A o \in DOMAIN seg : o + seg[o].rsiz \in P => o \in P
  BY <1>8, <1>9
<1>12. DOMAIN seg \subseteq P
  <2> HIDE DEF P
  <2> QED
    BY <1>2, <1>10, <1>11, FromTheEnd
<1>13. at[Frec]
  BY <1>9, <1>10, <1>12
<1> HIDE DEF IsAt
<1>14. (CHOOSE g : IsAt(g))[Frec]
  BY <1>7, <1>13
<1> QED
  BY <1>9, <1>14 DEF Tiled, IsAt
\* An element before a sequence.
LEMMA Consed ==
  ASSUME NEW S, NEW x \in S, NEW t \in Seq(S), NEW s, s = <<x>> \o t
  PROVE  /\ s \in Seq(S) /\ Len(s) = Len(t) + 1 /\ s[1] = x /\ Len(t) \in Nat /\ s # <<>>
         /\ \A i \in 1 .. Len(t) : s[i + 1] = t[i]
         /\ \A i \in 2 .. Len(s) : s[i] = t[i - 1] /\ i - 1 \in 1 .. Len(t)
<1>1. <<x>> \in Seq(S) /\ Len(<<x>>) = 1 /\ <<x>>[1] = x
  OBVIOUS
<1>2. s \in Seq(S) /\ Len(s) = Len(t) + 1 /\ Len(t) \in Nat
  BY <1>1
<1>3. s[1] = x
  BY <1>1
<1>4. \A i \in 2 .. Len(s) : s[i] = t[i - 1] /\ i - 1 \in 1 .. Len(t)
  BY <1>1, <1>2
<1>5. \A i \in 1 .. Len(t) : i + 1 \in 2 .. Len(s) /\ (i + 1) - 1 = i
  BY <1>2
<1>6. \A i \in 1 .. Len(t) : s[i + 1] = t[i]
  BY <1>4, <1>5
<1> QED
  BY <1>2, <1>3, <1>4, <1>6

\* What a walk over the segments returns.
LEMMA OffsetsFromIs ==
  ASSUME NEW db, NEW Vs, Whole(db.seg, db.fsiz, Vs), NEW o \in Nat
  PROVE  /\ OffsetsFrom(db, o) \in Seq(Nat)
         /\ OffsetsFrom(db, o) = IF o >= db.fsiz \/ o \notin DOMAIN db.seg THEN <<>>
                                 ELSE <<o>> \o OffsetsFrom(db, o + db.seg[o].rsiz)
<1> DEFINE IsOffs(offs) == offs = [x \in Nat |->
        IF x >= db.fsiz \/ x \notin DOMAIN db.seg THEN <<>>
        ELSE <<x>> \o offs[x + db.seg[x].rsiz]]
<1> DEFINE stop == {x \in Nat : x >= db.fsiz \/ x \notin DOMAIN db.seg}
<1> DEFINE res == [x \in Nat |-> <<>>]
<1> DEFINE g == [p \in Nat \X Seq(Nat) |-> <<p[1]>> \o p[2]]
<1>1. PICK f : Recurs(Nat, Seq(Nat), stop, Onward(db.seg, db.fsiz), res, g, f)
  <2>1. \A x \in Nat : x \notin stop => x \in DOMAIN db.seg
    OBVIOUS
  <2>2. res \in [Nat -> Seq(Nat)] /\ g \in [Nat \X Seq(Nat) -> Seq(Nat)]
    OBVIOUS
  <2>3. Lessens(Nat, stop, Onward(db.seg, db.fsiz), ToEnd(db.fsiz), db.fsiz + 1)
    <3> HIDE DEF stop
    <3> QED
      BY <2>1, WalkNears
  <2> HIDE DEF stop, res, g
  <2> QED
    BY <2>2, <2>3, Recursion
<1>2. /\ f \in [Nat -> Seq(Nat)]
      /\ \A x \in Nat : f[x] = IF x \in stop THEN res[x] ELSE g[<<x, f[Onward(db.seg, db.fsiz)[x]]>>]
  BY <1>1 DEF Recurs
<1>3. ASSUME NEW x \in Nat
      PROVE  f[x] = IF x >= db.fsiz \/ x \notin DOMAIN db.seg THEN <<>>
                    ELSE <<x>> \o f[x + db.seg[x].rsiz]
  <2>1. CASE x \in stop
    BY <1>2, <2>1
  <2>2. CASE x \notin stop
    <3>1. x + db.seg[x].rsiz \in Nat /\ Onward(db.seg, db.fsiz)[x] = x + db.seg[x].rsiz
      BY <2>2, WholeIs DEF Onward
    <3>2. f[x + db.seg[x].rsiz] \in Seq(Nat)
      BY <1>2, <3>1
    <3>3. g[<<x, f[x + db.seg[x].rsiz]>>] = <<x>> \o f[x + db.seg[x].rsiz]
      BY <3>2
    <3> HIDE DEF g
    <3> QED
      BY <1>2, <2>2, <3>1, <3>3
  <2> QED
    BY <2>1, <2>2
<1>4. IsOffs(f)
  <2>1. f = [x \in Nat |-> f[x]]
    BY <1>2
  <2> HIDE DEF stop, res, g
  <2> QED
    BY <1>3, <2>1, Zenon
<1>5. PICK offs : IsOffs(offs) /\ offs = CHOOSE h : IsOffs(h)
  <2> HIDE DEF IsOffs
  <2> QED
    BY <1>4, Zenon
<1>6. \A x \in Nat : OffsetsFrom(db, x) = offs[x]
  BY <1>5 DEF OffsetsFrom
<1> HIDE DEF stop, res, g
<1>7. \A x \in Nat : offs[x] = IF x >= db.fsiz \/ x \notin DOMAIN db.seg THEN <<>>
                    ELSE <<x>> \o offs[x + db.seg[x].rsiz]
  BY <1>5, Zenon
<1> HIDE DEF IsOffs
<1> DEFINE P == {x \in Nat : offs[x] \in Seq(Nat)}
<1>8. /\ db.fsiz \in Nat
      /\ \A x \in DOMAIN db.seg : x \in Nat /\ x < db.fsiz /\ x + db.seg[x].rsiz \in Nat
  BY WholeIs
<1>9. DOMAIN db.seg \subseteq P
  <2>1. db.fsiz \in P
    <3>1. db.fsiz \in Nat /\ db.fsiz >= db.fsiz /\ <<>> \in Seq(Nat)
      BY <1>8
    <3>2. offs[db.fsiz] = <<>>
      BY <1>7, <3>1, Zenon
    <3> QED
      BY <3>1, <3>2, Zenon
  <2>2. ASSUME NEW x \in DOMAIN db.seg, x + db.seg[x].rsiz \in P
        PROVE  x \in P
    <3>0. x \in Nat /\ ~(x >= db.fsiz)
      BY <1>8
    <3>1. offs[x] = <<x>> \o offs[x + db.seg[x].rsiz] /\ x \in Nat
      BY <1>7, <3>0, Zenon
    <3>2. offs[x + db.seg[x].rsiz] \in Seq(Nat)
      BY <2>2
    <3>3. offs[x] \in Seq(Nat)
      BY <3>1, <3>2, Consed
    <3> QED
      BY <3>1, <3>3
  <2> HIDE DEF P
  <2> QED
    BY <2>1, <2>2, FromTheEnd
<1>10. ASSUME NEW x \in Nat
       PROVE  offs[x] \in Seq(Nat)
  <2>1. CASE x \in DOMAIN db.seg
    BY <1>9, <2>1
  <2>2. CASE x \notin DOMAIN db.seg
    <3>1. offs[x] = <<>>
      BY <1>7, <2>2
    <3> QED
      BY <3>1
  <2> QED
    BY <2>1, <2>2
<1>11. o \in DOMAIN db.seg => OffsetsFrom(db, o + db.seg[o].rsiz) = offs[o + db.seg[o].rsiz]
  BY <1>6, <1>8
<1> QED
  BY <1>6, <1>7, <1>10, <1>11

\* s lists the segments from o to the end of the file, one after the other.
Lines(seg, fsiz, o, s) ==
  /\ s \in Seq(DOMAIN seg)
  /\ IF s = <<>> THEN o = fsiz ELSE s[1] = o /\ s[Len(s)] + seg[s[Len(s)]].rsiz = fsiz
  /\ \A i \in 1 .. Len(s) - 1 : s[i + 1] = s[i] + seg[s[i]].rsiz
  /\ \A x \in DOMAIN seg : x >= o => \E i \in 1 .. Len(s) : s[i] = x
  /\ \A i \in 1 .. Len(s) : s[i] >= o
  /\ \A i, j \in 1 .. Len(s) : i < j => s[i] < s[j]

\* A walk over the file meets all segments.
LEMMA OffsetsLine ==
  ASSUME NEW db, NEW Vs, Whole(db.seg, db.fsiz, Vs), NEW o \in DOMAIN db.seg \cup {db.fsiz}
  PROVE  Lines(db.seg, db.fsiz, o, OffsetsFrom(db, o))
<1> DEFINE seg == db.seg
<1> DEFINE fsiz == db.fsiz
<1> DEFINE P == {x \in Nat : Lines(seg, fsiz, x, OffsetsFrom(db, x))}
<1>1. /\ fsiz \in Nat
      /\ \A x \in DOMAIN seg : /\ x \in Nat /\ x < fsiz /\ seg[x].rsiz \in Nat /\ seg[x].rsiz > 0
                               /\ x + seg[x].rsiz \in DOMAIN seg \cup {fsiz}
      /\ \A x, y \in DOMAIN seg : x < y => x + seg[x].rsiz <= y
  BY WholeIs
<1>2. fsiz \in P
  <2>1. OffsetsFrom(db, fsiz) = <<>>
    <3>1. OffsetsFrom(db, fsiz) = IF fsiz >= db.fsiz \/ fsiz \notin DOMAIN db.seg THEN <<>>
                                  ELSE <<fsiz>> \o OffsetsFrom(db, fsiz + db.seg[fsiz].rsiz)
      BY <1>1, OffsetsFromIs
    <3> QED
      BY <1>1, <3>1
  <2>2. \A x \in DOMAIN seg : ~(x >= fsiz)
    BY <1>1
  <2>3. <<>> \in Seq(DOMAIN seg) /\ Len(<<>>) = 0
    OBVIOUS
  <2>4. Lines(seg, fsiz, fsiz, <<>>)
    BY <2>2, <2>3 DEF Lines
  <2> QED
    BY <1>1, <2>1, <2>4
<1>3. ASSUME NEW x \in DOMAIN seg, x + seg[x].rsiz \in P
      PROVE  x \in P
  <2>1. PICK y, t, s : /\ y = x + seg[x].rsiz /\ t = OffsetsFrom(db, y) /\ s = OffsetsFrom(db, x)
    OBVIOUS
  <2>2. s = <<x>> \o t /\ y \in Nat /\ y > x
    <3>1. x \in Nat /\ x < fsiz /\ y \in Nat /\ y > x
      BY <1>1, <2>1
    <3>2. OffsetsFrom(db, x) = IF x >= db.fsiz \/ x \notin DOMAIN db.seg THEN <<>>
                               ELSE <<x>> \o OffsetsFrom(db, x + db.seg[x].rsiz)
      BY <3>1, OffsetsFromIs
    <3> QED
      BY <1>1, <2>1, <3>1, <3>2
  <2>3. Lines(seg, fsiz, y, t)
    BY <1>3, <2>1
  <2>4. t \in Seq(DOMAIN seg)
    BY <2>3 DEF Lines
  <2>5. /\ s \in Seq(DOMAIN seg) /\ Len(s) = Len(t) + 1 /\ s[1] = x /\ Len(t) \in Nat
        /\ \A i \in 1 .. Len(t) : s[i + 1] = t[i]
        /\ \A i \in 2 .. Len(s) : s[i] = t[i - 1] /\ i - 1 \in 1 .. Len(t)
    <3>1. x \in DOMAIN seg /\ s = <<x>> \o t
      BY <2>2
    <3> HIDE DEF seg
    <3> QED
      BY <2>4, <3>1, Consed
  <2>6. s[Len(s)] + seg[s[Len(s)]].rsiz = fsiz
    <3>1. CASE t = <<>>
      BY <2>1, <2>3, <2>5, <3>1 DEF Lines
    <3>2. CASE t # <<>>
      <4>1. Len(t) \in 1 .. Len(t)
        BY <2>4, <2>5, <3>2
      <4>2. s[Len(s)] = t[Len(t)]
        BY <2>5, <4>1
      <4> QED
        BY <2>3, <3>2, <4>2 DEF Lines
    <3> QED
      BY <3>1, <3>2
  <2>7. \A i \in 1 .. Len(t) : t[i] \in DOMAIN seg /\ t[i] >= y /\ t[i] \in Nat
    <3>1. \A i \in 1 .. Len(t) : t[i] >= y
      BY <2>3 DEF Lines
    <3> QED
      BY <1>1, <2>4, <3>1
  <2>8. \A i \in 1 .. Len(s) - 1 : s[i + 1] = s[i] + seg[s[i]].rsiz
    <3>1. ASSUME NEW i \in 1 .. Len(s) - 1
          PROVE  s[i + 1] = s[i] + seg[s[i]].rsiz
      <4>1. s[i + 1] = t[i] /\ i \in 1 .. Len(t)
        BY <2>5
      <4>2. CASE i = 1
        <5>1. t # <<>>
          BY <4>1, <4>2
        <5> QED
          BY <2>1, <2>3, <2>5, <4>1, <4>2, <5>1 DEF Lines
      <4>3. CASE i # 1
        <5>1. s[i] = t[i - 1] /\ i - 1 \in 1 .. Len(t) - 1 /\ i - 1 + 1 = i
          BY <2>5, <4>3
        <5> QED
          BY <2>3, <4>1, <5>1 DEF Lines
      <4> QED
        BY <4>2, <4>3
    <3> QED
      BY <3>1
  <2>9. \A z \in DOMAIN seg : z >= x => \E i \in 1 .. Len(s) : s[i] = z
    <3>1. ASSUME NEW z \in DOMAIN seg, z >= x
          PROVE  \E i \in 1 .. Len(s) : s[i] = z
      <4>1. CASE z = x
        <5>1. 1 \in 1 .. Len(s)
          BY <2>5
        <5> QED
          BY <2>5, <4>1, <5>1
      <4>2. CASE z # x
        <5>1. z >= y
          BY <1>1, <2>1, <3>1, <4>2
        <5>2. PICK i \in 1 .. Len(t) : t[i] = z
          BY <2>3, <5>1 DEF Lines
        <5>3. i + 1 \in 1 .. Len(s)
          BY <2>5
        <5> QED
          BY <2>5, <5>2, <5>3
      <4> QED
        BY <4>1, <4>2
    <3> QED
      BY <3>1
  <2>10. \A i \in 1 .. Len(s) : s[i] >= x
    <3>1. ASSUME NEW i \in 1 .. Len(s)
          PROVE  s[i] >= x
      <4>1. CASE i = 1
        <5>1. s[i] = x /\ x \in Nat
          BY <1>1, <2>5, <4>1
        <5> QED
          BY <5>1
      <4>2. CASE i # 1
        <5>1. s[i] = t[i - 1] /\ i - 1 \in 1 .. Len(t)
          BY <2>5, <4>2
        <5>2. s[i] >= y /\ s[i] \in Nat /\ x \in Nat
          BY <1>1, <2>7, <5>1
        <5> QED
          BY <2>2, <5>2
      <4> QED
        BY <2>5, <4>1, <4>2
    <3> QED
      BY <3>1
  <2>11. \A i, j \in 1 .. Len(s) : i < j => s[i] < s[j]
    <3>1. ASSUME NEW i \in 1 .. Len(s), NEW j \in 1 .. Len(s), i < j
          PROVE  s[i] < s[j]
      <4>1. s[j] = t[j - 1] /\ j - 1 \in 1 .. Len(t)
        <5>1. j \in 2 .. Len(s)
          BY <2>5, <3>1
        <5> QED
          BY <2>5, <5>1
      <4>2. CASE i = 1
        <5>1. s[i] = x /\ x \in Nat /\ s[j] >= y /\ s[j] \in Nat
          BY <1>1, <2>5, <2>7, <4>1, <4>2
        <5> QED
          BY <2>2, <5>1
      <4>3. CASE i # 1
        <5>1. s[i] = t[i - 1] /\ i - 1 \in 1 .. Len(t) /\ i - 1 < j - 1
          BY <2>5, <3>1, <4>3
        <5> QED
          BY <2>3, <4>1, <5>1 DEF Lines
      <4> QED
        BY <4>2, <4>3
    <3> QED
      BY <3>1
  <2>12. s # <<>>
    BY <2>5
  <2>13. Lines(seg, fsiz, x, s)
    BY <2>5, <2>6, <2>8, <2>9, <2>10, <2>11, <2>12 DEF Lines
  <2> QED
    BY <1>1, <2>1, <2>13
<1>4. DOMAIN seg \subseteq P
  <2> HIDE DEF P
  <2> QED
    BY <1>2, <1>3, FromTheEnd
<1> QED
  BY <1>2, <1>4

\* A walk from the first segment meets all.
LEMMA AllSegs ==
  ASSUME NEW db, NEW Vs, Whole(db.seg, db.fsiz, Vs)
  PROVE  Lines(db.seg, db.fsiz, Frec, Offsets(db)) /\ SegsOf(db) = DOMAIN db.seg
<1>1. Lines(db.seg, db.fsiz, Frec, Offsets(db))
  BY WholeIs, OffsetsLine DEF Offsets
<1>2. \A o \in DOMAIN db.seg : o >= Frec
  BY WholeIs, LayoutSizes
<1>3. SegsOf(db) = {Offsets(db)[i] : i \in DOMAIN Offsets(db)}
  BY DEF SegsOf, Range
<1> QED
  BY <1>1, <1>2, <1>3, SMTT(30) DEF Lines

---------------------------------------------------------------------------
(* Sequences drawn from others *)

\* t has elements of s only, no element twice, in any order.
Drawn(s, t) ==
  /\ Len(t) <= Len(s)
  /\ \E p \in [1 .. Len(t) -> 1 .. Len(s)] :
       /\ \A i, j \in 1 .. Len(t) : i # j => p[i] # p[j]
       /\ \A i \in 1 .. Len(t) : t[i] = s[p[i]]

\* A sequence is drawn from itself.
LEMMA DrawnSelf ==
  ASSUME NEW B, NEW s \in Seq(B)
  PROVE  Drawn(s, s)
<1>1. Len(s) \in Nat
  OBVIOUS
<1>2. PICK p : p = [i \in 1 .. Len(s) |-> i]
  OBVIOUS
<1>3. /\ p \in [1 .. Len(s) -> 1 .. Len(s)]
      /\ \A i, j \in 1 .. Len(s) : i # j => p[i] # p[j]
      /\ \A i \in 1 .. Len(s) : s[i] = s[p[i]]
  BY <1>2
<1>4. Len(s) <= Len(s)
  BY <1>1
<1> QED
  BY <1>3, <1>4 DEF Drawn

\* Drawing twice is drawing.
LEMMA DrawnTwice ==
  ASSUME NEW B, NEW s \in Seq(B), NEW t \in Seq(B), NEW u \in Seq(B), Drawn(s, t), Drawn(t, u)
  PROVE  Drawn(s, u)
<1>1. Len(s) \in Nat /\ Len(t) \in Nat /\ Len(u) \in Nat
  OBVIOUS
<1>2. PICK p \in [1 .. Len(t) -> 1 .. Len(s)] :
       /\ \A i, j \in 1 .. Len(t) : i # j => p[i] # p[j]
       /\ \A i \in 1 .. Len(t) : t[i] = s[p[i]]
  BY DEF Drawn
<1>3. PICK q \in [1 .. Len(u) -> 1 .. Len(t)] :
       /\ \A i, j \in 1 .. Len(u) : i # j => q[i] # q[j]
       /\ \A i \in 1 .. Len(u) : u[i] = t[q[i]]
  BY DEF Drawn
<1>4. PICK r : r = [i \in 1 .. Len(u) |-> p[q[i]]]
  OBVIOUS
<1>5. r \in [1 .. Len(u) -> 1 .. Len(s)]
  BY <1>4
<1>6. \A i, j \in 1 .. Len(u) : i # j => r[i] # r[j]
  BY <1>2, <1>3, <1>4
<1>7. \A i \in 1 .. Len(u) : u[i] = s[r[i]]
  BY <1>2, <1>3, <1>4
<1>8. Len(u) <= Len(s)
  BY <1>1 DEF Drawn
<1> QED
  BY <1>5, <1>6, <1>7, <1>8 DEF Drawn

\* What is said of the elements of a sequence holds of those of one drawn from
\* it, and what is said of two of them.
LEMMA DrawnKeeps ==
  ASSUME NEW B, NEW s \in Seq(B), NEW t \in Seq(B), Drawn(s, t)
  PROVE  /\ \A i \in 1 .. Len(t) : \E a \in 1 .. Len(s) : t[i] = s[a]
         /\ \A i, j \in 1 .. Len(t) : i # j =>
              \E a, b \in 1 .. Len(s) : a # b /\ t[i] = s[a] /\ t[j] = s[b]
         /\ Len(t) <= Len(s)
<1>1. PICK p \in [1 .. Len(t) -> 1 .. Len(s)] :
       /\ \A i, j \in 1 .. Len(t) : i # j => p[i] # p[j]
       /\ \A i \in 1 .. Len(t) : t[i] = s[p[i]]
  BY DEF Drawn
<1>2. \A i \in 1 .. Len(t) : p[i] \in 1 .. Len(s)
  OBVIOUS
<1> QED
  BY <1>1, <1>2 DEF Drawn

\* The elements from one place to another.
LEMMA SubSeqDrawn ==
  ASSUME NEW B, NEW s \in Seq(B), NEW m \in 1 .. Len(s) + 1, NEW n \in m - 1 .. Len(s)
  PROVE  /\ SubSeq(s, m, n) \in Seq(B) /\ Len(SubSeq(s, m, n)) = n - m + 1
         /\ \A i \in 1 .. n - m + 1 : SubSeq(s, m, n)[i] = s[m + i - 1]
         /\ Drawn(s, SubSeq(s, m, n))
<1>1. /\ SubSeq(s, m, n) \in Seq(B) /\ Len(SubSeq(s, m, n)) = n - m + 1
      /\ \A i \in 1 .. n - m + 1 : SubSeq(s, m, n)[i] = s[m + i - 1]
  <2>1. Len(s) \in Nat /\ m \in Int /\ n \in Int /\ m \in 1 .. Len(s) + 1 /\ n \in m - 1 .. Len(s)
    OBVIOUS
  <2>2. /\ SubSeq(s, m, n) \in Seq(B)
        /\ Len(SubSeq(s, m, n)) = IF m <= n THEN n - m + 1 ELSE 0
        /\ \A i \in 1 .. n - m + 1 : SubSeq(s, m, n)[i] = s[m + i - 1]
    BY SubSeqProperties
  <2> QED
    BY <2>1, <2>2
<1>2. PICK t, k : t = SubSeq(s, m, n) /\ k = n - m + 1
  OBVIOUS
<1>3. Len(s) \in Nat /\ k \in Nat /\ k <= Len(s)
  BY <1>2
<1>4. PICK p : p = [i \in 1 .. k |-> m + i - 1]
  OBVIOUS
<1>5. p \in [1 .. k -> 1 .. Len(s)]
  BY <1>2, <1>3, <1>4
<1>6. \A i, j \in 1 .. k : i # j => p[i] # p[j]
  BY <1>3, <1>4
<1>7. \A i \in 1 .. k : t[i] = s[p[i]]
  BY <1>1, <1>2, <1>4
<1>8. Len(t) = k
  BY <1>1, <1>2
<1>9. Drawn(s, t)
  <2>1. Len(t) <= Len(s) /\ p \in [1 .. Len(t) -> 1 .. Len(s)]
    BY <1>3, <1>5, <1>8
  <2>2. \A i, j \in 1 .. Len(t) : i # j => p[i] # p[j]
    BY <1>6, <1>8
  <2>3. \A i \in 1 .. Len(t) : t[i] = s[p[i]]
    BY <1>7, <1>8
  <2> QED
    BY <2>1, <2>2, <2>3 DEF Drawn
<1> QED
  BY <1>1, <1>2, <1>9

\* The elements without the first ones.
LEMMA DropDrawn ==
  ASSUME NEW B, NEW s \in Seq(B), NEW n \in 0 .. Len(s)
  PROVE  Drop(s, n) \in Seq(B) /\ Len(Drop(s, n)) = Len(s) - n /\ Drawn(s, Drop(s, n))
<1>1. Len(s) \in Nat /\ n + 1 \in 1 .. Len(s) + 1 /\ Len(s) \in (n + 1) - 1 .. Len(s)
  OBVIOUS
<1> QED
  BY <1>1, SubSeqDrawn DEF Drop

\* The elements but one.
LEMMA RemoveDrawn ==
  ASSUME NEW B, NEW s \in Seq(B), NEW c \in 1 .. Len(s)
  PROVE  /\ RemoveAt(s, c) \in Seq(B) /\ Len(RemoveAt(s, c)) = Len(s) - 1
         /\ \A i \in 1 .. Len(s) - 1 : RemoveAt(s, c)[i] = s[IF i < c THEN i ELSE i + 1]
         /\ Drawn(s, RemoveAt(s, c))
<1>1. Len(s) \in Nat /\ Len(s) >= 1
  OBVIOUS
<1>2. PICK u, v, t : u = SubSeq(s, 1, c - 1) /\ v = SubSeq(s, c + 1, Len(s)) /\ t = u \o v
  OBVIOUS
<1>3. /\ u \in Seq(B) /\ Len(u) = c - 1 /\ \A i \in 1 .. c - 1 : u[i] = s[i]
  <2>1. 1 \in 1 .. Len(s) + 1 /\ c - 1 \in 1 - 1 .. Len(s)
    BY <1>1
  <2>2. /\ u \in Seq(B) /\ Len(u) = (c - 1) - 1 + 1 /\ \A i \in 1 .. (c - 1) - 1 + 1 : u[i] = s[1 + i - 1]
    BY <1>2, <2>1, SubSeqDrawn
  <2> QED
    BY <2>2
<1>4. /\ v \in Seq(B) /\ Len(v) = Len(s) - c /\ \A i \in 1 .. Len(s) - c : v[i] = s[c + i]
  <2>1. c + 1 \in 1 .. Len(s) + 1 /\ Len(s) \in (c + 1) - 1 .. Len(s)
    BY <1>1
  <2>2. /\ v \in Seq(B) /\ Len(v) = Len(s) - (c + 1) + 1
        /\ \A i \in 1 .. Len(s) - (c + 1) + 1 : v[i] = s[(c + 1) + i - 1]
    BY <1>2, <2>1, SubSeqDrawn
  <2>3. Len(s) - (c + 1) + 1 = Len(s) - c /\ \A i \in 1 .. Len(s) - c : (c + 1) + i - 1 = c + i
    BY <1>1
  <2> QED
    BY <2>2, <2>3
<1>5. t \in Seq(B) /\ Len(t) = Len(s) - 1
  <2>1. t \in Seq(B) /\ Len(t) = Len(u) + Len(v)
    BY <1>2, <1>3, <1>4, ConcatProperties
  <2> QED
    BY <1>1, <1>3, <1>4, <2>1
<1>6. \A i \in 1 .. Len(t) : t[i] = IF i <= Len(u) THEN u[i] ELSE v[i - Len(u)]
  <2>1. /\ Len(t) = Len(u) + Len(v)
        /\ \A i \in 1 .. Len(u) + Len(v) : t[i] = IF i <= Len(u) THEN u[i] ELSE v[i - Len(u)]
    <3>1. u \in Seq(B) /\ v \in Seq(B) /\ t = u \o v
      BY <1>2, <1>3, <1>4
    <3> QED
      BY <3>1
  <2> QED
    BY <2>1
<1>7. \A i \in 1 .. Len(s) - 1 : t[i] = s[IF i < c THEN i ELSE i + 1]
  <2>1. ASSUME NEW i \in 1 .. Len(s) - 1
        PROVE  t[i] = s[IF i < c THEN i ELSE i + 1]
    <3>1. CASE i < c
      BY <1>1, <1>3, <1>5, <1>6, <3>1
    <3>2. CASE ~(i < c)
      <4>1. i - Len(u) \in 1 .. Len(s) - c /\ c + (i - Len(u)) = i + 1
        BY <1>1, <1>3, <3>2
      <4>2. ~(i <= Len(u)) /\ i \in 1 .. Len(t)
        BY <1>3, <1>5, <3>2
      <4> QED
        BY <1>4, <1>6, <3>2, <4>1, <4>2
    <3> QED
      BY <3>1, <3>2
  <2> QED
    BY <2>1
<1>8. PICK p : p = [i \in 1 .. Len(s) - 1 |-> IF i < c THEN i ELSE i + 1]
  OBVIOUS
<1>9. p \in [1 .. Len(s) - 1 -> 1 .. Len(s)]
  BY <1>1, <1>8
<1>10. \A i, j \in 1 .. Len(s) - 1 : i # j => p[i] # p[j]
  BY <1>1, <1>8
<1>11. \A i \in 1 .. Len(s) - 1 : t[i] = s[p[i]]
  BY <1>7, <1>8
<1>12. Drawn(s, t)
  <2>1. Len(t) <= Len(s) /\ p \in [1 .. Len(t) -> 1 .. Len(s)]
    BY <1>1, <1>5, <1>9
  <2>2. \A i, j \in 1 .. Len(t) : i # j => p[i] # p[j]
    BY <1>5, <1>10
  <2>3. \A i \in 1 .. Len(t) : t[i] = s[p[i]]
    BY <1>5, <1>11
  <2> QED
    BY <2>1, <2>2, <2>3 DEF Drawn
<1> QED
  BY <1>2, <1>5, <1>7, <1>12 DEF RemoveAt

\* An element is put before the one at `at', or behind the last.
LEMMA InsertIs ==
  ASSUME NEW B, NEW s \in Seq(B), NEW e \in B, NEW at \in 1 .. Len(s) + 1
  PROVE  /\ InsertAt(s, at, e) \in Seq(B) /\ Len(InsertAt(s, at, e)) = Len(s) + 1
         /\ InsertAt(s, at, e)[at] = e
         /\ \A i \in 1 .. Len(s) + 1 : i # at =>
              /\ (IF i < at THEN i ELSE i - 1) \in 1 .. Len(s)
              /\ InsertAt(s, at, e)[i] = s[IF i < at THEN i ELSE i - 1]
<1>1. Len(s) \in Nat
  OBVIOUS
<1>2. PICK u, v, w, t : /\ u = SubSeq(s, 1, at - 1) /\ v = SubSeq(s, at, Len(s))
                        /\ w = u \o <<e>> /\ t = w \o v
  OBVIOUS
<1>3. /\ u \in Seq(B) /\ Len(u) = at - 1 /\ \A i \in 1 .. at - 1 : u[i] = s[i]
  <2>1. 1 \in 1 .. Len(s) + 1 /\ at - 1 \in 1 - 1 .. Len(s)
    BY <1>1
  <2>2. /\ u \in Seq(B) /\ Len(u) = (at - 1) - 1 + 1 /\ \A i \in 1 .. (at - 1) - 1 + 1 : u[i] = s[1 + i - 1]
    BY <1>2, <2>1, SubSeqDrawn
  <2> QED
    BY <2>2
<1>4. /\ v \in Seq(B) /\ Len(v) = Len(s) - at + 1 /\ \A i \in 1 .. Len(s) - at + 1 : v[i] = s[at + i - 1]
  <2>1. Len(s) \in at - 1 .. Len(s)
    BY <1>1
  <2> QED
    BY <1>2, <2>1, SubSeqDrawn
<1>5. w \in Seq(B) /\ Len(w) = at /\ w[at] = e /\ \A i \in 1 .. at - 1 : w[i] = s[i]
  <2>0. <<e>> \in Seq(B) /\ Len(<<e>>) = 1 /\ <<e>>[1] = e
    OBVIOUS
  <2>1. /\ w \in Seq(B) /\ Len(w) = Len(u) + Len(<<e>>)
        /\ \A i \in 1 .. Len(u) + Len(<<e>>) : w[i] = IF i <= Len(u) THEN u[i] ELSE <<e>>[i - Len(u)]
    BY <1>2, <1>3, <2>0, ConcatProperties
  <2>2. Len(w) = at /\ \A i \in 1 .. at : w[i] = IF i <= at - 1 THEN u[i] ELSE <<e>>[i - (at - 1)]
    BY <1>1, <1>3, <2>0, <2>1
  <2>3. at \in 1 .. at /\ ~(at <= at - 1) /\ at - (at - 1) = 1
    BY <1>1
  <2>4. w[at] = e
    BY <2>0, <2>2, <2>3
  <2> QED
    BY <1>3, <2>1, <2>2, <2>4
<1>11. /\ t \in Seq(B) /\ Len(t) = Len(w) + Len(v)
       /\ \A i \in 1 .. Len(w) + Len(v) : t[i] = IF i <= Len(w) THEN w[i] ELSE v[i - Len(w)]
  <2>1. w \in Seq(B) /\ v \in Seq(B) /\ t = w \o v
    BY <1>2, <1>4, <1>5
  <2> QED
    BY <2>1, ConcatProperties
<1>6. t \in Seq(B) /\ Len(t) = Len(s) + 1
  BY <1>1, <1>4, <1>5, <1>11
<1>7. \A i \in 1 .. Len(t) : t[i] = IF i <= at THEN w[i] ELSE v[i - at]
  BY <1>5, <1>11
<1>8. ASSUME NEW i \in 1 .. Len(s) + 1, i # at
      PROVE  /\ (IF i < at THEN i ELSE i - 1) \in 1 .. Len(s)
             /\ t[i] = s[IF i < at THEN i ELSE i - 1]
  <2>1. CASE i < at
    BY <1>1, <1>5, <1>6, <1>7, <2>1
  <2>2. CASE i > at
    <3>1. i - at \in 1 .. Len(s) - at + 1 /\ at + (i - at) - 1 = i - 1 /\ i - 1 \in 1 .. Len(s)
      BY <1>1, <2>2
    <3>2. ~(i <= at) /\ i \in 1 .. Len(t) /\ ~(i < at)
      BY <1>6, <2>2
    <3>3. t[i] = v[i - at]
      BY <1>7, <3>2
    <3>4. v[i - at] = s[i - 1]
      BY <1>4, <3>1
    <3> QED
      BY <3>1, <3>2, <3>3, <3>4
  <2> QED
    BY <1>8, <2>1, <2>2
<1>9. t[at] = e
  BY <1>1, <1>5, <1>6, <1>7
<1>10. InsertAt(s, at, e) = t
  BY <1>2 DEF InsertAt
<1> QED
  BY <1>6, <1>8, <1>9, <1>10

\* A count down to nothing ends.
LEMMA CountsDown ==
  ASSUME NEW n \in Nat
  PROVE  Lessens(0 .. n, {0}, [i \in 0 .. n |-> IF i = 0 THEN 0 ELSE i - 1], [i \in 0 .. n |-> i], n + 1)
BY DEF Lessens

\* t is made of elements of s, in their order.
InOrder(s, t) ==
  \E p \in [1 .. Len(t) -> 1 .. Len(s)] :
    /\ \A a, b \in 1 .. Len(t) : a < b => p[a] < p[b]
    /\ \A a \in 1 .. Len(t) : t[a] = s[p[a]]

\* t has the elements of s up to the i-th that lie in S, in their order.
PickedUp(B, s, S, i, t) ==
  /\ t \in Seq(B) /\ Len(t) <= i
  /\ \A j \in 1 .. Len(t) : t[j] \in S
  /\ \A j \in 1 .. i : s[j] \in S => \E a \in 1 .. Len(t) : t[a] = s[j]
  /\ \E p \in [1 .. Len(t) -> 1 .. i] :
       /\ \A a, b \in 1 .. Len(t) : a < b => p[a] < p[b]
       /\ \A a \in 1 .. Len(t) : t[a] = s[p[a]]

\* The elements of a sequence that lie in a set are drawn from it.
LEMMA SelectedDrawn ==
  ASSUME NEW B, NEW s \in Seq(B), NEW S
  PROVE  /\ Selected(s, S) \in Seq(B) /\ Drawn(s, Selected(s, S))
         /\ InOrder(s, Selected(s, S))
         /\ \A i \in 1 .. Len(Selected(s, S)) : Selected(s, S)[i] \in S
         /\ \A j \in 1 .. Len(s) : s[j] \in S =>
              \E i \in 1 .. Len(Selected(s, S)) : Selected(s, S)[i] = s[j]
<1> DEFINE n == Len(s)
<1> DEFINE IsPart(part) == part = [i \in 0 .. Len(s) |->
        IF i = 0 THEN <<>>
        ELSE IF s[i] \in S THEN Append(part[i - 1], s[i]) ELSE part[i - 1]]
<1> DEFINE nx == [i \in 0 .. n |-> IF i = 0 THEN 0 ELSE i - 1]
<1> DEFINE res == [i \in 0 .. n |-> <<>>]
<1> DEFINE g == [p \in (0 .. n) \X Seq(B) |->
                   IF p[1] # 0 /\ s[p[1]] \in S THEN Append(p[2], s[p[1]]) ELSE p[2]]
<1>1. n \in Nat /\ \A i \in 1 .. n : s[i] \in B
  OBVIOUS
<1>2. PICK f : Recurs(0 .. n, Seq(B), {0}, nx, res, g, f)
  <2>1. Lessens(0 .. n, {0}, nx, [i \in 0 .. n |-> i], n + 1)
    BY <1>1, CountsDown
  <2>2. res \in [0 .. n -> Seq(B)]
    OBVIOUS
  <2>3. g \in [(0 .. n) \X Seq(B) -> Seq(B)]
    <3>1. ASSUME NEW p \in (0 .. n) \X Seq(B)
          PROVE  (IF p[1] # 0 /\ s[p[1]] \in S THEN Append(p[2], s[p[1]]) ELSE p[2]) \in Seq(B)
      BY <1>1
    <3> QED
      BY <3>1
  <2> HIDE DEF nx, res, g, n
  <2> QED
    BY <2>1, <2>2, <2>3, Recursion
<1>3. /\ f \in [0 .. n -> Seq(B)]
      /\ \A i \in 0 .. n : f[i] = IF i \in {0} THEN res[i] ELSE g[<<i, f[nx[i]]>>]
  BY <1>2 DEF Recurs
<1>4. ASSUME NEW i \in 0 .. n
      PROVE  f[i] = IF i = 0 THEN <<>>
                    ELSE IF s[i] \in S THEN Append(f[i - 1], s[i]) ELSE f[i - 1]
  <2>1. CASE i = 0
    BY <1>3, <2>1
  <2>2. CASE i # 0
    <3>1. nx[i] = i - 1 /\ i - 1 \in 0 .. n
      BY <1>1, <2>2
    <3>2. f[i - 1] \in Seq(B)
      BY <1>3, <3>1
    <3>3. f[i] = g[<<i, f[i - 1]>>]
      <4> HIDE DEF g, nx, res
      <4> QED
        BY <1>3, <2>2, <3>1
    <3>4. g[<<i, f[i - 1]>>] = IF i # 0 /\ s[i] \in S THEN Append(f[i - 1], s[i]) ELSE f[i - 1]
      BY <3>2
    <3> HIDE DEF g, nx, res
    <3> QED
      BY <2>2, <3>3, <3>4
  <2> QED
    BY <2>1, <2>2
<1> HIDE DEF nx, res, g
<1>5. IsPart(f)
  <2>1. f = [i \in 0 .. n |-> f[i]]
    BY <1>3
  <2> QED
    BY <1>4, <2>1, Zenon
<1>6. PICK part : IsPart(part) /\ part = CHOOSE h : IsPart(h)
  <2> HIDE DEF IsPart
  <2> QED
    BY <1>5, Zenon
<1>7. Selected(s, S) = part[n]
  BY <1>6 DEF Selected
<1>8. \A i \in 0 .. n : part[i] = IF i = 0 THEN <<>>
                    ELSE IF s[i] \in S THEN Append(part[i - 1], s[i]) ELSE part[i - 1]
  BY <1>6, Zenon
<1> HIDE DEF IsPart
<1> DEFINE P == {i \in 0 .. n : PickedUp(B, s, S, i, part[i])}
<1>9. 0 \in P
  <2>1. part[0] = <<>> /\ 0 \in 0 .. n
    <3>1. 0 \in 0 .. n
      BY <1>1
    <3> QED
      BY <1>8, <3>1, Zenon
  <2>2. <<>> \in Seq(B) /\ Len(<<>>) = 0 /\ \A j : j \notin 1 .. 0
    OBVIOUS
  <2>3. PICK p : p = [j \in 1 .. 0 |-> 0]
    OBVIOUS
  <2>4. p \in [1 .. 0 -> 1 .. 0]
    BY <2>3
  <2>5. PICK e : e = <<>>
    OBVIOUS
  <2>6. e \in Seq(B) /\ Len(e) = 0 /\ 1 .. 0 = {}
    BY <2>5
  <2>7. p \in [1 .. Len(e) -> 1 .. 0]
    BY <2>4, <2>6
  <2>8. /\ Len(e) <= 0 /\ \A j \in 1 .. Len(e) : e[j] \in S
        /\ \A a, b \in 1 .. Len(e) : a < b => p[a] < p[b]
        /\ \A a \in 1 .. Len(e) : e[a] = s[p[a]]
        /\ \A j \in 1 .. 0 : s[j] \in S => \E a \in 1 .. Len(e) : e[a] = s[j]
    BY <2>6
  <2>9. PickedUp(B, s, S, 0, e)
    BY <2>6, <2>7, <2>8, Zenon DEF PickedUp
  <2> QED
    BY <1>1, <2>1, <2>5, <2>9
<1>10. ASSUME NEW i \in 1 .. n, i - 1 \in P
       PROVE  i \in P
  <2>1. PICK t, u : t = part[i - 1] /\ u = part[i]
    OBVIOUS
  <2>0. PickedUp(B, s, S, i - 1, t)
    BY <1>10, <2>1
  <2>2. /\ t \in Seq(B) /\ Len(t) <= i - 1 /\ Len(t) \in Nat
        /\ \A j \in 1 .. Len(t) : t[j] \in S
        /\ \A j \in 1 .. i - 1 : s[j] \in S => \E a \in 1 .. Len(t) : t[a] = s[j]
    BY <2>0 DEF PickedUp
  <2>3. PICK p \in [1 .. Len(t) -> 1 .. i - 1] :
                       /\ \A a, b \in 1 .. Len(t) : a < b => p[a] < p[b]
                       /\ \A a \in 1 .. Len(t) : t[a] = s[p[a]]
    BY <2>0 DEF PickedUp
  <2>4. u = IF s[i] \in S THEN Append(t, s[i]) ELSE t
    <3>1. i \in 0 .. n /\ i # 0
      BY <1>1
    <3> QED
      BY <1>8, <2>1, <3>1, Zenon
  <2>5. CASE s[i] \in S
    <3>1. /\ u \in Seq(B) /\ Len(u) = Len(t) + 1 /\ u[Len(t) + 1] = s[i]
          /\ \A j \in 1 .. Len(t) : u[j] = t[j]
      BY <1>1, <2>2, <2>4, <2>5
    <3>2. PICK q : q = [j \in 1 .. Len(u) |-> IF j = Len(t) + 1 THEN i ELSE p[j]]
      OBVIOUS
    <3>3. q \in [1 .. Len(u) -> 1 .. i]
      BY <2>2, <3>1, <3>2
    <3>4. \A a, b \in 1 .. Len(u) : a < b => q[a] < q[b]
      <4>1. \A a \in 1 .. Len(t) : p[a] \in 1 .. i - 1
        BY <2>2
      <4>2. \A a \in 1 .. Len(u) : a = Len(t) + 1 \/ a \in 1 .. Len(t)
        BY <2>2, <3>1
      <4>3. \A a \in 1 .. Len(t) : p[a] < i
        BY <4>1
      <4>4. \A a, b \in 1 .. Len(u) : a < b => a # Len(t) + 1
        BY <2>2, <3>1
      <4> QED
        BY <2>3, <3>2, <4>2, <4>3, <4>4
    <3>5. \A a \in 1 .. Len(u) : u[a] = s[q[a]]
      BY <2>2, <2>3, <3>1, <3>2
    <3>6. \A j \in 1 .. Len(u) : u[j] \in S
      <4>1. \A j \in 1 .. Len(u) : j = Len(t) + 1 \/ j \in 1 .. Len(t)
        BY <2>2, <3>1
      <4> QED
        BY <2>2, <2>5, <3>1, <4>1
    <3>7. Len(u) <= i
      BY <2>2, <3>1
    <3>8. ASSUME NEW j \in 1 .. i, s[j] \in S
          PROVE  \E a \in 1 .. Len(u) : u[a] = s[j]
      <4>1. CASE j = i
        <5>1. Len(u) = Len(t) + 1 /\ Len(t) + 1 \in 1 .. Len(u)
          <6>1. PICK m : m = Len(t)
            OBVIOUS
          <6>2. m \in Nat /\ Len(u) = m + 1
            BY <2>2, <3>1, <6>1
          <6> QED
            BY <6>1, <6>2
        <5> QED
          BY <3>1, <4>1, <5>1
      <4>2. CASE j # i
        <5>1. j \in 1 .. i - 1
          BY <1>1, <4>2
        <5>2. PICK a \in 1 .. Len(t) : t[a] = s[j]
          BY <2>2, <3>8, <5>1
        <5>3. a \in 1 .. Len(u)
          BY <2>2, <3>1
        <5> QED
          BY <3>1, <5>2, <5>3
      <4> QED
        BY <4>1, <4>2
    <3>9. PickedUp(B, s, S, i, u)
      BY <3>1, <3>3, <3>4, <3>5, <3>6, <3>7, <3>8 DEF PickedUp
    <3> QED
      BY <2>1, <3>9
  <2>6. CASE s[i] \notin S
    <3>1. p \in [1 .. Len(t) -> 1 .. i] /\ Len(t) <= i
      BY <2>2
    <3>2. u = t
      BY <2>4, <2>6
    <3> QED
      <4>1. PickedUp(B, s, S, i, t)
        <5>1. \A j \in 1 .. i : s[j] \in S => j \in 1 .. i - 1
          BY <1>1, <2>6
        <5> QED
          BY <2>2, <2>3, <3>1, <5>1 DEF PickedUp
      <4>2. i \in 0 .. n /\ part[i] = t
        BY <1>1, <2>1, <3>2
      <4> QED
        BY <4>1, <4>2
  <2> QED
    BY <2>5, <2>6
<1>11. n \in P
  <2>1. \A i \in 0 .. n : i \in P
    <3> HIDE DEF P, n
    <3> QED
      BY <1>1, <1>9, <1>10, Reached
  <2> QED
    BY <1>1, <2>1
<1>12. PICK t : t = part[n]
  OBVIOUS
<1>13. /\ t \in Seq(B) /\ Len(t) <= Len(s) /\ \A j \in 1 .. Len(t) : t[j] \in S
       /\ \A j \in 1 .. Len(s) : s[j] \in S => \E i \in 1 .. Len(t) : t[i] = s[j]
       /\ InOrder(s, t)
  BY <1>11, <1>12 DEF InOrder, PickedUp
<1>14. Drawn(s, t)
  <2>1. PICK p \in [1 .. Len(t) -> 1 .. Len(s)] :
          /\ \A a, b \in 1 .. Len(t) : a < b => p[a] < p[b]
          /\ \A a \in 1 .. Len(t) : t[a] = s[p[a]]
    BY <1>13 DEF InOrder
  <2>2. ASSUME NEW a \in 1 .. Len(t), NEW b \in 1 .. Len(t), a # b
        PROVE  p[a] # p[b]
    <3>1. p[a] \in Int /\ p[b] \in Int
      BY <1>1, <2>1
    <3>2. a < b \/ b < a
      BY <1>13, <2>2
    <3> QED
      BY <2>1, <3>1, <3>2
  <2> QED
    BY <1>13, <2>1, <2>2 DEF Drawn
<1> QED
  BY <1>7, <1>12, <1>13, <1>14

---------------------------------------------------------------------------
(* Sorting the pool *)

Block == [off : Nat, rsiz : Nat]

\* What holds where a walk stops, and of each state if it does of the next,
\* holds everywhere.
LEMMA LessensAll ==
  ASSUME NEW S, NEW stop, NEW nx, NEW size, NEW n, Lessens(S, stop, nx, size, n), NEW P,
         \A s \in S : s \in stop => s \in P,
         \A s \in S : s \notin stop /\ nx[s] \in P => s \in P
  PROVE  \A s \in S : s \in P
<1> DEFINE Q == {i \in Nat : \A s \in S : size[s] < i => s \in P}
<1>1. /\ n \in Nat /\ size \in [S -> Nat] /\ nx \in [S -> S]
      /\ \A s \in S : size[s] < n /\ (s \notin stop => size[nx[s]] < size[s])
  BY DEF Lessens
<1>2. 0 \in Q
  BY <1>1
<1>3. ASSUME NEW i \in 1 .. n, i - 1 \in Q
      PROVE  i \in Q
  <2>1. ASSUME NEW s \in S, size[s] < i
        PROVE  s \in P
    <3>1. CASE s \in stop
      BY <3>1
    <3>2. CASE s \notin stop
      <4>1. nx[s] \in S /\ size[nx[s]] < size[s] /\ size[s] \in Nat /\ size[nx[s]] \in Nat
        BY <1>1, <3>2
      <4>2. size[nx[s]] < i - 1
        BY <2>1, <4>1
      <4>3. nx[s] \in P
        BY <1>3, <4>1, <4>2
      <4> QED
        BY <3>2, <4>3
    <3> QED
      BY <3>1, <3>2
  <2> QED
    BY <2>1
<1>4. n \in Q
  <2> HIDE DEF Q
  <2>1. \A i \in 0 .. n : i \in Q
    BY <1>1, <1>2, <1>3, Reached
  <2> QED
    BY <1>1, <2>1
<1> QED
  BY <1>1, <1>4

Exchanged(a, i, j) == [a EXCEPT ![i + 1] = a[j + 1], ![j + 1] = a[i + 1]]

\* Two elements are exchanged.
LEMMA ExchangedDrawn ==
  ASSUME NEW B, NEW n \in Nat, NEW a \in [1 .. n -> B], NEW i \in 0 .. n - 1, NEW j \in 0 .. n - 1
  PROVE  /\ Exchanged(a, i, j) \in [1 .. n -> B] /\ a \in Seq(B) /\ Len(a) = n
         /\ Drawn(a, Exchanged(a, i, j))
<1>1. PICK b, x, y : b = Exchanged(a, i, j) /\ x = i + 1 /\ y = j + 1
  OBVIOUS
<1>2. x \in 1 .. n /\ y \in 1 .. n
  BY <1>1
<1>3. b = [a EXCEPT ![x] = a[y], ![y] = a[x]]
  BY <1>1 DEF Exchanged
<1>4. b \in [1 .. n -> B] /\ \A k \in 1 .. n : b[k] = IF k = y THEN a[x] ELSE IF k = x THEN a[y] ELSE a[k]
  BY <1>2, <1>3
<1>5. a \in Seq(B) /\ Len(a) = n /\ Len(b) = n
  BY <1>4
<1>6. PICK p : p = [k \in 1 .. n |-> IF k = y THEN x ELSE IF k = x THEN y ELSE k]
  OBVIOUS
<1>7. p \in [1 .. n -> 1 .. n]
  BY <1>2, <1>6
<1>8. \A k, l \in 1 .. n : k # l => p[k] # p[l]
  BY <1>2, <1>6
<1>9. \A k \in 1 .. n : b[k] = a[p[k]]
  BY <1>2, <1>4, <1>6
<1>10. Drawn(a, b)
  <2>1. Len(b) <= Len(a) /\ p \in [1 .. Len(b) -> 1 .. Len(a)]
    BY <1>5, <1>7
  <2>2. \A k, l \in 1 .. Len(b) : k # l => p[k] # p[l]
    BY <1>5, <1>8
  <2>3. \A k \in 1 .. Len(b) : b[k] = a[p[k]]
    BY <1>5, <1>9
  <2> QED
    BY <2>1, <2>2, <2>3 DEF Drawn
<1> QED
  BY <1>1, <1>4, <1>5, <1>10

\* f begins with base at 0 and goes on by step.
Counts(n, V, base, step, f) ==
  /\ f \in [0 .. n -> V]
  /\ \A i \in 0 .. n : f[i] = IF i = 0 THEN base ELSE step[<<i, f[i - 1]>>]

\* A recursion over the numbers up to n has a solution.
LEMMA CountedUp ==
  ASSUME NEW n \in Nat, NEW V, NEW base \in V, NEW step \in [(0 .. n) \X V -> V]
  PROVE  \E f : Counts(n, V, base, step, f)
<1> DEFINE nx == [i \in 0 .. n |-> IF i = 0 THEN 0 ELSE i - 1]
<1> DEFINE res == [i \in 0 .. n |-> base]
<1>1. PICK f : Recurs(0 .. n, V, {0}, nx, res, step, f)
  <2>1. Lessens(0 .. n, {0}, nx, [i \in 0 .. n |-> i], n + 1)
    BY CountsDown
  <2>2. res \in [0 .. n -> V]
    OBVIOUS
  <2> HIDE DEF nx, res
  <2> QED
    BY <2>1, <2>2, Recursion
<1>2. f \in [0 .. n -> V] /\ \A i \in 0 .. n : f[i] = IF i \in {0} THEN res[i] ELSE step[<<i, f[nx[i]]>>]
  BY <1>1 DEF Recurs
<1>3. ASSUME NEW i \in 0 .. n
      PROVE  f[i] = IF i = 0 THEN base ELSE step[<<i, f[i - 1]>>]
  <2>1. i = 0 \/ nx[i] = i - 1
    OBVIOUS
  <2>2. res[i] = base
    OBVIOUS
  <2> HIDE DEF nx, res
  <2> QED
    BY <1>2, <2>1, <2>2
<1> QED
  BY <1>2, <1>3 DEF Counts

\* What tcfbpsortbyoff and tcfbpsortbyrsiz return: the blocks, in some order.
LEMMA HeapSortDrawn ==
  ASSUME NEW s \in Seq(Block), NEW by \in {"off", "rsiz"}
  PROVE  HeapSort(s, by) \in Seq(Block) /\ Len(HeapSort(s, by)) = Len(s) /\ Drawn(s, HeapSort(s, by))
<1> DEFINE n == Len(s)
<1> DEFINE A == [1 .. n -> Range(s)]
<1> DEFINE I == 0 .. n - 1
<1> DEFINE At(a, i) == a[i + 1][by]
<1> DEFINE Swap(a, i, j) == [a EXCEPT ![i + 1] = a[j + 1], ![j + 1] = a[i + 1]]
<1> DEFINE Nxt(a, m, top) == IF 2 * m < top /\ At(a, 2 * m + 1) > At(a, 2 * m) THEN 2 * m + 1 ELSE 2 * m
<1> DEFINE IsSift(sift) == sift = [x \in [a : A, m : I, top : I] |->
        LET c == 2 * x.m
            i == IF c < x.top /\ At(x.a, c + 1) > At(x.a, c) THEN c + 1 ELSE c
        IN IF c > x.top \/ At(x.a, x.m) >= At(x.a, i) THEN x.a
           ELSE sift[[a |-> Swap(x.a, x.m, i), m |-> i, top |-> x.top]]]
<1> DEFINE sift == CHOOSE h : IsSift(h)
<1> DEFINE Sift(a, m, top) == sift[[a |-> a, m |-> m, top |-> top]]
<1> DEFINE IsHeap(heap) == heap = [m \in 0 .. n |->
        IF m > (n - 1) \div 2 THEN s ELSE Sift(heap[m + 1], m, n - 1)]
<1> DEFINE heap == CHOOSE h : IsHeap(h)
<1> DEFINE IsDrained(drained) == drained = [i \in 0 .. n |->
        IF i <= 1 THEN heap[0]
        ELSE Sift(Swap(drained[i - 1], 0, n - i + 1), 0, n - i)]
<1> DEFINE drained == CHOOSE h : IsDrained(h)
<1>1. HeapSort(s, by) = drained[n]
  BY DEF HeapSort
<1>2. n \in Nat /\ Range(s) \subseteq Block /\ s \in A /\ \A i \in I : i + 1 \in 1 .. n
  BY DEF Range
<1>3. ASSUME NEW a \in A, NEW i \in I
      PROVE  At(a, i) \in Nat
  <2>1. a[i + 1] \in Block
    BY <1>2
  <2> QED
    BY <2>1 DEF Block
<1>4. ASSUME NEW a \in A, NEW i \in I, NEW j \in I
      PROVE  Swap(a, i, j) \in A /\ Drawn(a, Swap(a, i, j))
  <2>1. Swap(a, i, j) = Exchanged(a, i, j)
    BY DEF Exchanged
  <2>2. PICK k, R : k = n /\ R = Range(s)
    OBVIOUS
  <2>3. k \in Nat /\ a \in [1 .. k -> R] /\ i \in 0 .. k - 1 /\ j \in 0 .. k - 1
    BY <1>2, <2>2
  <2>4. Exchanged(a, i, j) \in [1 .. k -> R] /\ Drawn(a, Exchanged(a, i, j))
    BY <2>3, ExchangedDrawn
  <2> HIDE DEF Swap
  <2> QED
    BY <2>1, <2>2, <2>4
<1>5. ASSUME NEW a \in A, NEW m \in I, NEW top \in I,
             ~(2 * m > top \/ At(a, m) >= At(a, Nxt(a, m, top)))
      PROVE  Nxt(a, m, top) \in I /\ Nxt(a, m, top) > m
  <2>1. n \in Nat /\ m \in Int /\ top \in Int /\ 0 <= m /\ m <= n - 1 /\ top <= n - 1 /\ 2 * m <= top
    BY <1>2, <1>5
  <2>2. PICK i : i = Nxt(a, m, top)
    OBVIOUS
  <2>3. i = 2 * m \/ (i = 2 * m + 1 /\ 2 * m < top)
    BY <2>2
  <2>4. i \in I
    BY <2>1, <2>3
  <2>5. i # m
    <3>1. CASE i = m
      <4>1. At(a, m) \in Nat /\ ~(At(a, m) >= At(a, m))
        BY <1>3, <1>5, <2>2, <3>1
      <4> HIDE DEF At
      <4> QED
        BY <4>1
    <3> QED
      BY <3>1
  <2> HIDE DEF Nxt
  <2> QED
    BY <2>1, <2>2, <2>3, <2>4, <2>5
<1> DEFINE S == [a : A, m : I, top : I]
<1> DEFINE Stops(a, m, top) == 2 * m > top \/ At(a, m) >= At(a, Nxt(a, m, top))
<1> DEFINE Goes(a, m, top) == [a |-> Swap(a, m, Nxt(a, m, top)), m |-> Nxt(a, m, top), top |-> top]
<1> DEFINE stop == {x \in S : Stops(x.a, x.m, x.top)}
<1> DEFINE nx == [x \in S |-> IF x \in stop THEN x ELSE Goes(x.a, x.m, x.top)]
<1> DEFINE res == [x \in S |-> x.a]
<1> DEFINE size == [x \in S |-> n - x.m]
<1>6. ASSUME NEW x \in S, x \notin stop
      PROVE  /\ nx[x] = Goes(x.a, x.m, x.top)
             /\ nx[x] \in S /\ size[nx[x]] < size[x] /\ Drawn(x.a, nx[x].a)
  <2>1. PICK a, m, top, i, b : /\ a = x.a /\ m = x.m /\ top = x.top
                               /\ i = Nxt(a, m, top) /\ b = Swap(a, m, i)
    OBVIOUS
  <2>2. a \in A /\ m \in I /\ top \in I
    <3> HIDE DEF A, I
    <3> QED
      BY <2>1
  <2>3. ~Stops(a, m, top)
    <3> HIDE DEF Stops, A, I
    <3> QED
      BY <1>6, <2>1
  <2>4. i \in I /\ i > m
    <3>1. ~(2 * m > top \/ At(a, m) >= At(a, Nxt(a, m, top)))
      BY <2>3
    <3> HIDE DEF Nxt, A, I, At, Stops
    <3> QED
      BY <1>5, <2>1, <2>2, <3>1
  <2>6. b \in A /\ Drawn(a, b)
    BY <1>4, <2>1, <2>2, <2>4
  <2>7. nx[x] = [a |-> b, m |-> i, top |-> top] /\ nx[x] = Goes(x.a, x.m, x.top)
    <3> HIDE DEF A, I, Nxt, Swap, stop
    <3> QED
      BY <1>6, <2>1
  <2>8. [a |-> b, m |-> i, top |-> top] \in S
    <3> HIDE DEF A, I
    <3> QED
      BY <2>2, <2>4, <2>6
  <2>9. n - i < n - m
    BY <1>2, <2>2, <2>4
  <2>10. size[nx[x]] = n - i /\ size[x] = n - m
    <3> HIDE DEF S, nx
    <3> QED
      BY <2>1, <2>7, <2>8
  <2>11. nx[x].a = b
    <3> HIDE DEF nx, S, Goes
    <3> QED
      BY <2>7
  <2> HIDE DEF nx, size, S, A, I, Nxt, Swap, Goes
  <2> QED
    BY <2>1, <2>6, <2>7, <2>8, <2>9, <2>10, <2>11
<1>7. Lessens(S, stop, nx, size, n + 1)
  <2>1. nx \in [S -> S]
    <3>1. \A x \in S : x \in stop => nx[x] = x
      OBVIOUS
    <3>2. nx = [x \in S |-> nx[x]]
      OBVIOUS
    <3>3. \A x \in S : nx[x] \in S
      <4> HIDE DEF nx, stop, S
      <4> QED
        BY <1>6, <3>1
    <3> HIDE DEF nx, stop, S
    <3> QED
      BY <3>3, <3>2
  <2>2. \A x \in S : x.m \in I
    <3> HIDE DEF A, I
    <3> QED
      OBVIOUS
  <2>3. size \in [S -> Nat] /\ \A x \in S : size[x] < n + 1
    <3> HIDE DEF S
    <3> QED
      BY <1>2, <2>2
  <2> HIDE DEF nx, size, stop, S
  <2> QED
    BY <1>2, <1>6, <2>1, <2>3 DEF Lessens
<1>8. PICK f : Searches(S, A, stop, nx, res, f)
  <2>1. res \in [S -> A]
    <3>1. \A x \in S : x.a \in A
      <4> HIDE DEF A, I
      <4> QED
        OBVIOUS
    <3> HIDE DEF S, A
    <3> QED
      BY <3>1
  <2> HIDE DEF S, A, stop, nx, res, size
  <2> QED
    BY <1>7, <2>1, TailRecursion
<1>9. f \in [S -> A] /\ \A x \in S : f[x] = IF x \in stop THEN res[x] ELSE f[nx[x]]
  <2> HIDE DEF S, A, stop, nx, res, size
  <2> QED
    BY <1>8 DEF Searches
<1>10. ASSUME NEW x \in S
       PROVE  f[x] = IF Stops(x.a, x.m, x.top) THEN x.a ELSE f[Goes(x.a, x.m, x.top)]
  <2>1. CASE x \in stop
    <3>1. f[x] = res[x]
      <4> HIDE DEF S, A, stop, nx, res, size
      <4> QED
        BY <1>9, <2>1
    <3>2. res[x] = x.a
      <4> HIDE DEF S
      <4> QED
        OBVIOUS
    <3>3. Stops(x.a, x.m, x.top)
      <4> HIDE DEF S, Stops
      <4> QED
        BY <2>1
    <3> QED
      BY <3>1, <3>2, <3>3
  <2>2. CASE x \notin stop
    <3>1. f[x] = f[nx[x]]
      <4> HIDE DEF S, A, stop, nx, res, size
      <4> QED
        BY <1>9, <2>2
    <3>2. nx[x] = Goes(x.a, x.m, x.top)
      BY <1>6, <2>2
    <3>3. ~Stops(x.a, x.m, x.top)
      <4> HIDE DEF S, Stops
      <4> QED
        BY <2>2
    <3> HIDE DEF nx, Goes, Stops
    <3> QED
      BY <3>1, <3>2, <3>3
  <2> QED
    BY <2>1, <2>2
<1>11. IsSift(f)
  <2>1. f = [x \in S |-> f[x]]
    <3> HIDE DEF S, A
    <3> QED
      BY <1>9
  <2>2. \A x \in S : (IF Stops(x.a, x.m, x.top) THEN x.a ELSE f[Goes(x.a, x.m, x.top)]) =
           LET c == 2 * x.m
               i == IF c < x.top /\ At(x.a, c + 1) > At(x.a, c) THEN c + 1 ELSE c
           IN IF c > x.top \/ At(x.a, x.m) >= At(x.a, i) THEN x.a
              ELSE f[[a |-> Swap(x.a, x.m, i), m |-> i, top |-> x.top]]
    <3> HIDE DEF S, At, Swap
    <3> QED
      OBVIOUS
  <2>3. f = [x \in S |-> LET c == 2 * x.m
               i == IF c < x.top /\ At(x.a, c + 1) > At(x.a, c) THEN c + 1 ELSE c
           IN IF c > x.top \/ At(x.a, x.m) >= At(x.a, i) THEN x.a
              ELSE f[[a |-> Swap(x.a, x.m, i), m |-> i, top |-> x.top]]]
    <3> HIDE DEF S, At, Swap, Stops, Goes
    <3> QED
      BY <1>10, <2>1, <2>2
  <2> QED
    BY <2>3
<1>12. IsSift(sift)
  <2> HIDE DEF IsSift
  <2> QED
    BY <1>11, Zenon
<1>13. ASSUME NEW x \in S
       PROVE  sift[x] = IF Stops(x.a, x.m, x.top) THEN x.a ELSE sift[Goes(x.a, x.m, x.top)]
  <2>1. PICK h : h = sift
    OBVIOUS
  <2> HIDE DEF sift
  <2> DEFINE Body(y) == LET c == 2 * y.m
               i == IF c < y.top /\ At(y.a, c + 1) > At(y.a, c) THEN c + 1 ELSE c
           IN IF c > y.top \/ At(y.a, y.m) >= At(y.a, i) THEN y.a
              ELSE h[[a |-> Swap(y.a, y.m, i), m |-> i, top |-> y.top]]
  <2>2. h = [y \in S |-> Body(y)]
    BY <1>12, <2>1
  <2>3. h[x] = Body(x)
    <3> HIDE DEF S, Body
    <3> QED
      BY <2>2
  <2>4. h[x] = IF Stops(x.a, x.m, x.top) THEN x.a ELSE h[Goes(x.a, x.m, x.top)]
    <3> HIDE DEF S, At, Swap
    <3> QED
      BY <2>3
  <2> QED
    BY <2>1, <2>4
<1>14. \A a \in A : a \in Seq(Block) /\ Len(a) = n /\ Drawn(a, a)
  <2>1. ASSUME NEW a \in A
        PROVE  a \in Seq(Block) /\ Len(a) = n
    BY <1>2
  <2> HIDE DEF A
  <2> QED
    BY <2>1, DrawnSelf
<1>15. \A x \in S : sift[x] \in A /\ Drawn(x.a, sift[x])
  <2> DEFINE P == {x \in S : sift[x] \in A /\ Drawn(x.a, sift[x])}
  <2>1. \A x \in S : x.a \in A
    <3> HIDE DEF A, I
    <3> QED
      OBVIOUS
  <2>2. ASSUME NEW x \in S, x \in stop
        PROVE  x \in P
    <3>1. Stops(x.a, x.m, x.top)
      <4> HIDE DEF S, Stops
      <4> QED
        BY <2>2
    <3>2. sift[x] = x.a
      <4> HIDE DEF S, Stops, sift, Goes
      <4> QED
        BY <1>13, <3>1
    <3> HIDE DEF S, A, sift
    <3> QED
      BY <1>14, <2>1, <3>2
  <2>3. ASSUME NEW x \in S, x \notin stop, nx[x] \in P
        PROVE  x \in P
    <3>1. ~Stops(x.a, x.m, x.top)
      <4> HIDE DEF S, Stops
      <4> QED
        BY <2>3
    <3>2. sift[x] = sift[nx[x]]
      <4> HIDE DEF S, Stops, sift, Goes, nx, stop
      <4> QED
        BY <1>6, <1>13, <2>3, <3>1
    <3>3. nx[x] \in S /\ Drawn(x.a, nx[x].a)
      BY <1>6, <2>3
    <3>4. sift[nx[x]] \in A /\ Drawn(nx[x].a, sift[nx[x]])
      <4> HIDE DEF S, A, sift, nx
      <4> QED
        BY <2>3
    <3> HIDE DEF S, A, sift, nx
    <3>5. x.a \in Seq(Block) /\ nx[x].a \in Seq(Block) /\ sift[nx[x]] \in Seq(Block)
      BY <1>14, <2>1, <3>3, <3>4
    <3>6. Drawn(x.a, sift[nx[x]])
      BY <3>3, <3>4, <3>5, DrawnTwice
    <3> QED
      BY <3>2, <3>4, <3>6
  <2>4. \A x \in S : x \in P
    <3> HIDE DEF P, S, stop, nx, size
    <3> QED
      BY <1>7, <2>2, <2>3, LessensAll
  <2> HIDE DEF S, A, sift
  <2> QED
    BY <2>4
<1>16. ASSUME NEW a \in A, NEW m \in I, NEW top \in I
       PROVE  Sift(a, m, top) \in A /\ Drawn(a, Sift(a, m, top))
  <2>1. PICK x : x = [a |-> a, m |-> m, top |-> top]
    OBVIOUS
  <2>2. x \in S /\ x.a = a
    <3> HIDE DEF A, I
    <3> QED
      BY <2>1
  <2> HIDE DEF S, A, sift
  <2> QED
    BY <1>15, <2>1, <2>2
<1> HIDE DEF sift, Sift
<1> DEFINE G == {a \in A : Drawn(s, a)}
<1>17. s \in G /\ G \subseteq Seq(Block)
  <2> HIDE DEF A
  <2> QED
    BY <1>2, <1>14
<1>18. ASSUME NEW a \in G, NEW m \in I, NEW top \in I
       PROVE  Sift(a, m, top) \in G
  <2>1. a \in A /\ Drawn(s, a) /\ Sift(a, m, top) \in A /\ Drawn(a, Sift(a, m, top))
    <3> HIDE DEF A
    <3> QED
      BY <1>16
  <2> HIDE DEF A
  <2>2. Drawn(s, Sift(a, m, top))
    BY <1>2, <1>14, <2>1, DrawnTwice
  <2> QED
    BY <2>1, <2>2
<1>19. ASSUME NEW a \in G, NEW i \in I, NEW j \in I
       PROVE  Swap(a, i, j) \in G
  <2>1. a \in A /\ Drawn(s, a) /\ Swap(a, i, j) \in A /\ Drawn(a, Swap(a, i, j))
    <3> HIDE DEF A, Swap
    <3> QED
      BY <1>4
  <2> HIDE DEF A, Swap
  <2>2. Drawn(s, Swap(a, i, j))
    BY <1>2, <1>14, <2>1, DrawnTwice
  <2> QED
    BY <2>1, <2>2
<1> HIDE DEF G, Swap
<1> DEFINE half == {m \in 0 .. n : m > (n - 1) \div 2}
<1> DEFINE up == [m \in 0 .. n |-> IF m = n THEN n ELSE m + 1]
<1> DEFINE left == [m \in 0 .. n |-> n - m]
<1> DEFINE all == [m \in 0 .. n |-> s]
<1> DEFINE g == [p \in (0 .. n) \X G |-> IF p[1] \in I THEN Sift(p[2], p[1], n - 1) ELSE s]
<1>20. \A m \in 0 .. n : m \notin half => m \in I /\ n - 1 \in I /\ m + 1 \in 0 .. n /\ m # n
  <2>1. PICK k \in Int : k = (n - 1) \div 2
    BY <1>2
  <2>2. 2 * k <= n - 1
    BY <1>2, <2>1
  <2>3. \A m \in 0 .. n : ~(m > k) => m <= n - 1
    BY <1>2, <2>1, <2>2
  <2>4. ASSUME NEW m \in 0 .. n, m \notin half
        PROVE  m \in I /\ n - 1 \in I /\ m + 1 \in 0 .. n /\ m # n
    <3>1. ~(m > k)
      BY <2>1, <2>4
    <3>2. m <= n - 1 /\ m \in Int /\ 0 <= m
      BY <1>2, <2>3, <3>1
    <3>3. n \in Int
      BY <1>2
    <3> HIDE DEF half, n
    <3> QED
      BY <3>2, <3>3
  <2> QED
    BY <2>4
<1>21. PICK h : Recurs(0 .. n, G, half, up, all, g, h)
  <2>1. up \in [0 .. n -> 0 .. n] /\ left \in [0 .. n -> Nat] /\ \A m \in 0 .. n : left[m] < n + 1
    BY <1>2
  <2>2. \A m \in 0 .. n : m \notin half => left[up[m]] < left[m]
    <3>1. ASSUME NEW m \in 0 .. n, m \notin half
          PROVE  left[up[m]] < left[m]
      <4>1. up[m] = m + 1 /\ m + 1 \in 0 .. n
        <5> HIDE DEF half
        <5> QED
          BY <1>20, <3>1
      <4>2. left[m + 1] = n - (m + 1) /\ left[m] = n - m
        <5> HIDE DEF half, up
        <5> QED
          BY <4>1
      <4> HIDE DEF left, up, half
      <4> QED
        BY <1>2, <4>1, <4>2
    <3> QED
      BY <3>1
  <2>3. Lessens(0 .. n, half, up, left, n + 1)
    <3>1. n + 1 \in Nat
      BY <1>2
    <3> HIDE DEF half, up, left
    <3> QED
      BY <2>1, <2>2, <3>1 DEF Lessens
  <2>4. all \in [0 .. n -> G]
    BY <1>17
  <2>5. g \in [(0 .. n) \X G -> G]
    <3>1. ASSUME NEW p \in (0 .. n) \X G
          PROVE  (IF p[1] \in I THEN Sift(p[2], p[1], n - 1) ELSE s) \in G
      <4>1. p[2] \in G /\ (p[1] \in I => n - 1 \in I)
        BY <1>2
      <4> HIDE DEF I
      <4> QED
        BY <1>17, <1>18, <4>1
    <3> QED
      BY <3>1
  <2> HIDE DEF half, up, left, all, g
  <2> QED
    BY <2>3, <2>4, <2>5, Recursion
<1>22. h \in [0 .. n -> G] /\ \A m \in 0 .. n : h[m] = IF m \in half THEN all[m] ELSE g[<<m, h[up[m]]>>]
  BY <1>21 DEF Recurs
<1>23. ASSUME NEW m \in 0 .. n
       PROVE  h[m] = IF m > (n - 1) \div 2 THEN s ELSE Sift(h[m + 1], m, n - 1)
  <2>1. CASE m \in half
    <3>1. h[m] = all[m] /\ all[m] = s
      <4> HIDE DEF half, g, up
      <4> QED
        BY <1>22, <2>1
    <3> QED
      BY <2>1, <3>1
  <2>2. CASE m \notin half
    <3>1. h[m] = g[<<m, h[up[m]]>>]
      <4> HIDE DEF half, g, up, all
      <4> QED
        BY <1>22, <2>2
    <3>2. m \in I /\ m + 1 \in 0 .. n /\ up[m] = m + 1
      <4> HIDE DEF half, I
      <4> QED
        BY <1>20, <2>2
    <3>3. h[m + 1] \in G
      <4> HIDE DEF half, g, up, all
      <4> QED
        BY <1>22, <3>2
    <3>4. g[<<m, h[m + 1]>>] = Sift(h[m + 1], m, n - 1)
      <4> HIDE DEF I, half, up, all
      <4> QED
        BY <3>2, <3>3
    <3>5. ~(m > (n - 1) \div 2)
      BY <2>2
    <3> HIDE DEF g, up
    <3> QED
      BY <3>1, <3>2, <3>4, <3>5
  <2> QED
    BY <2>1, <2>2
<1>24. IsHeap(h)
  <2>1. h = [m \in 0 .. n |-> h[m]]
    <3> HIDE DEF half, g, up, all
    <3> QED
      BY <1>22
  <2> QED
    BY <1>23, <2>1
<1>25. IsHeap(heap)
  <2> HIDE DEF IsHeap
  <2> QED
    BY <1>24, Zenon
<1>26. heap[0] \in G
  <2> DEFINE P == {m \in 0 .. n : heap[m] \in G}
  <2>1. ASSUME NEW m \in 0 .. n
        PROVE  heap[m] = IF m > (n - 1) \div 2 THEN s ELSE Sift(heap[m + 1], m, n - 1)
    <3>1. PICK k : k = heap
      OBVIOUS
    <3>2. k = [j \in 0 .. n |-> IF j > (n - 1) \div 2 THEN s ELSE Sift(k[j + 1], j, n - 1)]
      <4> HIDE DEF heap
      <4> QED
        BY <1>25, <3>1
    <3> HIDE DEF heap
    <3> QED
      BY <3>1, <3>2
  <2> HIDE DEF heap, IsHeap
  <2> DEFINE Q == {i \in 0 .. n : heap[n - i] \in G}
  <2>2. \A m \in 0 .. n : m \in half => heap[m] \in G
    BY <1>17, <2>1
  <2>3. ASSUME NEW m \in 0 .. n, m \notin half, heap[m + 1] \in G
        PROVE  heap[m] \in G
    <3>1. m \in I /\ n - 1 \in I
      <4> HIDE DEF half, I
      <4> QED
        BY <1>20, <2>3
    <3>2. heap[m] = Sift(heap[m + 1], m, n - 1)
      BY <2>1, <2>3
    <3> HIDE DEF I
    <3> QED
      BY <1>18, <2>3, <3>1, <3>2
  <2>4. 0 \in Q
    <3>1. n - 0 = n /\ n \in 0 .. n /\ 0 \in 0 .. n
      BY <1>2
    <3>2. n \in half
      BY <1>2
    <3> HIDE DEF half
    <3> QED
      BY <2>2, <3>1, <3>2
  <2>5. ASSUME NEW i \in 1 .. n, i - 1 \in Q
        PROVE  i \in Q
    <3>1. i \in 0 .. n /\ n - i \in 0 .. n /\ (n - i) + 1 = n - (i - 1)
      BY <1>2
    <3> HIDE DEF half
    <3> QED
      BY <2>2, <2>3, <2>5, <3>1
  <2>6. \A i \in 0 .. n : i \in Q
    <3> HIDE DEF Q
    <3> QED
      BY <1>2, <2>4, <2>5, Reached
  <2>7. n \in 0 .. n /\ n - n = 0
    BY <1>2
  <2> QED
    BY <2>6, <2>7
<1> HIDE DEF heap, half, up, left, all, g
<1> DEFINE step == [p \in (0 .. n) \X G |->
                      IF p[1] <= 1 THEN heap[0] ELSE Sift(Swap(p[2], 0, n - p[1] + 1), 0, n - p[1])]
<1>27. step \in [(0 .. n) \X G -> G]
  <2>1. ASSUME NEW p \in (0 .. n) \X G
        PROVE  (IF p[1] <= 1 THEN heap[0] ELSE Sift(Swap(p[2], 0, n - p[1] + 1), 0, n - p[1])) \in G
    <3>1. p[1] \in 0 .. n /\ p[2] \in G
      OBVIOUS
    <3>2. ~(p[1] <= 1) => 0 \in I /\ n - p[1] + 1 \in I /\ n - p[1] \in I
      BY <1>2, <3>1
    <3> HIDE DEF I
    <3> QED
      BY <1>18, <1>19, <1>26, <3>1, <3>2
  <2> QED
    BY <2>1
<1>28. PICK d : /\ d \in [0 .. n -> G]
                /\ \A i \in 0 .. n : d[i] = IF i = 0 THEN heap[0] ELSE step[<<i, d[i - 1]>>]
  <2>1. PICK k, base, st, W : k = n /\ base = heap[0] /\ st = step /\ W = G
    OBVIOUS
  <2> HIDE DEF step, n
  <2>2. k \in Nat /\ base \in W /\ st \in [(0 .. k) \X W -> W]
    BY <1>2, <1>26, <1>27, <2>1
  <2>3. PICK e : Counts(k, W, base, st, e)
    BY <2>2, CountedUp
  <2> QED
    BY <2>1, <2>3 DEF Counts
<1>29. ASSUME NEW i \in 0 .. n
       PROVE  d[i] = IF i <= 1 THEN heap[0] ELSE Sift(Swap(d[i - 1], 0, n - i + 1), 0, n - i)
  <2>1. CASE i = 0
    <3>1. d[i] = heap[0]
      BY <1>28, <2>1
    <3> QED
      BY <2>1, <3>1
  <2>2. CASE i # 0
    <3>1. d[i - 1] \in G
      BY <1>2, <1>28, <2>2
    <3>2. d[i] = step[<<i, d[i - 1]>>]
      <4> HIDE DEF step
      <4> QED
        BY <1>28, <2>2
    <3>3. <<i, d[i - 1]>> \in (0 .. n) \X G
      BY <3>1
    <3> QED
      BY <3>2, <3>3
  <2> QED
    BY <2>1, <2>2
<1>30. IsDrained(d)
  <2>1. d = [i \in 0 .. n |-> d[i]]
    <3> HIDE DEF step
    <3> QED
      BY <1>28
  <2> QED
    BY <1>29, <2>1
<1>31. IsDrained(drained)
  <2> HIDE DEF IsDrained
  <2> QED
    BY <1>30, Zenon
<1>32. ASSUME NEW i \in 0 .. n
       PROVE  drained[i] = IF i <= 1 THEN heap[0] ELSE Sift(Swap(drained[i - 1], 0, n - i + 1), 0, n - i)
  <2>1. PICK k : k = drained
    OBVIOUS
  <2>2. k = [j \in 0 .. n |-> IF j <= 1 THEN heap[0] ELSE Sift(Swap(k[j - 1], 0, n - j + 1), 0, n - j)]
    <3> HIDE DEF drained
    <3> QED
      BY <1>31, <2>1
  <2> HIDE DEF drained
  <2> QED
    BY <2>1, <2>2
<1> HIDE DEF drained, IsDrained
<1>33. \A i \in 0 .. n : drained[i] \in G
  <2> DEFINE P == {i \in 0 .. n : drained[i] \in G}
  <2>1. 0 \in P
    BY <1>2, <1>26, <1>32
  <2>2. ASSUME NEW i \in 1 .. n, i - 1 \in P
        PROVE  i \in P
    <3>1. i \in 0 .. n /\ drained[i - 1] \in G
      BY <1>2, <2>2
    <3>2. ~(i <= 1) => 0 \in I /\ n - i + 1 \in I /\ n - i \in I
      BY <1>2, <3>1
    <3>3. drained[i] \in G
      <4> HIDE DEF I
      <4> QED
        BY <1>18, <1>19, <1>26, <1>32, <3>1, <3>2
    <3> QED
      BY <3>1, <3>3
  <2> HIDE DEF P
  <2>3. \A i \in 0 .. n : i \in P
    BY <1>2, <2>1, <2>2, Reached
  <2> QED
    BY <2>3 DEF P
<1>34. HeapSort(s, by) \in G
  BY <1>1, <1>2, <1>33
<1> USE DEF G
<1> HIDE DEF A
<1> QED
  BY <1>14, <1>34

---------------------------------------------------------------------------
(* Looking for a block *)

\* The middle lies between.
LEMMA Middle ==
  ASSUME NEW l \in Int, NEW r \in Int, l <= r
  PROVE  (l + r) \div 2 \in Int /\ l <= (l + r) \div 2 /\ (l + r) \div 2 <= r
OBVIOUS

\* What tchdbfbpsearch's search comes to: no block, or one that is large enough.
LEMMA FitIs ==
  ASSUME NEW pool \in Seq(Block), NEW n \in Nat
  PROVE  /\ Fit(pool, n) \in 0 .. Len(pool)
         /\ Fit(pool, n) # 0 => pool[Fit(pool, n)].rsiz >= n
<1> DEFINE num == Len(pool)
<1> DEFINE S == [l : 0 .. num, r : -1 .. num, cand : 0 .. num]
<1> DEFINE mid(x) == (x.l + x.r) \div 2
<1> DEFINE Ends(x) == x.r < x.l \/ mid(x) >= num
<1> DEFINE Hits(x) == pool[mid(x) + 1].rsiz = n
<1> DEFINE To(x) == IF pool[mid(x) + 1].rsiz > n THEN [x EXCEPT !.r = mid(x) - 1, !.cand = mid(x) + 1]
                    ELSE [x EXCEPT !.l = mid(x) + 1]
<1> DEFINE Body(fit, x) == LET i == (x.l + x.r) \div 2
        IN IF x.r < x.l \/ i >= num THEN x.cand
           ELSE IF pool[i + 1].rsiz = n THEN i + 1
           ELSE fit[IF pool[i + 1].rsiz > n THEN [x EXCEPT !.r = i - 1, !.cand = i + 1]
                    ELSE [x EXCEPT !.l = i + 1]]
<1> DEFINE IsFit(fit) == fit = [x \in [l : 0 .. num, r : -1 .. num, cand : 0 .. num] |->
        LET i == (x.l + x.r) \div 2
        IN IF x.r < x.l \/ i >= num THEN x.cand
           ELSE IF pool[i + 1].rsiz = n THEN i + 1
           ELSE fit[IF pool[i + 1].rsiz > n THEN [x EXCEPT !.r = i - 1, !.cand = i + 1]
                    ELSE [x EXCEPT !.l = i + 1]]]
<1> DEFINE fit == CHOOSE h : IsFit(h)
<1> DEFINE stop == {x \in S : Ends(x) \/ Hits(x)}
<1> DEFINE nx == [x \in S |-> IF x \in stop THEN x ELSE To(x)]
<1> DEFINE res == [x \in S |-> IF Ends(x) THEN x.cand ELSE IF Hits(x) THEN mid(x) + 1 ELSE 0]
<1> DEFINE size == [x \in S |-> IF x.r < x.l THEN 0 ELSE x.r - x.l + 1]
<1>1. num \in Nat /\ \A i \in 1 .. num : pool[i].rsiz \in Nat
  <2>1. \A i \in 1 .. num : pool[i] \in Block
    OBVIOUS
  <2> QED
    BY <2>1 DEF Block
<1>2. ASSUME NEW x \in S
      PROVE  /\ x.l \in Nat /\ x.r \in Int /\ x.cand \in 0 .. num /\ x.r <= num /\ x.l <= num /\ x.r >= -1
             /\ ~Ends(x) => /\ mid(x) \in 0 .. num - 1 /\ x.l <= mid(x) /\ mid(x) <= x.r
                            /\ mid(x) \in Int /\ ~(x.r < x.l)
  <2>1. x.l \in Int /\ x.l >= 0 /\ x.r \in Int /\ x.cand \in 0 .. num /\ x.r <= num /\ x.l <= num /\ x.r >= -1
    BY <1>1
  <2>2. ASSUME ~Ends(x)
        PROVE  mid(x) \in 0 .. num - 1 /\ x.l <= mid(x) /\ mid(x) <= x.r /\ mid(x) \in Int /\ ~(x.r < x.l)
    <3>1. ~(x.r < x.l) /\ ~(mid(x) >= num)
      BY <2>2
    <3>2. mid(x) \in Int /\ x.l <= mid(x) /\ mid(x) <= x.r
      BY <2>1, <3>1, Middle
    <3> HIDE DEF mid
    <3> QED
      BY <1>1, <2>1, <3>1, <3>2
  <2> QED
    BY <2>1, <2>2
<1>3. ASSUME NEW x \in S, x \notin stop
      PROVE  /\ nx[x] = To(x) /\ To(x) \in S /\ size[To(x)] < size[x]
             /\ To(x).cand = x.cand \/ (pool[To(x).cand].rsiz >= n)
  <2>1. ~Ends(x) /\ ~Hits(x)
    <3> HIDE DEF S, Ends, Hits
    <3> QED
      BY <1>3
  <2>2. PICK i : i = mid(x)
    OBVIOUS
  <2>3. /\ i \in 0 .. num - 1 /\ x.l <= i /\ i <= x.r /\ x.l \in Nat /\ x.r \in Int /\ x.r <= num
        /\ x.cand \in 0 .. num /\ ~(x.r < x.l) /\ x.l <= num
    <3> HIDE DEF S, Ends, mid
    <3> QED
      BY <1>2, <2>1, <2>2
  <2>4. nx[x] = To(x)
    <3> HIDE DEF S, To, stop
    <3> QED
      BY <1>3
  <2>5. x = [l |-> x.l, r |-> x.r, cand |-> x.cand]
    OBVIOUS
  <2>6. size[x] = x.r - x.l + 1
    <3> HIDE DEF S
    <3> QED
      BY <2>3
  <2>7. CASE pool[i + 1].rsiz > n
    <3>1. PICK y : y = [l |-> x.l, r |-> i - 1, cand |-> i + 1]
      OBVIOUS
    <3>2. To(x) = y
      <4>1. To(x) = [x EXCEPT !.r = i - 1, !.cand = i + 1]
        <5> HIDE DEF mid
        <5> QED
          BY <2>2, <2>7
      <4> HIDE DEF To
      <4> QED
        BY <2>5, <3>1, <4>1
    <3>3. y \in S
      BY <1>1, <2>3, <3>1
    <3>4. size[y] = IF y.r < y.l THEN 0 ELSE y.r - y.l + 1
      <4> HIDE DEF S
      <4> QED
        BY <3>3
    <3>5. size[y] < size[x]
      <4> HIDE DEF size
      <4> QED
        BY <2>3, <2>6, <3>1, <3>4
    <3>6. pool[y.cand].rsiz >= n
      <4>1. pool[i + 1].rsiz \in Nat
        BY <1>1, <2>3
      <4> QED
        BY <2>7, <3>1, <4>1
    <3> HIDE DEF To, nx, size
    <3> QED
      BY <2>4, <3>2, <3>3, <3>5, <3>6
  <2>8. CASE ~(pool[i + 1].rsiz > n)
    <3>1. PICK y : y = [l |-> i + 1, r |-> x.r, cand |-> x.cand]
      OBVIOUS
    <3>2. To(x) = y
      <4>1. To(x) = [x EXCEPT !.l = i + 1]
        <5> HIDE DEF mid
        <5> QED
          BY <2>2, <2>8
      <4> HIDE DEF To
      <4> QED
        BY <2>5, <3>1, <4>1
    <3>3. y \in S
      BY <1>1, <1>2, <2>3, <3>1
    <3>4. size[y] = IF y.r < y.l THEN 0 ELSE y.r - y.l + 1
      <4> HIDE DEF S
      <4> QED
        BY <3>3
    <3>5. size[y] < size[x]
      <4> HIDE DEF size
      <4> QED
        BY <2>3, <2>6, <3>1, <3>4
    <3> HIDE DEF To, nx, size
    <3> QED
      BY <2>4, <3>1, <3>2, <3>3, <3>5
  <2> QED
    BY <2>7, <2>8
<1>4. Lessens(S, stop, nx, size, num + 3)
  <2>1. nx \in [S -> S]
    <3>1. \A x \in S : nx[x] \in S
      <4>1. \A x \in S : x \in stop => nx[x] = x
        OBVIOUS
      <4> HIDE DEF S, stop, nx, To
      <4> QED
        BY <1>3, <4>1
    <3> HIDE DEF S, stop, To
    <3> QED
      BY <3>1
  <2>2. \A x \in S : size[x] \in Nat /\ size[x] < num + 3
    <3>1. ASSUME NEW x \in S
          PROVE  size[x] \in Nat /\ size[x] < num + 3
      <4>1. size[x] = IF x.r < x.l THEN 0 ELSE x.r - x.l + 1
        <5> HIDE DEF S
        <5> QED
          OBVIOUS
      <4>2. x.l \in Nat /\ x.r \in Int /\ x.r <= num
        <5> HIDE DEF S
        <5> QED
          BY <1>2
      <4> HIDE DEF size
      <4> QED
        BY <1>1, <4>1, <4>2
    <3> QED
      BY <3>1
  <2>3. size \in [S -> Nat]
    <3> HIDE DEF S
    <3> QED
      BY <2>2
  <2>4. \A x \in S : x \notin stop => size[nx[x]] < size[x]
    <3> HIDE DEF S, stop, size, nx, To
    <3> QED
      BY <1>3
  <2> HIDE DEF S, stop, size, nx
  <2> QED
    BY <1>1, <2>1, <2>2, <2>3, <2>4 DEF Lessens
<1>5. PICK f : Searches(S, 0 .. num, stop, nx, res, f)
  <2>1. \A x \in S : (IF Ends(x) THEN x.cand ELSE IF Hits(x) THEN mid(x) + 1 ELSE 0) \in 0 .. num
    <3> HIDE DEF S, mid, Hits, Ends
    <3> QED
      BY <1>1, <1>2
  <2>2. res \in [S -> 0 .. num]
    <3> HIDE DEF S, mid, Hits, Ends
    <3> QED
      BY <2>1
  <2> HIDE DEF S, stop, size, nx, res
  <2> QED
    BY <1>4, <2>2, TailRecursion
<1>6. f \in [S -> 0 .. num] /\ \A x \in S : f[x] = IF x \in stop THEN res[x] ELSE f[nx[x]]
  <2> HIDE DEF S, stop, size, nx, res
  <2> QED
    BY <1>5 DEF Searches
<1>7. ASSUME NEW x \in S
      PROVE  f[x] = Body(f, x)
  <2>1. Body(f, x) = IF Ends(x) THEN x.cand ELSE IF Hits(x) THEN mid(x) + 1 ELSE f[To(x)]
    <3> HIDE DEF S
    <3> QED
      OBVIOUS
  <2>2. CASE x \in stop
    <3>1. f[x] = res[x]
      <4> HIDE DEF S, stop, nx, res
      <4> QED
        BY <1>6, <2>2
    <3>2. res[x] = IF Ends(x) THEN x.cand ELSE IF Hits(x) THEN mid(x) + 1 ELSE 0
      <4> HIDE DEF S, Ends, Hits, mid
      <4> QED
        OBVIOUS
    <3>3. Ends(x) \/ Hits(x)
      <4> HIDE DEF S, Ends, Hits
      <4> QED
        BY <2>2
    <3> HIDE DEF S, stop, nx, res, Ends, Hits, mid, Body, To
    <3> QED
      BY <2>1, <3>1, <3>2, <3>3
  <2>3. CASE x \notin stop
    <3>1. f[x] = f[To(x)]
      <4>1. f[x] = f[nx[x]]
        <5> HIDE DEF S, stop, nx, res
        <5> QED
          BY <1>6, <2>3
      <4>2. nx[x] = To(x)
        <5> HIDE DEF S, stop, nx, To, size
        <5> QED
          BY <1>3, <2>3
      <4> HIDE DEF nx, To
      <4> QED
        BY <4>1, <4>2
    <3>2. ~(Ends(x) \/ Hits(x))
      <4> HIDE DEF S, Ends, Hits
      <4> QED
        BY <2>3
    <3> HIDE DEF S, stop, nx, res, Ends, Hits, mid, Body, To
    <3> QED
      BY <2>1, <3>1, <3>2
  <2> QED
    BY <2>2, <2>3
<1>8. IsFit(f)
  <2>1. f = [x \in S |-> f[x]]
    <3> HIDE DEF S
    <3> QED
      BY <1>6
  <2>2. f = [x \in S |-> Body(f, x)]
    <3> HIDE DEF S, Body
    <3> QED
      BY <1>7, <2>1
  <2> QED
    BY <2>2
<1>9. IsFit(fit)
  <2> HIDE DEF IsFit
  <2> QED
    BY <1>8, Zenon
<1>10. ASSUME NEW x \in S
       PROVE  fit[x] = IF Ends(x) THEN x.cand ELSE IF Hits(x) THEN mid(x) + 1 ELSE fit[To(x)]
  <2>1. PICK h : h = fit
    OBVIOUS
  <2>2. h = [y \in S |-> Body(h, y)]
    <3> HIDE DEF fit
    <3> QED
      BY <1>9, <2>1
  <2>3. h[x] = Body(h, x)
    <3> HIDE DEF S, Body, fit
    <3> QED
      BY <2>2
  <2>4. Body(h, x) = IF Ends(x) THEN x.cand ELSE IF Hits(x) THEN mid(x) + 1 ELSE h[To(x)]
    <3> HIDE DEF S
    <3> QED
      OBVIOUS
  <2> HIDE DEF S, Body, fit, Ends, Hits, mid, To
  <2> QED
    BY <2>1, <2>3, <2>4
<1> DEFINE Good(c) == c = 0 \/ pool[c].rsiz >= n
<1> DEFINE P == {x \in S : Good(x.cand) => fit[x] \in 0 .. num /\ Good(fit[x])}
<1>11. ASSUME NEW x \in S, x \in stop
       PROVE  x \in P
  <2>1. Ends(x) \/ Hits(x)
    <3> HIDE DEF S, Ends, Hits
    <3> QED
      BY <1>11
  <2>2. CASE Ends(x)
    <3>1. fit[x] = x.cand
      <4> HIDE DEF S, fit, Ends, Hits, mid, To
      <4> QED
        BY <1>10, <2>2
    <3>2. x.cand \in 0 .. num
      BY <1>2
    <3> HIDE DEF S, fit, Good
    <3> QED
      BY <3>1, <3>2
  <2>3. CASE ~Ends(x)
    <3>1. fit[x] = mid(x) + 1 /\ Hits(x)
      <4> HIDE DEF S, fit, Ends, Hits, mid, To
      <4> QED
        BY <1>10, <2>1, <2>3
    <3>2. mid(x) + 1 \in 0 .. num
      <4> HIDE DEF S, Ends, mid
      <4> QED
        BY <1>1, <1>2, <2>3
    <3>3. Good(mid(x) + 1)
      <4>1. PICK c : c = mid(x) + 1
        OBVIOUS
      <4>2. pool[c].rsiz = n
        <5> HIDE DEF mid
        <5> QED
          BY <3>1, <4>1
      <4>3. Good(c)
        BY <4>2
      <4> HIDE DEF mid, Good
      <4> QED
        BY <4>1, <4>3
    <3> HIDE DEF S, fit, Good, mid
    <3> QED
      BY <3>1, <3>2, <3>3
  <2> QED
    BY <2>2, <2>3
<1>12. ASSUME NEW x \in S, x \notin stop, nx[x] \in P
       PROVE  x \in P
  <2>1. ~Ends(x) /\ ~Hits(x)
    <3> HIDE DEF S, Ends, Hits
    <3> QED
      BY <1>12
  <2>2. fit[x] = fit[To(x)]
    <3> HIDE DEF S, fit, Ends, Hits, mid, To
    <3> QED
      BY <1>10, <2>1
  <2>3. nx[x] = To(x) /\ To(x) \in S /\ (To(x).cand = x.cand \/ pool[To(x).cand].rsiz >= n)
    <3> HIDE DEF S, stop, nx, To, size
    <3> QED
      BY <1>3, <1>12
  <2>4. Good(x.cand) => Good(To(x).cand)
    <3> HIDE DEF To
    <3> QED
      BY <2>3
  <2> HIDE DEF S, fit, Good, To, nx
  <2> QED
    BY <1>12, <2>2, <2>3, <2>4
<1>13. \A x \in S : x \in P
  <2> HIDE DEF P, S, stop, nx, size
  <2> QED
    BY <1>4, <1>11, <1>12, LessensAll
<1>14. PICK x0 : x0 = [l |-> 0, r |-> num, cand |-> 0]
  OBVIOUS
<1>15. x0 \in S /\ x0.cand = 0
  BY <1>1, <1>14
<1>16. Fit(pool, n) = fit[x0]
  BY <1>14 DEF Fit
<1>17. fit[x0] \in 0 .. num /\ Good(fit[x0])
  <2> HIDE DEF S, fit
  <2> QED
    BY <1>13, <1>15
<1> HIDE DEF fit
<1> QED
  BY <1>16, <1>17

---------------------------------------------------------------------------
(* The blocks of the pool *)

\* Two blocks that share no byte.
Apart(b, c) == b.off + b.rsiz <= c.off \/ c.off + c.rsiz <= b.off

\* A block is a run of whole free segments outside of the hole.
FreeIn(seg, fsiz, a, e, b) ==
  /\ b \in Block /\ b.rsiz > 0
  /\ b.off \in Beyond(seg, a, e)
  /\ b.off + b.rsiz \in Beyond(seg, a, e) \cup {fsiz, a}
  /\ b.off + b.rsiz <= a \/ e <= b.off
  /\ \A o \in Beyond(seg, a, e) : b.off <= o /\ o < b.off + b.rsiz => seg[o].magic = "fb"

\* So is each block of a pool, and no two share a byte.
Pooled(seg, fsiz, a, e, pool) ==
  /\ pool \in Seq(Block)
  /\ \A i \in 1 .. Len(pool) : FreeIn(seg, fsiz, a, e, pool[i])
  /\ \A i, j \in 1 .. Len(pool) : i # j => Apart(pool[i], pool[j])

\* The numbers of a block.
LEMMA BlockIs ==
  ASSUME NEW b \in Block
  PROVE  /\ b.off \in Nat /\ b.rsiz \in Nat /\ b = [off |-> b.off, rsiz |-> b.rsiz]
         /\ \A n \in Nat : [b EXCEPT !.rsiz = n] = [off |-> b.off, rsiz |-> n]
BY DEF Block

\* A pool drawn from another.
LEMMA PoolDrawn ==
  ASSUME NEW seg, NEW fsiz, NEW a, NEW e, NEW pool, Pooled(seg, fsiz, a, e, pool),
         NEW new \in Seq(Block), Drawn(pool, new)
  PROVE  Pooled(seg, fsiz, a, e, new)
<1>1. pool \in Seq(Block)
  BY DEF Pooled
<1>2. /\ \A i \in 1 .. Len(new) : \E x \in 1 .. Len(pool) : new[i] = pool[x]
      /\ \A i, j \in 1 .. Len(new) : i # j =>
           \E x, y \in 1 .. Len(pool) : x # y /\ new[i] = pool[x] /\ new[j] = pool[y]
  BY <1>1, DrawnKeeps
<1> QED
  BY <1>2 DEF Pooled

\* A block enters a pool.
LEMMA PoolEntered ==
  ASSUME NEW seg, NEW fsiz, NEW a, NEW e, NEW pool, Pooled(seg, fsiz, a, e, pool),
         NEW b, FreeIn(seg, fsiz, a, e, b), \A i \in 1 .. Len(pool) : Apart(pool[i], b),
         NEW at \in 1 .. Len(pool) + 1
  PROVE  /\ Pooled(seg, fsiz, a, e, InsertAt(pool, at, b))
         /\ Len(InsertAt(pool, at, b)) = Len(pool) + 1
<1>1. pool \in Seq(Block) /\ b \in Block
  BY DEF Pooled, FreeIn
<1>2. PICK new : new = InsertAt(pool, at, b)
  OBVIOUS
<1>3. /\ new \in Seq(Block) /\ Len(new) = Len(pool) + 1 /\ new[at] = b
      /\ \A i \in 1 .. Len(pool) + 1 : i # at =>
           /\ (IF i < at THEN i ELSE i - 1) \in 1 .. Len(pool)
           /\ new[i] = pool[IF i < at THEN i ELSE i - 1]
  BY <1>1, <1>2, InsertIs, SMTT(30)
<1>4. ASSUME NEW i \in 1 .. Len(new)
      PROVE  FreeIn(seg, fsiz, a, e, new[i])
  <2>1. CASE i = at
    BY <1>3, <2>1
  <2>2. CASE i # at
    <3>1. \E x \in 1 .. Len(pool) : new[i] = pool[x]
      BY <1>3, <2>2
    <3> QED
      BY <3>1 DEF Pooled
  <2> QED
    BY <2>1, <2>2
<1>5. ASSUME NEW i \in 1 .. Len(new), NEW j \in 1 .. Len(new), i # j
      PROVE  Apart(new[i], new[j])
  <2>1. CASE i = at
    <3>1. PICK x \in 1 .. Len(pool) : new[j] = pool[x]
      BY <1>3, <1>5, <2>1
    <3>2. Apart(pool[x], b)
      OBVIOUS
    <3> QED
      BY <1>3, <2>1, <3>1, <3>2 DEF Apart
  <2>2. CASE j = at
    <3>1. PICK x \in 1 .. Len(pool) : new[i] = pool[x]
      BY <1>3, <1>5, <2>2
    <3>2. Apart(pool[x], b)
      OBVIOUS
    <3> QED
      BY <1>3, <2>2, <3>1, <3>2 DEF Apart
  <2>3. CASE i # at /\ j # at
    <3>1. PICK x, y : x = (IF i < at THEN i ELSE i - 1) /\ y = (IF j < at THEN j ELSE j - 1)
      OBVIOUS
    <3>2. x \in 1 .. Len(pool) /\ y \in 1 .. Len(pool) /\ new[i] = pool[x] /\ new[j] = pool[y]
      BY <1>3, <2>3, <3>1
    <3>3. i \in Int /\ j \in Int /\ at \in Int
      BY <1>1, <1>3
    <3>4. x # y
      BY <1>5, <2>3, <3>1, <3>3
    <3> QED
      BY <3>2, <3>4 DEF Pooled
  <2> QED
    BY <2>1, <2>2, <2>3
<1> QED
  BY <1>2, <1>3, <1>4, <1>5 DEF Pooled

---------------------------------------------------------------------------
(* Merging the pool *)

\* b is the j-th block of s, or that and the next one, which follows it.
Unites(s, j, b) ==
  \/ b = s[j]
  \/ /\ j < Len(s) /\ s[j].off + s[j].rsiz = s[j + 1].off
     /\ b = [off |-> s[j].off, rsiz |-> s[j].rsiz + s[j + 1].rsiz]

\* t is what the blocks of s from the i-th on are united to.
United(s, i, t) ==
  /\ t \in Seq(Block)
  /\ Len(t) <= IF i > Len(s) THEN 0 ELSE Len(s) + 1 - i
  /\ \A x \in 1 .. Len(t) : \E j \in i .. Len(s) : Unites(s, j, t[x])
  /\ \A x, y \in 1 .. Len(t) : x # y => Apart(t[x], t[y])

\* What is apart from two blocks of which one follows the other is apart from
\* both together.
LEMMA ApartBoth ==
  ASSUME NEW b \in Block, NEW c \in Block, NEW d \in Block, NEW u,
         b.rsiz > 0, c.rsiz > 0, d.rsiz > 0,
         c.off + c.rsiz = d.off, u = [off |-> c.off, rsiz |-> c.rsiz + d.rsiz],
         Apart(b, c), Apart(b, d)
  PROVE  Apart(b, u) /\ Apart(u, b) /\ u \in Block /\ u.rsiz > 0
<1>1. /\ b.off \in Nat /\ b.rsiz \in Nat /\ c.off \in Nat /\ c.rsiz \in Nat
      /\ d.off \in Nat /\ d.rsiz \in Nat
  BY BlockIs
<1>2. u.off = c.off /\ u.rsiz = c.rsiz + d.rsiz
  OBVIOUS
<1>3. u \in Block
  BY <1>1 DEF Block
<1> QED
  BY <1>1, <1>2, <1>3 DEF Apart

\* What is apart from all blocks from the i-th on is apart from what they are
\* united to.
LEMMA ApartUnited ==
  ASSUME NEW s \in Seq(Block), \A j \in 1 .. Len(s) : s[j].rsiz > 0,
         NEW b \in Block, b.rsiz > 0, NEW i \in Nat \ {0},
         \A j \in i .. Len(s) : Apart(b, s[j]),
         NEW j \in i .. Len(s), NEW u, Unites(s, j, u)
  PROVE  Apart(b, u) /\ Apart(u, b) /\ u \in Block /\ u.rsiz > 0
<1>1. Len(s) \in Nat /\ j \in 1 .. Len(s)
  OBVIOUS
<1>2. s[j] \in Block /\ s[j].rsiz > 0
  BY <1>1
<1>3. CASE u = s[j]
  BY <1>2, <1>3 DEF Apart
<1>4. CASE u # s[j]
  <2>1. /\ j < Len(s) /\ s[j].off + s[j].rsiz = s[j + 1].off
        /\ u = [off |-> s[j].off, rsiz |-> s[j].rsiz + s[j + 1].rsiz]
    BY <1>4 DEF Unites
  <2>2. j + 1 \in i .. Len(s) /\ j + 1 \in 1 .. Len(s)
    BY <1>1, <2>1
  <2>3. s[j + 1] \in Block /\ s[j + 1].rsiz > 0 /\ Apart(b, s[j]) /\ Apart(b, s[j + 1])
    BY <2>2
  <2> QED
    BY <1>2, <2>1, <2>3, ApartBoth
<1> QED
  BY <1>3, <1>4

\* A block before what those behind it are united to.
LEMMA UnitedOnward ==
  ASSUME NEW s \in Seq(Block), \A j \in 1 .. Len(s) : s[j].rsiz > 0,
         \A j, k \in 1 .. Len(s) : j # k => Apart(s[j], s[k]),
         NEW i \in 1 .. Len(s), NEW k \in {i + 1, i + 2}, NEW t, United(s, k, t),
         NEW u, Unites(s, i, u), k = i + 1 => u = s[i],
         NEW new, new = <<u>> \o t
  PROVE  United(s, i, new)
<1>1. Len(s) \in Nat /\ k \in Nat \ {0} /\ i \in Nat
  OBVIOUS
<1>2. t \in Seq(Block) /\ Len(t) \in Nat /\ Len(t) <= IF k > Len(s) THEN 0 ELSE Len(s) + 1 - k
  BY DEF United
<1>3. s[i] \in Block /\ s[i].rsiz > 0
  OBVIOUS
<1>4. ASSUME NEW x \in 1 .. Len(t)
      PROVE  Apart(u, t[x]) /\ Apart(t[x], u)
  <2>1. PICK j \in k .. Len(s) : Unites(s, j, t[x])
    BY DEF United
  <2>4. Apart(s[i], t[x]) /\ Apart(t[x], s[i])
    <3>1. \A l \in k .. Len(s) : Apart(s[i], s[l])
      BY <1>1
    <3>2. PICK v : v = t[x]
      OBVIOUS
    <3>3. Unites(s, j, v)
      BY <2>1, <3>2
    <3>4. Apart(s[i], v) /\ Apart(v, s[i])
      BY <1>1, <1>3, <3>1, <3>3, ApartUnited
    <3> QED
      BY <3>2, <3>4
  <2>2. CASE u = s[i]
    BY <2>2, <2>4
  <2>3. CASE u # s[i]
    <3>1. /\ i < Len(s) /\ s[i].off + s[i].rsiz = s[i + 1].off /\ k = i + 2
          /\ u = [off |-> s[i].off, rsiz |-> s[i].rsiz + s[i + 1].rsiz]
      BY <2>3 DEF Unites
    <3>2. s[i + 1] \in Block /\ s[i + 1].rsiz > 0
      BY <1>1, <3>1
    <3>3. \A l \in k .. Len(s) : Apart(s[i], s[l]) /\ Apart(s[i + 1], s[l])
      BY <1>1, <3>1
    <3>4. t[x] \in Block /\ t[x].rsiz > 0 /\ Apart(s[i], t[x]) /\ Apart(s[i + 1], t[x])
      <4>1. \A l \in k .. Len(s) : Apart(s[i], s[l])
        BY <3>3
      <4>2. \A l \in k .. Len(s) : Apart(s[i + 1], s[l])
        BY <3>3
      <4>3. t[x] \in Block /\ t[x].rsiz > 0 /\ Apart(s[i], t[x])
        BY <1>1, <1>3, <2>1, <4>1, ApartUnited
      <4>4. Apart(s[i + 1], t[x])
        BY <1>1, <3>2, <2>1, <4>2, ApartUnited
      <4> QED
        BY <4>3, <4>4
    <3>5. Apart(t[x], s[i]) /\ Apart(t[x], s[i + 1])
      BY <3>4 DEF Apart
    <3>6. PICK b, c, d : b = t[x] /\ c = s[i] /\ d = s[i + 1]
      OBVIOUS
    <3>7. /\ b \in Block /\ c \in Block /\ d \in Block /\ b.rsiz > 0 /\ c.rsiz > 0 /\ d.rsiz > 0
          /\ c.off + c.rsiz = d.off /\ u = [off |-> c.off, rsiz |-> c.rsiz + d.rsiz]
          /\ Apart(b, c) /\ Apart(b, d)
      BY <1>3, <3>1, <3>2, <3>4, <3>5, <3>6
    <3>8. Apart(b, u) /\ Apart(u, b)
      BY <3>7, ApartBoth
    <3> QED
      BY <3>6, <3>8
  <2> QED
    BY <2>2, <2>3
<1>5. u \in Block
  <2>1. CASE u = s[i]
    BY <1>3, <2>1
  <2>2. CASE u # s[i]
    <3>1. i + 1 \in 1 .. Len(s) /\ u = [off |-> s[i].off, rsiz |-> s[i].rsiz + s[i + 1].rsiz]
      BY <1>1, <2>2 DEF Unites
    <3>2. s[i + 1] \in Block
      BY <3>1
    <3> QED
      BY <1>3, <3>1, <3>2 DEF Block
  <2> QED
    BY <2>1, <2>2
<1>6. /\ new \in Seq(Block) /\ Len(new) = Len(t) + 1 /\ new[1] = u
      /\ \A x \in 2 .. Len(new) : new[x] = t[x - 1] /\ x - 1 \in 1 .. Len(t)
  BY <1>2, <1>5, Consed
<1>7. ASSUME NEW x \in 1 .. Len(new)
      PROVE  \E j \in i .. Len(s) : Unites(s, j, new[x])
  <2>1. CASE x = 1
    <3>1. i \in i .. Len(s)
      BY <1>1
    <3> QED
      BY <1>6, <2>1, <3>1
  <2>2. CASE x # 1
    <3>1. x \in 2 .. Len(new)
      BY <1>6, <2>2
    <3>2. PICK j \in k .. Len(s) : Unites(s, j, t[x - 1])
      BY <1>6, <3>1 DEF United
    <3>3. j \in i .. Len(s)
      BY <1>1
    <3> QED
      BY <1>6, <3>1, <3>2, <3>3
  <2> QED
    BY <2>1, <2>2
<1>8. ASSUME NEW x \in 1 .. Len(new), NEW y \in 1 .. Len(new), x # y
      PROVE  Apart(new[x], new[y])
  <2>1. \A z \in 1 .. Len(new) : z = 1 \/ z \in 2 .. Len(new)
    BY <1>2, <1>6
  <2>2. CASE x = 1
    BY <1>4, <1>6, <1>8, <2>1, <2>2
  <2>3. CASE y = 1
    BY <1>4, <1>6, <1>8, <2>1, <2>3
  <2>4. CASE x # 1 /\ y # 1
    <3>1. new[x] = t[x - 1] /\ new[y] = t[y - 1] /\ x - 1 \in 1 .. Len(t) /\ y - 1 \in 1 .. Len(t)
      BY <1>6, <2>1, <2>4
    <3>2. x - 1 # y - 1
      BY <1>6, <1>8
    <3> QED
      BY <3>1, <3>2 DEF United
  <2> QED
    BY <2>2, <2>3, <2>4
<1>9. Len(new) <= IF i > Len(s) THEN 0 ELSE Len(s) + 1 - i
  BY <1>1, <1>2, <1>6
<1> QED
  BY <1>6, <1>7, <1>8, <1>9 DEF United

\* A pool that is merged.
LEMMA JoinPairsUnited ==
  ASSUME NEW s \in Seq(Block), \A j \in 1 .. Len(s) : s[j].rsiz > 0,
         \A j, k \in 1 .. Len(s) : j # k => Apart(s[j], s[k])
  PROVE  United(s, 1, JoinPairs(s))
<1> DEFINE joins(i) == i < Len(s) /\ s[i].off + s[i].rsiz = s[i + 1].off
<1> DEFINE both(i) == [s[i] EXCEPT !.rsiz = @ + s[i + 1].rsiz]
<1> DEFINE S == 1 .. Len(s) + 1
<1> DEFINE IsJoin(join) == join = [i \in 1 .. Len(s) + 1 |->
        IF i > Len(s) THEN <<>>
        ELSE IF joins(i)
             THEN <<[s[i] EXCEPT !.rsiz = @ + s[i + 1].rsiz]>> \o join[i + 2]
             ELSE <<s[i]>> \o join[i + 1]]
<1> DEFINE join == CHOOSE h : IsJoin(h)
<1> DEFINE stop == {i \in S : i > Len(s)}
<1> DEFINE nx == [i \in S |-> IF i > Len(s) THEN i ELSE IF joins(i) THEN i + 2 ELSE i + 1]
<1> DEFINE first(i) == IF joins(i) THEN both(i) ELSE s[i]
<1> DEFINE g == [p \in S \X Seq(Block) |-> IF p[1] \in 1 .. Len(s) THEN <<first(p[1])>> \o p[2] ELSE <<>>]
<1> DEFINE res == [i \in S |-> <<>>]
<1> DEFINE size == [i \in S |-> Len(s) + 1 - i]
<1>1. Len(s) \in Nat /\ \A i \in 1 .. Len(s) : s[i] \in Block
  OBVIOUS
<1>2. ASSUME NEW i \in 1 .. Len(s)
      PROVE  /\ Unites(s, i, first(i)) /\ (~joins(i) => first(i) = s[i]) /\ first(i) \in Block
  <2>1. CASE joins(i)
    <3>1. i + 1 \in 1 .. Len(s)
      BY <1>1, <2>1
    <3>2. s[i] \in Block /\ s[i + 1] \in Block
      BY <1>1, <3>1
    <3>3. s[i].rsiz + s[i + 1].rsiz \in Nat
      BY <3>2, BlockIs
    <3>4. both(i) = [off |-> s[i].off, rsiz |-> s[i].rsiz + s[i + 1].rsiz]
      BY <3>2, <3>3, BlockIs
    <3>5. both(i) \in Block
      BY <3>2, <3>3, <3>4 DEF Block
    <3> QED
      BY <2>1, <3>4, <3>5 DEF Unites
  <2>2. CASE ~joins(i)
    <3> HIDE DEF joins
    <3> QED
      BY <1>1, <2>2 DEF Unites
  <2> QED
    BY <2>1, <2>2
<1>3. Lessens(S, stop, nx, size, Len(s) + 1)
  <2>1. nx \in [S -> S]
    BY <1>1
  <2>2. size \in [S -> Nat] /\ \A i \in S : size[i] < Len(s) + 1
    BY <1>1
  <2>3. \A i \in S : i \notin stop => size[nx[i]] < size[i]
    <3>1. ASSUME NEW i \in S, i \notin stop
          PROVE  size[nx[i]] < size[i]
      <4>1. nx[i] \in S /\ (nx[i] = i + 1 \/ nx[i] = i + 2)
        <5> HIDE DEF joins
        <5>1. nx[i] = i + 1 \/ nx[i] = i + 2
          BY <3>1
        <5> HIDE DEF nx
        <5> QED
          BY <2>1, <5>1
      <4> HIDE DEF nx
      <4> QED
        BY <1>1, <4>1
    <3> QED
      BY <3>1
  <2> HIDE DEF S, stop, nx, size
  <2> QED
    BY <1>1, <2>1, <2>2, <2>3 DEF Lessens
<1>4. PICK f : Recurs(S, Seq(Block), stop, nx, res, g, f)
  <2>1. res \in [S -> Seq(Block)]
    OBVIOUS
  <2>2. g \in [S \X Seq(Block) -> Seq(Block)]
    <3>1. ASSUME NEW p \in S \X Seq(Block)
          PROVE  (IF p[1] \in 1 .. Len(s) THEN <<first(p[1])>> \o p[2] ELSE <<>>) \in Seq(Block)
      <4>1. p[2] \in Seq(Block)
        OBVIOUS
      <4>2. p[1] \in 1 .. Len(s) => first(p[1]) \in Block
        <5> HIDE DEF first
        <5> QED
          BY <1>2
      <4> HIDE DEF first
      <4> QED
        BY <4>1, <4>2
    <3> HIDE DEF first
    <3> QED
      BY <3>1
  <2> HIDE DEF S, stop, nx, size, g, res
  <2> QED
    BY <1>3, <2>1, <2>2, Recursion
<1>5. f \in [S -> Seq(Block)] /\ \A i \in S : f[i] = IF i \in stop THEN res[i] ELSE g[<<i, f[nx[i]]>>]
  <2> HIDE DEF S, stop, nx, size, g, res
  <2> QED
    BY <1>4 DEF Recurs
<1> DEFINE Body(h, i) == IF i > Len(s) THEN <<>>
        ELSE IF joins(i)
             THEN <<[s[i] EXCEPT !.rsiz = @ + s[i + 1].rsiz]>> \o h[i + 2]
             ELSE <<s[i]>> \o h[i + 1]
<1>6. ASSUME NEW i \in S
      PROVE  f[i] = Body(f, i)
  <2>1. CASE i \in stop
    <3>1. f[i] = <<>>
      <4> HIDE DEF stop, nx, g
      <4> QED
        BY <1>5, <2>1
    <3>2. i > Len(s)
      BY <2>1
    <3> HIDE DEF joins
    <3> QED
      BY <3>1, <3>2
  <2>2. CASE i \notin stop
    <3>1. i \in 1 .. Len(s) /\ ~(i > Len(s))
      BY <1>1, <2>2
    <3>2. nx[i] \in S
      <4> HIDE DEF S, stop, nx, size
      <4> QED
        BY <1>3 DEF Lessens
    <3>3. f[i] = g[<<i, f[nx[i]]>>] /\ f[nx[i]] \in Seq(Block)
      <4> HIDE DEF S, stop, nx, res, g
      <4> QED
        BY <1>5, <2>2, <3>2
    <3>4. g[<<i, f[nx[i]]>>] = <<first(i)>> \o f[nx[i]]
      <4> HIDE DEF first, nx
      <4> QED
        BY <3>1, <3>3
    <3>5. nx[i] = IF joins(i) THEN i + 2 ELSE i + 1
      <4> HIDE DEF joins
      <4> QED
        BY <3>1
    <3>6. f[i] = <<first(i)>> \o f[nx[i]]
      <4> HIDE DEF first, nx, g
      <4> QED
        BY <3>3, <3>4
    <3> HIDE DEF nx, joins
    <3> QED
      BY <3>1, <3>5, <3>6
  <2> QED
    BY <2>1, <2>2
<1>7. IsJoin(f)
  <2>1. f = [i \in S |-> f[i]]
    <3> HIDE DEF S
    <3> QED
      BY <1>5
  <2>2. f = [i \in S |-> Body(f, i)]
    <3> HIDE DEF S, Body
    <3> QED
      BY <1>6, <2>1
  <2> HIDE DEF joins
  <2> QED
    BY <2>2
<1>8. IsJoin(join)
  <2> HIDE DEF IsJoin
  <2> QED
    BY <1>7, Zenon
<1>9. ASSUME NEW i \in S
      PROVE  join[i] = Body(join, i)
  <2>1. PICK h : h = join
    OBVIOUS
  <2>2. h = [j \in S |-> Body(h, j)]
    <3> HIDE DEF join, joins
    <3> QED
      BY <1>8, <2>1
  <2>3. h[i] = Body(h, i)
    <3> HIDE DEF S, Body, join
    <3> QED
      BY <2>2
  <2> HIDE DEF Body, join
  <2> QED
    BY <2>1, <2>3
<1>10. JoinPairs(s) = join[1]
  BY DEF JoinPairs
<1> HIDE DEF join, IsJoin
<1> DEFINE P == {i \in S : United(s, i, join[i])}
<1>11. \A i \in S : i \in stop => i \in P
  <2>1. ASSUME NEW i \in S, i \in stop
        PROVE  i \in P
    <3>1. i > Len(s)
      BY <2>1
    <3>2. join[i] = <<>>
      <4> HIDE DEF joins
      <4> QED
        BY <1>9, <3>1
    <3>3. PICK t : t = <<>>
      OBVIOUS
    <3>4. t \in Seq(Block) /\ Len(t) = 0
      BY <3>3
    <3>5. \A x \in 1 .. Len(t) : FALSE
      BY <3>4
    <3>6. Len(t) <= IF i > Len(s) THEN 0 ELSE Len(s) + 1 - i
      BY <3>1, <3>4
    <3>7. United(s, i, t)
      BY <3>4, <3>5, <3>6 DEF United
    <3> HIDE DEF S
    <3> QED
      BY <3>2, <3>3, <3>7
  <2> HIDE DEF P, stop, S
  <2> QED
    BY <2>1
<1>12. ASSUME NEW i \in S, i \notin stop, nx[i] \in P
       PROVE  i \in P
  <2>1. i \in 1 .. Len(s) /\ ~(i > Len(s))
    BY <1>1, <1>12
  <2>2. nx[i] = IF joins(i) THEN i + 2 ELSE i + 1
    <3> HIDE DEF joins
    <3> QED
      BY <2>1
  <2>3. United(s, nx[i], join[nx[i]])
    <3> HIDE DEF S, nx
    <3> QED
      BY <1>12
  <2>4. join[i] = <<first(i)>> \o join[nx[i]]
    <3>1. join[i] = Body(join, i)
      BY <1>9
    <3> HIDE DEF joins, nx
    <3> QED
      BY <2>1, <2>2, <3>1
  <2>5. nx[i] \in {i + 1, i + 2} /\ (nx[i] = i + 1 => first(i) = s[i])
    <3>1. i + 1 # i + 2 /\ (~joins(i) => first(i) = s[i])
      BY <1>2, <2>1
    <3> HIDE DEF joins, nx, first
    <3> QED
      BY <2>2, <3>1
  <2>6. Unites(s, i, first(i))
    <3> HIDE DEF first
    <3> QED
      BY <1>2, <2>1
  <2>7. United(s, i, join[i])
    <3> HIDE DEF joins, nx, first, S
    <3> QED
      BY <2>1, <2>3, <2>4, <2>5, <2>6, UnitedOnward
  <2> QED
    BY <2>7
<1>13. \A i \in S : i \in P
  <2> HIDE DEF P, S, stop, nx, size
  <2> QED
    BY <1>3, <1>11, <1>12, LessensAll
<1>14. 1 \in S
  BY <1>1
<1> QED
  BY <1>10, <1>13, <1>14

---------------------------------------------------------------------------
(* Blocks and holes *)

\* A block that is apart from a hole is apart from what the hole shrinks to.
LEMMA FreeCut ==
  ASSUME NEW seg, NEW fsiz, NEW a, NEW e, NEW Vs, Laid(seg, fsiz, a, e, Vs),
         NEW m \in Nat, a <= m, m < e, Aligned(m),
         NEW s, IsSeg(s, Vs), s.rsiz = e - m,
         NEW new, new = Covered(seg, m, e - m, s),
         NEW b, FreeIn(seg, fsiz, a, e, b)
  PROVE  FreeIn(new, fsiz, a, m, b)
<1>1. /\ Beyond(new, a, m) = Beyond(seg, a, e) \cup {m}
      /\ \A o \in Beyond(seg, a, e) : new[o] = seg[o]
  BY HoleCut
<1>2. a \in Nat /\ e \in Nat
  BY DEF Laid
<1>3. b \in Block /\ b.off \in Nat /\ b.rsiz \in Nat
  BY BlockIs DEF FreeIn
<1>4. b.off + b.rsiz <= a \/ m <= b.off
  BY <1>2, <1>3 DEF FreeIn
<1>5. ASSUME NEW o \in Beyond(new, a, m), b.off <= o, o < b.off + b.rsiz
      PROVE  new[o].magic = "fb"
  <2>1. o # m
    BY <1>2, <1>3, <1>5 DEF FreeIn
  <2>2. o \in Beyond(seg, a, e)
    BY <1>1, <2>1
  <2> QED
    BY <1>1, <1>5, <2>2 DEF FreeIn
<1> QED
  BY <1>1, <1>3, <1>4, <1>5 DEF FreeIn

\* So is one that the hole does not grow over.
LEMMA FreeGrown ==
  ASSUME NEW seg, NEW fsiz, NEW a, NEW e, NEW Vs, Laid(seg, fsiz, a, e, Vs),
         NEW x \in Beyond(seg, a, e) \cup {fsiz}, e <= x,
         NEW b, FreeIn(seg, fsiz, a, e, b), b.off < a \/ b.off >= x
  PROVE  FreeIn(seg, fsiz, a, x, b)
<1>1. Beyond(seg, a, x) = {o \in Beyond(seg, a, e) : o < a \/ o >= x}
  BY HoleGrown
<1>2. a \in Nat /\ e \in Nat /\ fsiz \in Nat /\ x \in Nat /\ a <= e
  BY DEF Laid, Beyond
<1>3. b \in Block /\ b.off \in Nat /\ b.rsiz \in Nat /\ b.rsiz > 0
  BY BlockIs DEF FreeIn
<1>4. b.off \in Beyond(seg, a, x)
  BY <1>1 DEF FreeIn
<1>5. b.off + b.rsiz <= a \/ x <= b.off
  BY <1>2, <1>3 DEF FreeIn
<1>6. b.off + b.rsiz \in Beyond(seg, a, x) \cup {fsiz, a}
  <2>1. b.off + b.rsiz \in Beyond(seg, a, e) \cup {fsiz, a}
    BY DEF FreeIn
  <2>2. b.off + b.rsiz < a \/ b.off + b.rsiz = a \/ b.off + b.rsiz >= x
    BY <1>2, <1>3, <1>5
  <2> QED
    BY <1>1, <2>1, <2>2
<1>7. \A o \in Beyond(seg, a, x) : b.off <= o /\ o < b.off + b.rsiz => seg[o].magic = "fb"
  BY <1>1 DEF FreeIn
<1> QED
  BY <1>3, <1>4, <1>5, <1>6, <1>7 DEF FreeIn

\* A block of a file that grows.
LEMMA FreeAppended ==
  ASSUME NEW seg, NEW fsiz, NEW Vs, Laid(seg, fsiz, fsiz, fsiz, Vs),
         NEW s, IsSeg(s, Vs),
         NEW new, NEW n, Appended(seg, fsiz, s, new, n), Aligned(n),
         NEW b, FreeIn(seg, fsiz, fsiz, fsiz, b)
  PROVE  FreeIn(new, n, n, n, b)
<1>1. /\ Laid(new, n, n, n, Vs) /\ fsiz \notin DOMAIN seg /\ DOMAIN new = DOMAIN seg \cup {fsiz}
      /\ new[fsiz] = s /\ \A o \in DOMAIN seg : new[o] = seg[o]
  <2>1. HasGrown(seg, fsiz, s, new, n, Vs)
    BY FileGrown
  <2> QED
    BY <2>1 DEF HasGrown
<1>2. Beyond(seg, fsiz, fsiz) = DOMAIN seg /\ Beyond(new, n, n) = DOMAIN new
  BY <1>1, NoHole
<1>3. fsiz \in Nat /\ n \in Nat /\ s.rsiz \in Nat /\ n = fsiz + s.rsiz
  BY SegIs DEF Laid, Appended
<1>4. b \in Block /\ b.off \in Nat /\ b.rsiz \in Nat /\ b.rsiz > 0
  BY BlockIs DEF FreeIn
<1>5. b.off \in DOMAIN seg /\ b.off + b.rsiz \in DOMAIN seg \cup {fsiz}
  BY <1>2 DEF FreeIn
<1>6. b.off < fsiz /\ b.off + b.rsiz <= fsiz
  BY <1>3, <1>4, <1>5 DEF Laid
<1>7. ASSUME NEW o \in DOMAIN new, b.off <= o, o < b.off + b.rsiz
      PROVE  new[o].magic = "fb"
  <2>1. o # fsiz
    BY <1>3, <1>4, <1>6, <1>7
  <2>2. o \in DOMAIN seg /\ o \in Beyond(seg, fsiz, fsiz)
    BY <1>1, <1>2, <2>1
  <2> QED
    BY <1>1, <1>7, <2>2 DEF FreeIn
<1>8. b.off + b.rsiz <= n
  BY <1>3, <1>4, <1>6
<1> QED
  BY <1>1, <1>2, <1>4, <1>5, <1>7, <1>8 DEF FreeIn

\* Where there is no hole.
LEMMA FreeWhole ==
  ASSUME NEW seg, NEW fsiz, NEW Vs, NEW a, Laid(seg, fsiz, a, a, Vs),
         NEW b, FreeIn(seg, fsiz, a, a, b)
  PROVE  FreeIn(seg, fsiz, fsiz, fsiz, b)
<1>1. Laid(seg, fsiz, fsiz, fsiz, Vs) /\ Beyond(seg, a, a) = DOMAIN seg
  BY NoHole
<1>2. Beyond(seg, fsiz, fsiz) = DOMAIN seg
  BY <1>1, NoHole
<1>3. fsiz \in Nat /\ a \in DOMAIN seg \cup {fsiz}
  BY <1>1 DEF Laid
<1>4. b \in Block /\ b.off \in Nat /\ b.rsiz \in Nat
  BY BlockIs DEF FreeIn
<1>5. b.off + b.rsiz \in DOMAIN seg \cup {fsiz}
  BY <1>1, <1>3 DEF FreeIn
<1>6. b.off + b.rsiz <= fsiz
  BY <1>1, <1>3, <1>4, <1>5 DEF Laid
<1> QED
  BY <1>1, <1>2, <1>5, <1>6 DEF FreeIn

\* A hole where a segment is that the block does not touch.
LEMMA FreeBeside ==
  ASSUME NEW seg, NEW fsiz, NEW Vs, Whole(seg, fsiz, Vs),
         NEW b, FreeIn(seg, fsiz, fsiz, fsiz, b),
         NEW o \in DOMAIN seg, NEW x \in DOMAIN seg \cup {fsiz}, o < x,
         b.off + b.rsiz <= o \/ x <= b.off
  PROVE  FreeIn(seg, fsiz, o, x, b)
<1>1. Laid(seg, fsiz, fsiz, fsiz, Vs)
  BY DEF Whole
<1>2. Laid(seg, fsiz, o, o, Vs) /\ Beyond(seg, o, o) = DOMAIN seg
  BY <1>1, NoHole
<1>3. Beyond(seg, fsiz, fsiz) = DOMAIN seg
  BY <1>1, NoHole
<1>4. b \in Block /\ b.off \in Nat /\ b.rsiz \in Nat /\ b.rsiz > 0
  BY BlockIs DEF FreeIn
<1>5. o \in Nat /\ x \in Nat
  BY <1>1 DEF Laid
<1>6. FreeIn(seg, fsiz, o, o, b)
  <2>1. b.off + b.rsiz <= o \/ o <= b.off
    BY <1>4, <1>5
  <2> QED
    BY <1>2, <1>3, <2>1 DEF FreeIn
<1>7. b.off < o \/ b.off >= x
  BY <1>4, <1>5
<1> QED
  BY <1>2, <1>5, <1>6, <1>7, FreeGrown

\* A segment, or a run of them, as a hole.
LEMMA HoleMade ==
  ASSUME NEW seg, NEW fsiz, NEW Vs, Whole(seg, fsiz, Vs),
         NEW o \in DOMAIN seg, NEW x \in DOMAIN seg \cup {fsiz}, o < x
  PROVE  Laid(seg, fsiz, o, x, Vs) /\ Beyond(seg, o, x) = {p \in DOMAIN seg : p < o \/ p >= x}
<1>1. Laid(seg, fsiz, fsiz, fsiz, Vs)
  BY DEF Whole
<1>2. Laid(seg, fsiz, o, o, Vs) /\ Beyond(seg, o, o) = DOMAIN seg
  BY <1>1, NoHole
<1>3. o \in Nat /\ x \in Nat
  BY <1>1 DEF Laid
<1> QED
  BY <1>2, <1>3, HoleGrown

---------------------------------------------------------------------------
(* The pool of a file with a hole *)

\* What is said of the blocks of a pool.
LEMMA PooledIs ==
  ASSUME NEW seg, NEW fsiz, NEW a, NEW e, NEW pool, Pooled(seg, fsiz, a, e, pool)
  PROVE  /\ pool \in Seq(Block)
         /\ \A i \in 1 .. Len(pool) :
              FreeIn(seg, fsiz, a, e, pool[i]) /\ pool[i] \in Block /\ pool[i].rsiz > 0
         /\ \A i, j \in 1 .. Len(pool) : i # j => Apart(pool[i], pool[j])
BY DEF Pooled, FreeIn

\* Merged blocks are free.
LEMMA FreeUnited ==
  ASSUME NEW seg, NEW fsiz, NEW a, NEW e, NEW Vs, Laid(seg, fsiz, a, e, Vs),
         a \notin Beyond(seg, a, e),
         NEW b, FreeIn(seg, fsiz, a, e, b), NEW c, FreeIn(seg, fsiz, a, e, c),
         b.off + b.rsiz = c.off, NEW u, u = [off |-> b.off, rsiz |-> b.rsiz + c.rsiz]
  PROVE  FreeIn(seg, fsiz, a, e, u)
<1>1. /\ b \in Block /\ b.off \in Nat /\ b.rsiz \in Nat /\ b.rsiz > 0
      /\ c \in Block /\ c.off \in Nat /\ c.rsiz \in Nat /\ c.rsiz > 0
  BY BlockIs DEF FreeIn
<1>2. u.off = b.off /\ u.rsiz = b.rsiz + c.rsiz /\ u \in Block /\ u.off + u.rsiz = c.off + c.rsiz
      /\ u.rsiz > 0
  BY <1>1 DEF Block
<1>3. a \in Nat /\ e \in Nat /\ a <= e
  BY DEF Laid
<1>4. c.off # a
  BY DEF FreeIn
<1>5. c.off + c.rsiz <= a \/ e <= b.off
  BY <1>1, <1>3, <1>4 DEF FreeIn
<1>6. ASSUME NEW o \in Beyond(seg, a, e), b.off <= o, o < c.off + c.rsiz
      PROVE  seg[o].magic = "fb"
  <2>1. o \in Nat
    BY DEF Laid, Beyond
  <2>2. o < b.off + b.rsiz \/ c.off <= o
    BY <1>1, <2>1
  <2> QED
    BY <1>6, <2>2 DEF FreeIn
<1> QED
  BY <1>2, <1>5, <1>6 DEF FreeIn

\* Merging keeps a pool sound.
LEMMA PoolMerged ==
  ASSUME NEW seg, NEW fsiz, NEW a, NEW e, NEW Vs, Laid(seg, fsiz, a, e, Vs),
         a \notin Beyond(seg, a, e), NEW s, Pooled(seg, fsiz, a, e, s)
  PROVE  Pooled(seg, fsiz, a, e, JoinPairs(s)) /\ Len(JoinPairs(s)) <= Len(s)
<1>1. /\ s \in Seq(Block)
      /\ \A i \in 1 .. Len(s) : FreeIn(seg, fsiz, a, e, s[i]) /\ s[i] \in Block /\ s[i].rsiz > 0
      /\ \A i, j \in 1 .. Len(s) : i # j => Apart(s[i], s[j])
  BY PooledIs
<1>2. PICK t : t = JoinPairs(s)
  OBVIOUS
<1>3. United(s, 1, t)
  BY <1>1, <1>2, JoinPairsUnited
<1>4. Len(t) <= Len(s)
  BY <1>1, <1>3 DEF United
<1>5. ASSUME NEW x \in 1 .. Len(t)
      PROVE  FreeIn(seg, fsiz, a, e, t[x])
  <2>1. PICK j \in 1 .. Len(s) : Unites(s, j, t[x])
    BY <1>3 DEF United
  <2>2. CASE t[x] = s[j]
    BY <1>1, <2>2
  <2>3. CASE t[x] # s[j]
    <3>1. /\ j < Len(s) /\ s[j].off + s[j].rsiz = s[j + 1].off
          /\ t[x] = [off |-> s[j].off, rsiz |-> s[j].rsiz + s[j + 1].rsiz]
      BY <2>1, <2>3 DEF Unites
    <3>2. j + 1 \in 1 .. Len(s)
      BY <1>1, <3>1
    <3>3. PICK b, c, u : b = s[j] /\ c = s[j + 1] /\ u = t[x]
      OBVIOUS
    <3>4. /\ FreeIn(seg, fsiz, a, e, b) /\ FreeIn(seg, fsiz, a, e, c) /\ b.off + b.rsiz = c.off
          /\ u = [off |-> b.off, rsiz |-> b.rsiz + c.rsiz]
      BY <1>1, <3>1, <3>2, <3>3
    <3>5. FreeIn(seg, fsiz, a, e, u)
      BY <3>4, FreeUnited
    <3> QED
      BY <3>3, <3>5
  <2> QED
    BY <2>2, <2>3
<1> QED
  BY <1>2, <1>3, <1>4, <1>5 DEF Pooled, United

\* Sorting does.
LEMMA PoolSorted ==
  ASSUME NEW seg, NEW fsiz, NEW a, NEW e, NEW s, Pooled(seg, fsiz, a, e, s)
  PROVE  /\ Pooled(seg, fsiz, a, e, SortByOff(s)) /\ Len(SortByOff(s)) = Len(s)
         /\ Pooled(seg, fsiz, a, e, SortByRsiz(s)) /\ Len(SortByRsiz(s)) = Len(s)
<1>1. s \in Seq(Block)
  BY DEF Pooled
<1>2. ASSUME NEW by \in {"off", "rsiz"}
      PROVE  Pooled(seg, fsiz, a, e, HeapSort(s, by)) /\ Len(HeapSort(s, by)) = Len(s)
  BY <1>1, HeapSortDrawn, PoolDrawn
<1> QED
  BY <1>2 DEF SortByOff, SortByRsiz

\* Dropping the smallest blocks does.
LEMMA PoolLargest ==
  ASSUME NEW seg, NEW fsiz, NEW a, NEW e, NEW s, Pooled(seg, fsiz, a, e, s)
  PROVE  Pooled(seg, fsiz, a, e, Largest(s)) /\ Len(Largest(s)) <= FbpMax
<1>1. s \in Seq(Block) /\ Len(s) \in Nat /\ FbpMax \in Nat
  BY LayoutSizes DEF Pooled
<1>2. CASE Len(s) > FbpMax
  <2>1. PICK n : n = Len(s) - FbpMax
    OBVIOUS
  <2>2. n \in 0 .. Len(s)
    BY <1>1, <1>2, <2>1
  <2>3. Drop(s, n) \in Seq(Block) /\ Len(Drop(s, n)) = Len(s) - n /\ Drawn(s, Drop(s, n))
    BY <1>1, <2>2, DropDrawn
  <2>4. Pooled(seg, fsiz, a, e, Drop(s, n))
    BY <2>3, PoolDrawn
  <2>5. Len(Drop(s, n)) <= FbpMax
    BY <1>1, <2>1, <2>3
  <2> QED
    BY <1>2, <2>1, <2>4, <2>5 DEF Largest
<1>3. CASE ~(Len(s) > FbpMax)
  BY <1>1, <1>3 DEF Largest
<1> QED
  BY <1>2, <1>3

---------------------------------------------------------------------------
(* The database object *)

Fields == {"seg", "bucket", "rnum", "fsiz", "pool", "fbpmis", "iter", "dfcur", "dfcnt", "past"}

IsDB(db) == DOMAIN db = Fields

\* The blocks that the memory of the pool has room for.
Room == FbpMax * AlwRat

\* The file of db has a hole from a to e, or none, where a is the end of the
\* file, and the pool keeps out of it.
Kept(db, a, e, Vs) ==
  /\ IsDB(db) /\ Laid(db.seg, db.fsiz, a, e, Vs) /\ (a < e \/ a = db.fsiz)
  /\ \A o \in DOMAIN db.seg : db.seg[o].rsiz \in Nat \ {0}
  /\ Pooled(db.seg, db.fsiz, a, e, db.pool) /\ Len(db.pool) <= Room

\* The records outside of the hole.
Recs(seg, a, e) == {o \in Beyond(seg, a, e) : seg[o].magic # "fb"}
Table(seg, a, e) == [o \in Recs(seg, a, e) |-> seg[o]]

\* Two databases, with a hole each, that have the same records where they are.
Alike(db, a, e, d, x, y) ==
  /\ d.bucket = db.bucket /\ d.rnum = db.rnum /\ d.fsiz = db.fsiz
  /\ Table(d.seg, x, y) = Table(db.seg, a, e)

\* Being alike is transitive.
LEMMA AlikeTrans ==
  ASSUME NEW db, NEW a, NEW e, NEW d, NEW x, NEW y, NEW f, NEW u, NEW v,
         Alike(db, a, e, d, x, y), Alike(d, x, y, f, u, v)
  PROVE  Alike(db, a, e, f, u, v)
BY DEF Alike

\* When two tables are the same.
LEMMA TableSame ==
  ASSUME NEW seg, NEW a, NEW e, NEW new, NEW x, NEW y,
         \A o \in Beyond(seg, a, e) : seg[o].magic # "fb" => o \in Beyond(new, x, y) /\ new[o] = seg[o],
         \A o \in Beyond(new, x, y) : new[o].magic # "fb" => o \in Beyond(seg, a, e) /\ new[o] = seg[o]
  PROVE  Table(new, x, y) = Table(seg, a, e)
<1>1. Recs(new, x, y) = Recs(seg, a, e)
  BY DEF Recs
<1>2. \A o \in Recs(seg, a, e) : new[o] = seg[o]
  BY DEF Recs
<1> QED
  BY <1>1, <1>2 DEF Table

\* What is said of a database.
LEMMA KeptIs ==
  ASSUME NEW db, NEW a, NEW e, NEW Vs, Kept(db, a, e, Vs)
  PROVE  /\ IsDB(db) /\ Laid(db.seg, db.fsiz, a, e, Vs) /\ (a < e \/ a = db.fsiz)
         /\ Pooled(db.seg, db.fsiz, a, e, db.pool) /\ Len(db.pool) <= Room
         /\ db.pool \in Seq(Block) /\ Len(db.pool) \in Nat
         /\ db.fsiz \in Nat /\ a \in Nat /\ e \in Nat /\ Frec <= a /\ a <= e /\ e <= db.fsiz
         /\ Aligned(db.fsiz) /\ Aligned(a) /\ Aligned(e)
         /\ a \notin Beyond(db.seg, a, e)
         /\ \A o \in Beyond(db.seg, a, e) : IsSeg(db.seg[o], Vs) /\ o \in Nat /\ o < db.fsiz
<1>1. IsDB(db) /\ Laid(db.seg, db.fsiz, a, e, Vs) /\ (a < e \/ a = db.fsiz)
      /\ Pooled(db.seg, db.fsiz, a, e, db.pool) /\ Len(db.pool) <= Room
  BY DEF Kept
<1>2. db.pool \in Seq(Block) /\ Len(db.pool) \in Nat
  BY <1>1 DEF Pooled
<1>3. /\ db.fsiz \in Nat /\ a \in Nat /\ e \in Nat /\ Frec <= a /\ a <= e /\ e <= db.fsiz
      /\ Aligned(db.fsiz) /\ Aligned(a) /\ Aligned(e)
      /\ \A o \in Beyond(db.seg, a, e) : IsSeg(db.seg[o], Vs) /\ o \in DOMAIN db.seg
      /\ DOMAIN db.seg \subseteq 0 .. db.fsiz - 1
  BY <1>1 DEF Laid, Beyond
<1>4. a \notin Beyond(db.seg, a, e)
  BY <1>1, <1>3 DEF Beyond
<1> QED
  BY <1>1, <1>2, <1>3, <1>4

\* The room of the pool.
LEMMA RoomIs == Room \in Nat /\ FbpMax \in Nat /\ FbpMax < Room
<1>1. FbpMax \in Nat /\ FbpMax > 0 /\ AlwRat \in Nat /\ AlwRat > 1
  BY LayoutSizes, LayoutAssumption
<1>2. FbpMax * AlwRat >= FbpMax * 2
  BY <1>1, SMT
<1>3. FbpMax * AlwRat \in Nat
  BY <1>1
<1> QED
  BY <1>1, <1>2, <1>3 DEF Room

\* What a write of a free block's header makes of the object.
LEMMA WriteFBIs ==
  ASSUME NEW db, IsDB(db), NEW off, NEW n, NEW d, d = WriteFB(db, off, n)
  PROVE  /\ IsDB(d) /\ d.seg = Covered(db.seg, off, n, FB(n)) /\ d.bucket = db.bucket
         /\ d.rnum = db.rnum /\ d.fsiz = db.fsiz /\ d.pool = db.pool
BY DEF IsDB, Fields, WriteFB, Wrote

\* ... and of a record.
LEMMA WriteSegIs ==
  ASSUME NEW db, IsDB(db), NEW off, NEW n, NEW s, NEW d, d = WriteSeg(db, off, n, s)
  PROVE  /\ IsDB(d) /\ d.seg = Covered(db.seg, off, n, s) /\ d.bucket = db.bucket
         /\ d.rnum = db.rnum /\ d.fsiz = db.fsiz /\ d.pool = db.pool
BY DEF IsDB, Fields, WriteSeg, Wrote

\* ... and of the header of the file.
LEMMA SetFsizIs ==
  ASSUME NEW db, IsDB(db), NEW n, NEW d, d = SetFsiz(db, n)
  PROVE  /\ IsDB(d) /\ d.seg = db.seg /\ d.bucket = db.bucket
         /\ d.rnum = db.rnum /\ d.fsiz = n /\ d.pool = db.pool
BY DEF IsDB, Fields, SetFsiz, Wrote

\* ... and of the number of records.
LEMMA SetRnumIs ==
  ASSUME NEW db, IsDB(db), NEW n, NEW d, d = SetRnum(db, n)
  PROVE  /\ IsDB(d) /\ d.seg = db.seg /\ d.bucket = db.bucket
         /\ d.rnum = n /\ d.fsiz = db.fsiz /\ d.pool = db.pool
BY DEF IsDB, Fields, SetRnum, Wrote

---------------------------------------------------------------------------
(* Changes of the pool *)

\* d is db but for its pool, and what lives in memory besides it.
Repooled(db, d) ==
  /\ IsDB(d) /\ d.seg = db.seg /\ d.bucket = db.bucket /\ d.rnum = db.rnum /\ d.fsiz = db.fsiz

\* A file keeps what it has under another pool that is sound.
LEMMA RepooledKept ==
  ASSUME NEW db, NEW a, NEW e, NEW Vs, Kept(db, a, e, Vs), NEW d, Repooled(db, d),
         Pooled(db.seg, db.fsiz, a, e, d.pool), Len(d.pool) <= Room
  PROVE  Kept(d, a, e, Vs) /\ Alike(db, a, e, d, a, e)
BY DEF Kept, Repooled, Alike

\* tchdbfbpmerge.
LEMMA MergeIs ==
  ASSUME NEW db, NEW a, NEW e, NEW Vs, Kept(db, a, e, Vs), NEW d, d = FbpMerge(db)
  PROVE  /\ Repooled(db, d) /\ Pooled(db.seg, db.fsiz, a, e, d.pool)
         /\ Len(d.pool) <= Len(db.pool) /\ Len(d.pool) <= Room
         /\ d.pool = JoinPairs(SortByOff(db.pool))
         /\ Kept(d, a, e, Vs) /\ Alike(db, a, e, d, a, e)
<1>1. /\ IsDB(db) /\ Laid(db.seg, db.fsiz, a, e, Vs) /\ Pooled(db.seg, db.fsiz, a, e, db.pool)
      /\ Len(db.pool) <= Room /\ Len(db.pool) \in Nat /\ a \notin Beyond(db.seg, a, e)
  BY KeptIs
<1>2. Repooled(db, d) /\ d.pool = JoinPairs(SortByOff(db.pool))
  BY <1>1 DEF FbpMerge, WithPool, Repooled, IsDB, Fields
<1>3. Pooled(db.seg, db.fsiz, a, e, SortByOff(db.pool)) /\ Len(SortByOff(db.pool)) = Len(db.pool)
  BY <1>1, PoolSorted, Zenon
<1>4. PICK s : s = SortByOff(db.pool)
  OBVIOUS
<1>5. Pooled(db.seg, db.fsiz, a, e, JoinPairs(s)) /\ Len(JoinPairs(s)) <= Len(s)
  BY <1>1, <1>3, <1>4, PoolMerged
<1>6. Len(d.pool) <= Len(db.pool) /\ Pooled(db.seg, db.fsiz, a, e, d.pool)
  BY <1>2, <1>3, <1>4, <1>5
<1>7. Len(d.pool) <= Room
  <2>1. Len(d.pool) \in Nat
    BY <1>6 DEF Pooled
  <2> QED
    BY <1>1, <1>6, <2>1, RoomIs
<1> QED
  BY <1>2, <1>6, <1>7, RepooledKept

\* A pool at its limit loses its smallest blocks.
LEMMA ShrunkIs ==
  ASSUME NEW db, NEW a, NEW e, NEW Vs, Kept(db, a, e, Vs), NEW d, d = Shrunk(db)
  PROVE  /\ Repooled(db, d) /\ Pooled(db.seg, db.fsiz, a, e, d.pool) /\ Len(d.pool) <= FbpMax
<1>1. IsDB(db) /\ Pooled(db.seg, db.fsiz, a, e, db.pool)
  BY KeptIs
<1>2. Repooled(db, d) /\ d.pool = Largest(SortByRsiz(db.pool))
  BY <1>1 DEF Shrunk, Repooled, IsDB, Fields
<1>3. Pooled(db.seg, db.fsiz, a, e, SortByRsiz(db.pool))
  BY <1>1, PoolSorted
<1> QED
  BY <1>2, <1>3, PoolLargest

\* A full pool makes room.
LEMMA MadeRoom ==
  ASSUME NEW db, NEW a, NEW e, NEW Vs, Kept(db, a, e, Vs),
         NEW d, d = IF Len(db.pool) < FbpMax * AlwRat THEN db ELSE Shrunk(FbpMerge(db))
  PROVE  Repooled(db, d) /\ Pooled(db.seg, db.fsiz, a, e, d.pool) /\ Len(d.pool) < Room
<1>1. IsDB(db) /\ Pooled(db.seg, db.fsiz, a, e, db.pool)
  BY KeptIs
<1>2. CASE Len(db.pool) < FbpMax * AlwRat
  BY <1>1, <1>2 DEF Repooled, Room
<1>3. CASE ~(Len(db.pool) < FbpMax * AlwRat)
  <2>1. PICK m : m = FbpMerge(db)
    OBVIOUS
  <2>2. Repooled(db, m) /\ Kept(m, a, e, Vs)
    BY <2>1, MergeIs
  <2>3. d = Shrunk(m)
    BY <1>3, <2>1
  <2>4. Repooled(m, d) /\ Pooled(m.seg, m.fsiz, a, e, d.pool) /\ Len(d.pool) <= FbpMax
    BY <2>2, <2>3, ShrunkIs
  <2>5. Len(d.pool) \in Nat
    BY <2>4 DEF Pooled
  <2> QED
    BY <2>2, <2>4, <2>5, RoomIs DEF Repooled
<1> QED
  BY <1>2, <1>3

\* A block of a given size finds its place.
LEMMA EnterIs ==
  ASSUME NEW db, IsDB(db), db.pool \in Seq(Block), NEW off, NEW n \in Nat, NEW d, d = Enter(db, off, n)
  PROVE  /\ Repooled(db, d)
         /\ \E at \in 1 .. Len(db.pool) + 1 : d.pool = InsertAt(db.pool, at, [off |-> off, rsiz |-> n])
<1>1. Fit(db.pool, n) \in 0 .. Len(db.pool) /\ Len(db.pool) \in Nat
  BY FitIs
<1>2. PICK at : at = IF Fit(db.pool, n) = 0 THEN Len(db.pool) + 1 ELSE Fit(db.pool, n)
  OBVIOUS
<1>3. at \in 1 .. Len(db.pool) + 1
  BY <1>1, <1>2
<1>4. d.pool = InsertAt(db.pool, at, [off |-> off, rsiz |-> n]) /\ Repooled(db, d)
  BY <1>2 DEF Enter, Repooled, IsDB, Fields
<1> QED
  BY <1>3, <1>4

---------------------------------------------------------------------------
(* A hole is given back *)

\* Where there is no hole, it may as well lie at the end of the file.
LEMMA Closing ==
  ASSUME NEW db, NEW a, NEW Vs, IsDB(db), Laid(db.seg, db.fsiz, a, a, Vs),
         \A o \in DOMAIN db.seg : db.seg[o].rsiz \in Nat \ {0},
         Pooled(db.seg, db.fsiz, a, a, db.pool), Len(db.pool) <= Room
  PROVE  /\ Kept(db, db.fsiz, db.fsiz, Vs)
         /\ Table(db.seg, db.fsiz, db.fsiz) = Table(db.seg, a, a)
<1>1. Laid(db.seg, db.fsiz, db.fsiz, db.fsiz, Vs) /\ Beyond(db.seg, a, a) = DOMAIN db.seg
  BY NoHole
<1>2. Beyond(db.seg, db.fsiz, db.fsiz) = DOMAIN db.seg
  BY <1>1, NoHole
<1>3. Pooled(db.seg, db.fsiz, db.fsiz, db.fsiz, db.pool)
  BY FreeWhole DEF Pooled
<1> QED
  BY <1>1, <1>2, <1>3 DEF Kept, Table, Recs

\* The hole is cut: what is from m on becomes a free block, and enters the
\* pool.  With m = a nothing is left of the hole.
LEMMA GivenBack ==
  ASSUME NEW db, NEW a, NEW e, NEW Vs, Kept(db, a, e, Vs),
         NEW m \in Nat, a <= m, m < e, Aligned(m), NEW n, n = e - m,
         NEW d, d = FbpInsert(WriteFB(db, m, n), m, n)
  PROVE  /\ m > a => Kept(d, a, m, Vs) /\ Alike(db, a, e, d, a, m)
         /\ m = a => Kept(d, d.fsiz, d.fsiz, Vs) /\ Alike(db, a, e, d, d.fsiz, d.fsiz)
<1>1. /\ IsDB(db) /\ Laid(db.seg, db.fsiz, a, e, Vs) /\ (a < e \/ a = db.fsiz)
      /\ Pooled(db.seg, db.fsiz, a, e, db.pool) /\ Len(db.pool) <= Room
      /\ db.fsiz \in Nat /\ a \in Nat /\ e \in Nat /\ e <= db.fsiz
  BY KeptIs
<1>2. n \in Nat /\ n > 0 /\ m + n = e /\ IsSeg(FB(n), Vs) /\ FB(n).rsiz = n /\ FB(n).magic = "fb"
  BY <1>1, FBIs
<1>3. PICK w : w = WriteFB(db, m, n)
  OBVIOUS
<1>4. /\ IsDB(w) /\ w.seg = Covered(db.seg, m, n, FB(n)) /\ w.bucket = db.bucket
      /\ w.rnum = db.rnum /\ w.fsiz = db.fsiz /\ w.pool = db.pool
  BY <1>1, <1>3, WriteFBIs
<1>5. PICK r : r = IF Len(w.pool) < FbpMax * AlwRat THEN w ELSE Shrunk(FbpMerge(w))
  OBVIOUS
<1>6. d = Enter(r, m, n)
  BY <1>3, <1>5 DEF FbpInsert
\* What the merging makes of the pool depends on the pool only.
<1>7. /\ IsDB(r) /\ r.seg = w.seg /\ r.bucket = w.bucket /\ r.rnum = w.rnum /\ r.fsiz = w.fsiz
      /\ Pooled(db.seg, db.fsiz, a, e, r.pool) /\ Len(r.pool) < Room
  <2>1. PICK q : q = IF Len(db.pool) < FbpMax * AlwRat THEN db ELSE Shrunk(FbpMerge(db))
    OBVIOUS
  <2>2. Repooled(db, q) /\ Pooled(db.seg, db.fsiz, a, e, q.pool) /\ Len(q.pool) < Room
    BY <2>1, MadeRoom
  <2>3. CASE Len(db.pool) < FbpMax * AlwRat
    <3>1. r = w /\ q = db
      BY <1>4, <1>5, <2>1, <2>3
    <3> QED
      BY <1>4, <2>2, <3>1
  <2>4. CASE ~(Len(db.pool) < FbpMax * AlwRat)
    <3>1. r = Shrunk(FbpMerge(w)) /\ q = Shrunk(FbpMerge(db))
      BY <1>4, <1>5, <2>1, <2>4
    <3>2. PICK fw, fd : fw = FbpMerge(w) /\ fd = FbpMerge(db)
      OBVIOUS
    <3>3. /\ IsDB(fw) /\ fw.seg = w.seg /\ fw.bucket = w.bucket /\ fw.rnum = w.rnum
          /\ fw.fsiz = w.fsiz /\ fw.pool = JoinPairs(SortByOff(w.pool))
      BY <1>4, <3>2 DEF FbpMerge, WithPool, IsDB, Fields
    <3>4. IsDB(fd) /\ fd.pool = JoinPairs(SortByOff(db.pool))
      BY <1>1, <3>2 DEF FbpMerge, WithPool, IsDB, Fields
    <3>5. fw.pool = fd.pool
      BY <1>4, <3>3, <3>4
    <3>6. /\ IsDB(r) /\ r.seg = w.seg /\ r.bucket = w.bucket /\ r.rnum = w.rnum /\ r.fsiz = w.fsiz
          /\ r.pool = Largest(SortByRsiz(fw.pool))
      BY <3>1, <3>2, <3>3 DEF Shrunk, IsDB, Fields
    <3>7. q.pool = Largest(SortByRsiz(fd.pool))
      BY <3>1, <3>2, <3>4 DEF Shrunk, IsDB, Fields
    <3> QED
      BY <2>2, <3>5, <3>6, <3>7
  <2> QED
    BY <2>3, <2>4
<1>8. PICK new : new = Covered(db.seg, m, e - m, FB(n))
  OBVIOUS
<1>9. /\ Laid(new, db.fsiz, a, m, Vs)
      /\ m \notin Beyond(db.seg, a, e) /\ Beyond(new, a, m) = Beyond(db.seg, a, e) \cup {m}
      /\ new[m] = FB(n) /\ \A o \in Beyond(db.seg, a, e) : new[o] = db.seg[o]
  BY <1>1, <1>2, <1>8, HoleCut
<1>10. r.seg = new /\ w.seg = new /\ n = e - m
  BY <1>4, <1>7, <1>8
<1>11. \A b : FreeIn(db.seg, db.fsiz, a, e, b) => FreeIn(new, db.fsiz, a, m, b)
  BY <1>1, <1>2, <1>8, FreeCut
<1>12. Pooled(new, db.fsiz, a, m, r.pool)
  BY <1>7, <1>11 DEF Pooled
<1> DEFINE b == [off |-> m, rsiz |-> n]
<1>13. FreeIn(new, db.fsiz, a, m, b)
  <2>1. b.off = m /\ b.rsiz = n /\ b \in Block
    BY <1>2 DEF Block
  <2>2. m \in Beyond(new, a, m)
    BY <1>9
  <2>3. e \in Beyond(new, a, m) \cup {db.fsiz, a}
    <3>1. e \in Beyond(db.seg, a, e) \cup {db.fsiz}
      BY <1>1 DEF Laid
    <3> QED
      BY <1>9, <3>1
  <2>4. ASSUME NEW o \in Beyond(new, a, m), m <= o, o < e
        PROVE  new[o].magic = "fb"
    <3>1. CASE o = m
      BY <1>2, <1>9, <3>1
    <3>2. CASE o # m
      <4>1. o \in Beyond(db.seg, a, e)
        BY <1>9, <3>2
      <4>2. o \in Nat
        BY <1>1, <4>1 DEF Laid, Beyond
      <4> QED
        BY <1>1, <2>4, <4>1, <4>2 DEF Beyond
    <3> QED
      BY <3>1, <3>2
  <2> HIDE DEF b
  <2> QED
    BY <1>2, <2>1, <2>2, <2>3, <2>4 DEF FreeIn
<1>14. \A i \in 1 .. Len(r.pool) : Apart(r.pool[i], b)
  <2>1. ASSUME NEW i \in 1 .. Len(r.pool)
        PROVE  Apart(r.pool[i], b)
    <3>1. PICK c : c = r.pool[i]
      OBVIOUS
    <3>2. FreeIn(db.seg, db.fsiz, a, e, c)
      BY <1>7, <3>1 DEF Pooled
    <3>3. c.off \in Nat /\ c.rsiz \in Nat /\ (c.off + c.rsiz <= a \/ e <= c.off)
      BY <3>2, BlockIs DEF FreeIn
    <3>4. c.off + c.rsiz <= m \/ m + n <= c.off
      BY <1>1, <1>2, <3>3
    <3> QED
      BY <3>1, <3>4 DEF Apart
  <2> QED
    BY <2>1
<1>15. PICK at \in 1 .. Len(r.pool) + 1 : d.pool = InsertAt(r.pool, at, b)
  BY <1>2, <1>6, <1>7, EnterIs DEF Pooled
<1>16. IsDB(d) /\ d.seg = r.seg /\ d.bucket = r.bucket /\ d.rnum = r.rnum /\ d.fsiz = r.fsiz
  <2>1. r.pool \in Seq(Block)
    BY <1>7 DEF Pooled
  <2>2. Repooled(r, d)
    BY <1>2, <1>6, <1>7, <2>1, EnterIs
  <2> QED
    BY <2>2 DEF Repooled
<1>17. Pooled(new, db.fsiz, a, m, d.pool) /\ Len(d.pool) = Len(r.pool) + 1
  <2>1. PICK c, p : c = b /\ p = r.pool
    OBVIOUS
  <2>2. /\ Pooled(new, db.fsiz, a, m, p) /\ FreeIn(new, db.fsiz, a, m, c) /\ at \in 1 .. Len(p) + 1
        /\ \A i \in 1 .. Len(p) : Apart(p[i], c)
    BY <1>12, <1>13, <1>14, <2>1
  <2>3. /\ Pooled(new, db.fsiz, a, m, InsertAt(p, at, c))
        /\ Len(InsertAt(p, at, c)) = Len(p) + 1
    BY <2>2, PoolEntered
  <2> QED
    BY <1>15, <2>1, <2>3
<1>18. Len(d.pool) <= Room
  <2>1. Len(r.pool) \in Nat
    BY <1>7 DEF Pooled
  <2> QED
    BY <1>7, <1>17, <2>1, RoomIs
<1>19. \A o \in DOMAIN d.seg : d.seg[o].rsiz \in Nat \ {0}
  <2>1. \A o \in DOMAIN db.seg : db.seg[o].rsiz \in Nat \ {0}
    BY DEF Kept
  <2>2. d.seg = Covered(db.seg, m, n, FB(n))
    BY <1>4, <1>7, <1>16
  <2>3. \A o \in DOMAIN d.seg : d.seg[o] = FB(n) \/ (o \in DOMAIN db.seg /\ d.seg[o] = db.seg[o])
    BY <2>2 DEF Covered
  <2> QED
    BY <1>2, <2>1, <2>3
<1>20. Table(d.seg, a, m) = Table(db.seg, a, e)
  <2>1. d.seg = new
    BY <1>10, <1>16
  <2>2. \A o \in Beyond(db.seg, a, e) : o \in Beyond(new, a, m) /\ new[o] = db.seg[o]
    BY <1>9
  <2>3. \A o \in Beyond(new, a, m) : new[o].magic # "fb" => o \in Beyond(db.seg, a, e) /\ new[o] = db.seg[o]
    BY <1>2, <1>9
  <2> QED
    BY <2>1, <2>2, <2>3, TableSame
<1>21. /\ Laid(d.seg, d.fsiz, a, m, Vs) /\ Pooled(d.seg, d.fsiz, a, m, d.pool)
       /\ d.bucket = db.bucket /\ d.rnum = db.rnum /\ d.fsiz = db.fsiz
  BY <1>4, <1>7, <1>9, <1>10, <1>16, <1>17
<1>22. m > a => Kept(d, a, m, Vs) /\ Alike(db, a, e, d, a, m)
  BY <1>16, <1>18, <1>19, <1>20, <1>21 DEF Kept, Alike
<1>23. m = a => Kept(d, d.fsiz, d.fsiz, Vs) /\ Alike(db, a, e, d, d.fsiz, d.fsiz)
  <2>1. ASSUME m = a
        PROVE  Kept(d, d.fsiz, d.fsiz, Vs) /\ Alike(db, a, e, d, d.fsiz, d.fsiz)
    <3>1. Laid(d.seg, d.fsiz, a, a, Vs) /\ Pooled(d.seg, d.fsiz, a, a, d.pool)
          /\ Table(d.seg, a, a) = Table(db.seg, a, e)
      BY <1>20, <1>21, <2>1
    <3>2. Kept(d, d.fsiz, d.fsiz, Vs) /\ Table(d.seg, d.fsiz, d.fsiz) = Table(d.seg, a, a)
      BY <1>16, <1>18, <1>19, <3>1, Closing
    <3> QED
      BY <1>21, <3>1, <3>2 DEF Alike
  <2> QED
    BY <2>1
<1> QED
  BY <1>22, <1>23

---------------------------------------------------------------------------
(* A region is searched for *)

\* A hole for n bytes, or the end of the file.
Region(g, n, Vs) ==
  /\ g.rsiz \in Nat /\ g.off \in Nat
  /\ IF g.rsiz = 0 THEN g.off = g.db.fsiz ELSE g.rsiz >= n
  /\ Kept(g.db, g.off, g.off + g.rsiz, Vs)

\* The region's database has the records of db.
Offers(db, a, e, g) == Alike(db, a, e, g.db, g.off, g.off + g.rsiz)

\* A search that meets no block offers the end of the file.
LEMMA MissedIs ==
  ASSUME NEW db, NEW Vs, Kept(db, db.fsiz, db.fsiz, Vs), NEW n,
         NEW g, g = Missed([db EXCEPT !.fbpmis = @ + 1])
  PROVE  Region(g, n, Vs) /\ Offers(db, db.fsiz, db.fsiz, g)
<1>1. IsDB(db) /\ Pooled(db.seg, db.fsiz, db.fsiz, db.fsiz, db.pool) /\ Len(db.pool) <= Room
      /\ db.fsiz \in Nat
  BY KeptIs
<1>2. PICK d : d = [db EXCEPT !.fbpmis = @ + 1]
  OBVIOUS
<1>3. Repooled(db, d) /\ d.pool = db.pool
  BY <1>1, <1>2 DEF Repooled, IsDB, Fields
<1>4. Kept(d, db.fsiz, db.fsiz, Vs) /\ Alike(db, db.fsiz, db.fsiz, d, db.fsiz, db.fsiz)
  BY <1>1, <1>3, RepooledKept
<1>5. PICK m : m = FbpMerge(d)
  OBVIOUS
<1>6. Kept(m, db.fsiz, db.fsiz, Vs) /\ Alike(d, db.fsiz, db.fsiz, m, db.fsiz, db.fsiz)
  BY <1>4, <1>5, MergeIs
<1>7. PICK s : s = [m EXCEPT !.pool = SortByRsiz(@)]
  OBVIOUS
<1>8. Kept(s, db.fsiz, db.fsiz, Vs) /\ Alike(m, db.fsiz, db.fsiz, s, db.fsiz, db.fsiz)
  <2>1. IsDB(m) /\ Pooled(m.seg, m.fsiz, db.fsiz, db.fsiz, m.pool) /\ Len(m.pool) <= Room
    BY <1>6, KeptIs
  <2>2. Repooled(m, s) /\ s.pool = SortByRsiz(m.pool)
    BY <1>7, <2>1 DEF Repooled, IsDB, Fields
  <2>3. Pooled(m.seg, m.fsiz, db.fsiz, db.fsiz, s.pool) /\ Len(s.pool) <= Room
    <3>1. /\ Pooled(m.seg, m.fsiz, db.fsiz, db.fsiz, SortByRsiz(m.pool))
          /\ Len(SortByRsiz(m.pool)) = Len(m.pool)
      BY <2>1, PoolSorted
    <3> QED
      BY <2>1, <2>2, <3>1
  <2> QED
    BY <1>6, <2>2, <2>3, RepooledKept
<1>9. PICK f : f = IF d.fbpmis < MgFreq THEN d ELSE s
  OBVIOUS
<1>10. Kept(f, db.fsiz, db.fsiz, Vs) /\ Alike(db, db.fsiz, db.fsiz, f, db.fsiz, db.fsiz)
  <2>1. CASE d.fbpmis < MgFreq
    BY <1>4, <1>9, <2>1
  <2>2. CASE ~(d.fbpmis < MgFreq)
    BY <1>4, <1>6, <1>8, <1>9, <2>2, AlikeTrans
  <2> QED
    BY <2>1, <2>2
<1>11. g = [off |-> db.fsiz, rsiz |-> 0, db |-> f]
  BY <1>2, <1>3, <1>5, <1>7, <1>9 DEF Missed, Repooled
<1>12. g.off = db.fsiz /\ g.rsiz = 0 /\ g.db = f /\ f.fsiz = db.fsiz
  BY <1>10, <1>11 DEF Alike
<1>13. db.fsiz + 0 = db.fsiz
  BY <1>1
<1> QED
  BY <1>1, <1>10, <1>12, <1>13 DEF Region, Offers

\* The blocks of a pool without one of them keep out of the hole where it was.
LEMMA BlockOut ==
  ASSUME NEW seg, NEW fsiz, NEW Vs, Whole(seg, fsiz, Vs), NEW pool, Pooled(seg, fsiz, fsiz, fsiz, pool),
         NEW c \in 1 .. Len(pool), NEW b, b = pool[c], NEW e, e = b.off + b.rsiz
  PROVE  /\ b.off \in DOMAIN seg /\ e \in DOMAIN seg \cup {fsiz} /\ b.off \in Nat /\ e \in Nat /\ b.off < e
         /\ Laid(seg, fsiz, b.off, e, Vs) /\ b \in Block /\ b.rsiz \in Nat
         /\ \A i \in 1 .. Len(pool) : i # c =>
              FreeIn(seg, fsiz, b.off, e, pool[i]) /\ Apart(pool[i], b) /\ Apart(b, pool[i])
         /\ Table(seg, b.off, e) = Table(seg, fsiz, fsiz)
<1>1. Laid(seg, fsiz, fsiz, fsiz, Vs)
  BY DEF Whole
<1>2. Beyond(seg, fsiz, fsiz) = DOMAIN seg
  BY <1>1, NoHole
<1>3. FreeIn(seg, fsiz, fsiz, fsiz, b)
  BY DEF Pooled
<1>4. b \in Block /\ b.off \in Nat /\ b.rsiz \in Nat /\ b.rsiz > 0
  BY <1>3, BlockIs DEF FreeIn
<1>5. b.off \in DOMAIN seg /\ e \in DOMAIN seg \cup {fsiz} /\ b.off < e /\ e \in Nat
  BY <1>2, <1>3, <1>4 DEF FreeIn
<1>6. Laid(seg, fsiz, b.off, e, Vs) /\ Beyond(seg, b.off, e) = {p \in DOMAIN seg : p < b.off \/ p >= e}
  <2>1. PICK o : o = b.off
    OBVIOUS
  <2>2. o \in DOMAIN seg /\ o < e
    BY <1>5, <2>1
  <2>3. Laid(seg, fsiz, o, e, Vs) /\ Beyond(seg, o, e) = {p \in DOMAIN seg : p < o \/ p >= e}
    BY <1>5, <2>2, HoleMade
  <2> QED
    BY <2>1, <2>3
<1>7. ASSUME NEW i \in 1 .. Len(pool), i # c
      PROVE  FreeIn(seg, fsiz, b.off, e, pool[i]) /\ Apart(pool[i], b) /\ Apart(b, pool[i])
  <2>1. PICK f, o : f = pool[i] /\ o = b.off
    OBVIOUS
  <2>2. FreeIn(seg, fsiz, fsiz, fsiz, f) /\ Apart(f, b) /\ Apart(b, f)
    BY <1>7, <2>1 DEF Pooled
  <2>3. f.off + f.rsiz <= o \/ e <= f.off
    BY <2>1, <2>2 DEF Apart
  <2>4. o \in DOMAIN seg /\ o < e
    BY <1>5, <2>1
  <2>5. FreeIn(seg, fsiz, o, e, f)
    BY <1>5, <2>2, <2>3, <2>4, FreeBeside
  <2> QED
    BY <2>1, <2>2, <2>5
<1>8. Table(seg, b.off, e) = Table(seg, fsiz, fsiz)
  <2>1. \A o \in DOMAIN seg : o \in Nat
    BY <1>1 DEF Laid
  <2>2. \A o \in Beyond(seg, fsiz, fsiz) : seg[o].magic # "fb" => o \in Beyond(seg, b.off, e)
    BY <1>2, <1>3, <1>4, <1>5, <1>6, <2>1 DEF FreeIn
  <2>3. \A o \in Beyond(seg, b.off, e) : o \in Beyond(seg, fsiz, fsiz)
    BY <1>2, <1>6
  <2> QED
    BY <2>2, <2>3, TableSame
<1> QED
  BY <1>4, <1>5, <1>6, <1>7, <1>8

\* What the pool provides, as a whole.
LEMMA ProvidedWhole ==
  ASSUME NEW db, NEW Vs, Kept(db, db.fsiz, db.fsiz, Vs), NEW n \in Nat, NEW c \in 1 .. Len(db.pool),
         NEW b, b = db.pool[c], b.rsiz >= n,
         NEW g, g = [off |-> b.off, rsiz |-> b.rsiz, db |-> [db EXCEPT !.pool = RemoveAt(@, c)]]
  PROVE  Region(g, n, Vs) /\ Offers(db, db.fsiz, db.fsiz, g)
<1>1. /\ IsDB(db) /\ Pooled(db.seg, db.fsiz, db.fsiz, db.fsiz, db.pool) /\ Len(db.pool) <= Room
      /\ db.fsiz \in Nat /\ Whole(db.seg, db.fsiz, Vs) /\ db.pool \in Seq(Block) /\ Len(db.pool) \in Nat
  BY KeptIs DEF Whole
<1>2. PICK e : e = b.off + b.rsiz
  OBVIOUS
<1>3. /\ b.off \in Nat /\ e \in Nat /\ b.off < e /\ Laid(db.seg, db.fsiz, b.off, e, Vs) /\ b.rsiz \in Nat
      /\ \A i \in 1 .. Len(db.pool) : i # c => FreeIn(db.seg, db.fsiz, b.off, e, db.pool[i])
      /\ Table(db.seg, b.off, e) = Table(db.seg, db.fsiz, db.fsiz)
  BY <1>1, <1>2, BlockOut
<1>4. PICK d : d = [db EXCEPT !.pool = RemoveAt(@, c)]
  OBVIOUS
<1>5. Repooled(db, d) /\ d.pool = RemoveAt(db.pool, c)
  BY <1>1, <1>4 DEF Repooled, IsDB, Fields
<1>6. /\ d.pool \in Seq(Block) /\ Len(d.pool) = Len(db.pool) - 1
      /\ \A i \in 1 .. Len(db.pool) - 1 : d.pool[i] = db.pool[IF i < c THEN i ELSE i + 1]
      /\ Drawn(db.pool, d.pool)
  BY <1>1, <1>5, RemoveDrawn
<1>7. Pooled(db.seg, db.fsiz, db.fsiz, db.fsiz, d.pool)
  BY <1>1, <1>6, PoolDrawn
<1>8. ASSUME NEW i \in 1 .. Len(d.pool)
      PROVE  FreeIn(db.seg, db.fsiz, b.off, e, d.pool[i])
  <2>1. PICK j : j = IF i < c THEN i ELSE i + 1
    OBVIOUS
  <2>2. j \in 1 .. Len(db.pool) /\ j # c /\ d.pool[i] = db.pool[j]
    BY <1>1, <1>6, <2>1
  <2> QED
    BY <1>3, <2>2
<1>9. Pooled(d.seg, d.fsiz, b.off, e, d.pool) /\ Len(d.pool) <= Room
  BY <1>1, <1>5, <1>6, <1>7, <1>8, RoomIs DEF Pooled, Repooled
<1>10. Kept(d, b.off, e, Vs) /\ Alike(db, db.fsiz, db.fsiz, d, b.off, e)
  BY <1>3, <1>5, <1>9 DEF Kept, Repooled, Alike
<1>11. g.off = b.off /\ g.rsiz = b.rsiz /\ g.db = d /\ g.off + g.rsiz = e /\ g.rsiz # 0
  BY <1>2, <1>3, <1>4
<1> QED
  BY <1>3, <1>10, <1>11 DEF Region, Offers

\* A block is large enough to be cut.
TooLarge(b, n) == b.rsiz > 2 * n /\ b.rsiz >= 2 * (n + PadSize(b.off + n))

\* What the pool provides of a block too large.
LEMMA ProvidedCut ==
  ASSUME NEW db, NEW Vs, Kept(db, db.fsiz, db.fsiz, Vs), NEW n \in Nat \ {0}, NEW c \in 1 .. Len(db.pool),
         NEW b, b = db.pool[c],
         TooLarge(b, n), NEW g, g = Provided(db, c, b, n)
  PROVE  Region(g, n, Vs) /\ Offers(db, db.fsiz, db.fsiz, g)
<1>c. PICK size : size = n + PadSize(b.off + n)
  OBVIOUS
<1>d. PICK rest : rest = [off |-> b.off + size, rsiz |-> b.rsiz - size]
  OBVIOUS
<1>a. b.rsiz > 2 * n /\ b.rsiz >= 2 * size
  BY <1>c DEF TooLarge
<1>b. g = [off |-> b.off, rsiz |-> size,
           db |-> WriteFB([db EXCEPT !.pool[c] = rest], rest.off, rest.rsiz)]
  BY <1>a, <1>c, <1>d DEF Provided
<1>1. /\ IsDB(db) /\ Pooled(db.seg, db.fsiz, db.fsiz, db.fsiz, db.pool) /\ Len(db.pool) <= Room
      /\ db.fsiz \in Nat /\ Whole(db.seg, db.fsiz, Vs) /\ db.pool \in Seq(Block) /\ Len(db.pool) \in Nat
  BY KeptIs DEF Whole
<1>2. PICK e : e = b.off + b.rsiz
  OBVIOUS
<1>3. /\ b.off \in DOMAIN db.seg /\ e \in DOMAIN db.seg \cup {db.fsiz}
      /\ b.off \in Nat /\ e \in Nat /\ b.off < e /\ Laid(db.seg, db.fsiz, b.off, e, Vs)
      /\ b \in Block /\ b.rsiz \in Nat
      /\ \A i \in 1 .. Len(db.pool) : i # c =>
           /\ FreeIn(db.seg, db.fsiz, b.off, e, db.pool[i])
           /\ Apart(db.pool[i], b) /\ Apart(b, db.pool[i])
      /\ Table(db.seg, b.off, e) = Table(db.seg, db.fsiz, db.fsiz)
  <2>1. PICK seg, fsiz, pool : seg = db.seg /\ fsiz = db.fsiz /\ pool = db.pool
    OBVIOUS
  <2>2. /\ Whole(seg, fsiz, Vs) /\ Pooled(seg, fsiz, fsiz, fsiz, pool)
        /\ c \in 1 .. Len(pool) /\ b = pool[c]
    BY <1>1, <2>1
  <2>3. /\ b.off \in DOMAIN seg /\ e \in DOMAIN seg \cup {fsiz} /\ b.off \in Nat /\ e \in Nat /\ b.off < e
        /\ Laid(seg, fsiz, b.off, e, Vs) /\ b \in Block /\ b.rsiz \in Nat
        /\ \A i \in 1 .. Len(pool) : i # c =>
             FreeIn(seg, fsiz, b.off, e, pool[i]) /\ Apart(pool[i], b) /\ Apart(b, pool[i])
        /\ Table(seg, b.off, e) = Table(seg, fsiz, fsiz)
    BY <1>2, <2>2, BlockOut
  <2> QED
    BY <2>1, <2>3
<1>4. size \in Nat /\ size >= n /\ size > 0 /\ Aligned(b.off + size)
  <2>1. PICK k : k = b.off + n
    OBVIOUS
  <2>2. k \in Nat
    BY <1>3, <2>1
  <2>3. PadSize(k) \in 0 .. Align - 1 /\ Aligned(k + PadSize(k))
    BY <2>2, Padded
  <2>4. PadSize(k) \in Nat /\ size = n + PadSize(k)
    BY <1>c, <2>1, <2>3
  <2>5. k + PadSize(k) = b.off + size
    BY <1>3, <2>1, <2>4, SMTT(30)
  <2> QED
    BY <2>3, <2>4, <2>5
<1>5. PICK m : m = b.off + size
  OBVIOUS
<1>6. m \in Nat /\ b.off <= m /\ m < e /\ b.rsiz - size = e - m /\ e - m \in Nat /\ e - m > 0 /\ Aligned(m)
      /\ b.off < m
  <2>1. b.off \in Nat /\ b.rsiz \in Nat /\ size \in Nat /\ size > 0 /\ b.rsiz >= 2 * size
    BY <1>3, <1>4, <1>a
  <2>2. Aligned(m)
    BY <1>4, <1>5
  <2>3. b.rsiz > size
    BY <2>1
  <2> QED
    <3>1. PICK o, r : o = b.off /\ r = b.rsiz
      OBVIOUS
    <3>2. o \in Nat /\ r \in Nat /\ r > size /\ m = o + size /\ e = o + r
      BY <1>2, <1>5, <2>1, <2>3, <3>1
    <3>3. m \in Nat /\ o <= m /\ m < e /\ r - size = e - m /\ e - m \in Nat /\ e - m > 0 /\ o < m
      BY <2>1, <3>2
    <3> QED
      BY <2>2, <3>1, <3>3
<1>7. rest = [off |-> m, rsiz |-> e - m] /\ rest.off = m /\ rest.rsiz = e - m /\ rest \in Block
  BY <1>d, <1>5, <1>6 DEF Block
<1>8. PICK p, d : p = [db EXCEPT !.pool[c] = rest] /\ d = WriteFB(p, m, e - m)
  OBVIOUS
<1>9. Repooled(db, p) /\ p.pool = [db.pool EXCEPT ![c] = rest]
  BY <1>1, <1>8 DEF Repooled, IsDB, Fields
<1>10. /\ IsDB(d) /\ d.seg = Covered(db.seg, m, e - m, FB(e - m)) /\ d.bucket = db.bucket
       /\ d.rnum = db.rnum /\ d.fsiz = db.fsiz /\ d.pool = [db.pool EXCEPT ![c] = rest]
  <2>1. /\ IsDB(d) /\ d.seg = Covered(p.seg, m, e - m, FB(e - m)) /\ d.bucket = p.bucket
        /\ d.rnum = p.rnum /\ d.fsiz = p.fsiz /\ d.pool = p.pool
    <3>1. IsDB(p)
      BY <1>9 DEF Repooled
    <3> QED
      <4>1. PICK k : k = e - m
        OBVIOUS
      <4>2. d = WriteFB(p, m, k)
        BY <1>8, <4>1
      <4> QED
        BY <3>1, <4>1, <4>2, WriteFBIs
  <2> QED
    BY <1>9, <2>1 DEF Repooled
<1>11. /\ d.pool \in Seq(Block) /\ Len(d.pool) = Len(db.pool) /\ d.pool[c] = rest
       /\ \A i \in 1 .. Len(db.pool) : i # c => d.pool[i] = db.pool[i]
  BY <1>1, <1>7, <1>10
<1>12. PICK a, s : a = b.off /\ s = FB(e - m)
  OBVIOUS
<1>13. IsSeg(s, Vs) /\ s.rsiz = e - m /\ s.magic = "fb"
  BY <1>6, <1>12, FBIs
<1>14. Laid(db.seg, db.fsiz, a, e, Vs) /\ a <= m /\ d.seg = Covered(db.seg, m, e - m, s)
       /\ a \in Nat /\ a < m
  BY <1>3, <1>6, <1>10, <1>12
<1>15. /\ Laid(d.seg, db.fsiz, a, m, Vs)
       /\ m \notin Beyond(db.seg, a, e) /\ Beyond(d.seg, a, m) = Beyond(db.seg, a, e) \cup {m}
       /\ d.seg[m] = s /\ \A o \in Beyond(db.seg, a, e) : d.seg[o] = db.seg[o]
  BY <1>6, <1>13, <1>14, HoleCut
<1>16. \A f : FreeIn(db.seg, db.fsiz, a, e, f) => FreeIn(d.seg, db.fsiz, a, m, f)
  BY <1>6, <1>13, <1>14, FreeCut
<1>17. FreeIn(d.seg, db.fsiz, a, m, rest)
  <2>1. e \in Beyond(d.seg, a, m) \cup {db.fsiz, a}
    <3>1. e \in Beyond(db.seg, a, e) \cup {db.fsiz}
      BY <1>14 DEF Laid
    <3> QED
      BY <1>15, <3>1
  <2>2. ASSUME NEW o \in Beyond(d.seg, a, m), m <= o, o < e
        PROVE  d.seg[o].magic = "fb"
    <3>1. CASE o = m
      BY <1>13, <1>15, <3>1
    <3>2. CASE o # m
      <4>1. o \in Beyond(db.seg, a, e)
        BY <1>15, <3>2
      <4>2. o \in Nat
        BY <1>14, <4>1 DEF Laid, Beyond
      <4> QED
        BY <1>3, <1>6, <1>14, <2>2, <4>1, <4>2 DEF Beyond
    <3> QED
      BY <3>1, <3>2
  <2>3. m + (e - m) = e
    BY <1>3, <1>6
  <2> QED
    BY <1>6, <1>7, <1>15, <2>1, <2>2, <2>3 DEF FreeIn
<1>18. Pooled(d.seg, d.fsiz, a, m, d.pool)
  <2>1. \A i \in 1 .. Len(d.pool) : FreeIn(d.seg, db.fsiz, a, m, d.pool[i])
    BY <1>3, <1>11, <1>12, <1>16, <1>17
  <2>2. ASSUME NEW i \in 1 .. Len(db.pool), i # c
        PROVE  Apart(db.pool[i], rest) /\ Apart(rest, db.pool[i])
    <3>1. PICK f : f = db.pool[i]
      OBVIOUS
    <3>2. Apart(f, b) /\ f \in Block
      BY <1>1, <1>3, <2>2, <3>1
    <3>3. f.off \in Nat /\ f.rsiz \in Nat
      BY <3>2, BlockIs
    <3>4. f.off + f.rsiz <= b.off \/ e <= f.off
      BY <1>2, <3>2 DEF Apart
    <3>5. f.off + f.rsiz <= m \/ m + (e - m) <= f.off
      BY <1>3, <1>6, <3>3, <3>4
    <3> QED
      BY <1>7, <3>1, <3>5 DEF Apart
  <2>3. \A i, j \in 1 .. Len(d.pool) : i # j => Apart(d.pool[i], d.pool[j])
    <3>1. \A i, j \in 1 .. Len(db.pool) : i # j => Apart(db.pool[i], db.pool[j])
      BY <1>1 DEF Pooled
    <3> QED
      BY <1>11, <2>2, <3>1
  <2> QED
    BY <1>10, <1>11, <2>1, <2>3 DEF Pooled
<1>19. \A o \in DOMAIN d.seg : d.seg[o].rsiz \in Nat \ {0}
  <2>1. \A o \in DOMAIN db.seg : db.seg[o].rsiz \in Nat \ {0}
    BY DEF Kept
  <2>2. \A o \in DOMAIN d.seg : d.seg[o] = s \/ (o \in DOMAIN db.seg /\ d.seg[o] = db.seg[o])
    BY <1>14 DEF Covered
  <2> QED
    BY <1>6, <1>13, <2>1, <2>2
<1>20. Table(d.seg, a, m) = Table(db.seg, a, e)
  <2>1. \A o \in Beyond(db.seg, a, e) : o \in Beyond(d.seg, a, m) /\ d.seg[o] = db.seg[o]
    BY <1>15
  <2>2. \A o \in Beyond(d.seg, a, m) : d.seg[o].magic # "fb" => o \in Beyond(db.seg, a, e) /\ d.seg[o] = db.seg[o]
    BY <1>13, <1>15
  <2> QED
    BY <2>1, <2>2, TableSame
<1>21. Kept(d, a, m, Vs) /\ Alike(db, db.fsiz, db.fsiz, d, a, m)
  BY <1>1, <1>3, <1>10, <1>11, <1>12, <1>14, <1>15, <1>18, <1>19, <1>20 DEF Kept, Alike
<1>22. g.off = a /\ g.rsiz = size /\ g.db = d /\ g.off + g.rsiz = m
  BY <1>5, <1>7, <1>8, <1>12, <1>b
<1> QED
  BY <1>4, <1>14, <1>21, <1>22 DEF Region, Offers

\* tchdbfbpsearch: a hole for n bytes, or the end of the file.
LEMMA SearchIs ==
  ASSUME NEW db, NEW Vs, Kept(db, db.fsiz, db.fsiz, Vs), NEW n \in Nat \ {0},
         NEW g, g = FbpSearch(db, n)
  PROVE  Region(g, n, Vs) /\ Offers(db, db.fsiz, db.fsiz, g)
<1>1. IsDB(db) /\ db.fsiz \in Nat /\ db.pool \in Seq(Block)
  BY KeptIs
<1>2. CASE db.pool = <<>>
  <2>1. g = [db |-> db, off |-> db.fsiz, rsiz |-> 0]
    BY <1>2 DEF FbpSearch
  <2>2. g.db = db /\ g.off = db.fsiz /\ g.rsiz = 0 /\ g.off + g.rsiz = db.fsiz
    BY <1>1, <2>1
  <2> QED
    BY <1>1, <2>2 DEF Region, Offers, Alike
<1>3. CASE db.pool # <<>>
  <2>1. PICK c : c = Fit(db.pool, n)
    OBVIOUS
  <2>2. c \in 0 .. Len(db.pool) /\ (c # 0 => db.pool[c].rsiz >= n)
    BY <1>1, <2>1, FitIs
  <2>3. CASE c = 0
    <3>1. g = Missed([db EXCEPT !.fbpmis = @ + 1])
      BY <1>3, <2>1, <2>3 DEF FbpSearch, Candidate
    <3> QED
      BY <3>1, MissedIs
  <2>4. CASE c # 0
    <3>1. c \in 1 .. Len(db.pool)
      BY <2>2, <2>4
    <3>2. PICK b : b = db.pool[c]
      OBVIOUS
    <3>3. g = Provided(db, c, b, n)
      BY <1>3, <2>1, <2>4, <3>2 DEF FbpSearch, Candidate
    <3>6. CASE TooLarge(b, n)
      BY <3>1, <3>2, <3>3, <3>6, ProvidedCut
    <3>7. CASE ~TooLarge(b, n)
      <4>1. g = [off |-> b.off, rsiz |-> b.rsiz, db |-> [db EXCEPT !.pool = RemoveAt(@, c)]]
        BY <3>3, <3>7 DEF Provided, TooLarge
      <4>2. n \in Nat /\ b.rsiz >= n
        BY <2>2, <2>4, <3>2
      <4> QED
        BY <3>1, <3>2, <4>1, <4>2, ProvidedWhole
    <3> QED
      BY <3>6, <3>7
  <2> QED
    BY <2>3, <2>4
<1> QED
  BY <1>2, <1>3

---------------------------------------------------------------------------
(* The free blocks behind a region *)

\* x is where the free blocks from o on end.
FreeTo(seg, fsiz, a, e, o, x) ==
  /\ x \in Beyond(seg, a, e) \cup {fsiz} /\ x \in Nat /\ o <= x
  /\ \A p \in Beyond(seg, a, e) : o <= p /\ p < x => seg[p].magic = "fb"

\* The walk over free blocks finds where they end.
LEMMA FreeEndIs ==
  ASSUME NEW db, NEW a, NEW e, NEW Vs, Kept(db, a, e, Vs)
  PROVE  FreeTo(db.seg, db.fsiz, a, e, e, FreeEnd(db, e))
<1> DEFINE seg == db.seg
<1> DEFINE fsiz == db.fsiz
<1> DEFINE IsEnd(end) == end = [o \in Nat |->
        IF o >= db.fsiz \/ o \notin DOMAIN db.seg \/ ~IsFB(db, o) THEN o
        ELSE end[o + db.seg[o].rsiz]]
<1> DEFINE stop == {o \in Nat : o >= db.fsiz \/ o \notin DOMAIN db.seg \/ ~IsFB(db, o)}
<1> DEFINE nx == [o \in Nat |-> IF o \in DOMAIN db.seg THEN o + db.seg[o].rsiz ELSE o]
<1>1. /\ Laid(seg, fsiz, a, e, Vs) /\ (a < e \/ a = fsiz) /\ fsiz \in Nat /\ a \in Nat /\ e \in Nat
      /\ a <= e /\ e <= fsiz
  BY KeptIs
<1>2. \A o \in DOMAIN seg : o \in Nat /\ o < fsiz /\ seg[o].rsiz \in Nat /\ seg[o].rsiz > 0
  <2>1. \A o \in DOMAIN seg : seg[o].rsiz \in Nat \ {0}
    BY DEF Kept
  <2>2. DOMAIN seg \subseteq 0 .. fsiz - 1
    BY <1>1 DEF Laid
  <2> QED
    BY <1>1, <2>1, <2>2
<1>3. Lessens(Nat, stop, nx, ToEnd(fsiz), fsiz + 1)
  <2>1. nx \in [Nat -> Nat]
    BY <1>2
  <2>2. ToEnd(fsiz) \in [Nat -> Nat] /\ \A o \in Nat : ToEnd(fsiz)[o] < fsiz + 1
    <3> HIDE DEF fsiz
    <3> QED
      BY <1>1 DEF ToEnd
  <2>3. ASSUME NEW o \in Nat, o \notin stop
        PROVE  ToEnd(fsiz)[nx[o]] < ToEnd(fsiz)[o]
    <3>1. o \in DOMAIN seg /\ nx[o] = o + seg[o].rsiz
      BY <2>3
    <3>2. PICK y : y = nx[o]
      OBVIOUS
    <3>3. y \in Nat /\ o < y /\ o < fsiz
      <4> HIDE DEF seg, fsiz, nx
      <4> QED
        BY <1>2, <3>1, <3>2
    <3> HIDE DEF seg, fsiz, nx
    <3> QED
      BY <1>1, <3>2, <3>3 DEF ToEnd
  <2> HIDE DEF nx, stop, fsiz
  <2> QED
    BY <1>1, <2>1, <2>2, <2>3 DEF Lessens
<1>4. PICK f : Walks(Nat, stop, nx, f)
  <2> HIDE DEF nx, stop, fsiz
  <2> QED
    BY <1>3, WalkEnds
<1>5. f \in [Nat -> Nat] /\ \A o \in Nat : f[o] = IF o \in stop THEN o ELSE f[nx[o]]
  <2> HIDE DEF nx, stop
  <2> QED
    BY <1>4 DEF Walks
<1>6. \A o \in Nat : f[o] = IF o >= db.fsiz \/ o \notin DOMAIN db.seg \/ ~IsFB(db, o) THEN o
                            ELSE f[o + db.seg[o].rsiz]
  BY <1>5
<1>7. IsEnd(f)
  <2>1. f = [o \in Nat |-> f[o]]
    BY <1>5
  <2> QED
    BY <1>6, <2>1, Zenon
<1>8. PICK end : IsEnd(end) /\ end = CHOOSE h : IsEnd(h)
  <2> HIDE DEF IsEnd
  <2> QED
    BY <1>7, Zenon
<1>9. FreeEnd(db, e) = end[e]
  BY <1>8 DEF FreeEnd
<1>10. \A o \in Nat : end[o] = IF o >= db.fsiz \/ o \notin DOMAIN db.seg \/ ~IsFB(db, o) THEN o
                               ELSE end[o + db.seg[o].rsiz]
  BY <1>8, Zenon
<1> DEFINE P == {o \in Nat : o \in Beyond(seg, a, e) \cup {fsiz} /\ e <= o => FreeTo(seg, fsiz, a, e, o, end[o])}
<1>11. ASSUME NEW o \in Nat, o \in stop
       PROVE  o \in P
  <2>1. end[o] = o
    BY <1>10, <1>11
  <2>2. \A p \in Beyond(seg, a, e) : p \in Nat
    BY <1>2 DEF Beyond
  <2>3. ASSUME o \in Beyond(seg, a, e) \cup {fsiz}
        PROVE  FreeTo(seg, fsiz, a, e, o, o)
    BY <2>2, <2>3 DEF FreeTo
  <2> HIDE DEF seg, fsiz
  <2> QED
    BY <2>1, <2>3
<1>12. ASSUME NEW o \in Nat, o \notin stop, nx[o] \in P
       PROVE  o \in P
  <2> SUFFICES ASSUME o \in Beyond(seg, a, e) \cup {fsiz}, e <= o
               PROVE  FreeTo(seg, fsiz, a, e, o, end[o])
    OBVIOUS
  <2>1. o \in DOMAIN seg /\ o < fsiz /\ IsFB(db, o)
    BY <1>1, <1>12
  <2>2. PICK y : y = o + seg[o].rsiz
    OBVIOUS
  <2>3. y = nx[o] /\ y \in Nat /\ o < y /\ end[o] = end[y] /\ y \in P
    <3>1. y = nx[o] /\ end[o] = end[y]
      BY <1>10, <1>12, <2>1, <2>2
    <3>2. y \in Nat /\ o < y
      <4> HIDE DEF seg, fsiz
      <4> QED
        BY <1>2, <2>1, <2>2
    <3> HIDE DEF seg, fsiz, nx, P
    <3> QED
      BY <1>12, <3>1, <3>2
  <2>4. o \in Beyond(seg, a, e)
    <3> HIDE DEF seg, fsiz
    <3> QED
      BY <1>1, <2>1
  <2>5. y \in Beyond(seg, a, e) \cup {fsiz}
    <3>1. y \in Beyond(seg, a, e) \cup {fsiz, a}
      <4> HIDE DEF seg, fsiz
      <4> QED
        BY <1>1, <2>2, <2>4 DEF Laid
    <3>2. y # a
      <4> HIDE DEF seg, fsiz
      <4> QED
        BY <1>1, <2>3
    <3> HIDE DEF seg, fsiz
    <3> QED
      BY <3>1, <3>2
  <2>6. e <= y
    <3> HIDE DEF seg, fsiz
    <3> QED
      BY <1>1, <2>3
  <2>7. PICK x : x = end[o]
    OBVIOUS
  <2>8. FreeTo(seg, fsiz, a, e, y, x)
    <3> HIDE DEF seg, fsiz, nx
    <3> QED
      BY <2>3, <2>5, <2>6, <2>7
  <2>9. x \in Beyond(seg, a, e) \cup {fsiz} /\ x \in Nat /\ o <= x
    <3> HIDE DEF seg, fsiz, nx
    <3> QED
      BY <2>3, <2>8 DEF FreeTo
  <2>10. ASSUME NEW p \in Beyond(seg, a, e), o <= p, p < x
         PROVE  seg[p].magic = "fb"
    <3>0. p \in Nat
      BY <1>2 DEF Beyond
    <3>1. CASE p = o
      BY <2>1, <3>1 DEF IsFB
    <3>2. CASE p # o
      <4>1. o < p
        BY <2>10, <3>0, <3>2
      <4>2. y <= p
        <5> HIDE DEF seg, fsiz
        <5> QED
          BY <1>1, <2>2, <2>4, <4>1 DEF Laid
      <4> HIDE DEF seg, fsiz
      <4> QED
        BY <2>8, <2>10, <4>2 DEF FreeTo
    <3> QED
      BY <3>1, <3>2
  <2> HIDE DEF seg, fsiz, nx
  <2> QED
    BY <2>7, <2>9, <2>10 DEF FreeTo
<1>13. \A o \in Nat : o \in P
  <2> HIDE DEF P, nx, stop, seg, fsiz
  <2> QED
    BY <1>3, <1>11, <1>12, LessensAll
<1>14. e \in Beyond(seg, a, e) \cup {fsiz}
  <2> HIDE DEF seg, fsiz
  <2> QED
    BY <1>1 DEF Laid
<1>15. FreeTo(seg, fsiz, a, e, e, end[e])
  <2>1. e <= e
    BY <1>1
  <2> HIDE DEF seg, fsiz
  <2> QED
    BY <1>1, <1>13, <1>14, <2>1
<1> QED
  BY <1>9, <1>15

---------------------------------------------------------------------------
(* A region takes in what follows it *)

\* The pool keeps the blocks outside.
LEMMA OutsideIs ==
  ASSUME NEW db, NEW a, NEW e, NEW Vs, Kept(db, a, e, Vs), a < e,
         NEW x, FreeTo(db.seg, db.fsiz, a, e, e, x),
         NEW d, Repooled(db, d), d.pool = Outside(db.pool, a, x)
  PROVE  Kept(d, a, x, Vs) /\ Alike(db, a, e, d, a, x)
<1>1. /\ IsDB(db) /\ Laid(db.seg, db.fsiz, a, e, Vs) /\ Pooled(db.seg, db.fsiz, a, e, db.pool)
      /\ Len(db.pool) <= Room /\ db.pool \in Seq(Block) /\ Len(db.pool) \in Nat
      /\ a \in Nat /\ e \in Nat /\ db.fsiz \in Nat
  BY KeptIs
<1>2. x \in Beyond(db.seg, a, e) \cup {db.fsiz} /\ x \in Nat /\ e <= x
  BY DEF FreeTo
<1>3. PICK S : S = {b \in Range(db.pool) : b.off < a \/ b.off > x}
  OBVIOUS
<1>4. /\ d.pool \in Seq(Block) /\ Drawn(db.pool, d.pool)
      /\ \A i \in 1 .. Len(d.pool) : d.pool[i] \in S
  <2>1. d.pool = Selected(db.pool, S)
    BY <1>3 DEF Outside
  <2> QED
    BY <1>1, <2>1, SelectedDrawn
<1>5. Pooled(db.seg, db.fsiz, a, e, d.pool) /\ Len(d.pool) <= Len(db.pool)
  BY <1>1, <1>4, PoolDrawn, DrawnKeeps
<1>6. ASSUME NEW i \in 1 .. Len(d.pool)
      PROVE  FreeIn(db.seg, db.fsiz, a, x, d.pool[i])
  <2>1. PICK b : b = d.pool[i]
    OBVIOUS
  <2>2. FreeIn(db.seg, db.fsiz, a, e, b) /\ b \in S
    BY <1>4, <1>5, <2>1 DEF Pooled
  <2>3. b.off \in Nat /\ (b.off < a \/ b.off > x)
    BY <1>3, <2>2, BlockIs DEF FreeIn
  <2>4. b.off < a \/ b.off >= x
    BY <1>2, <2>3
  <2>5. FreeIn(db.seg, db.fsiz, a, x, b)
    BY <1>1, <1>2, <2>2, <2>4, FreeGrown
  <2> QED
    BY <2>1, <2>5
<1>7. Pooled(db.seg, db.fsiz, a, x, d.pool)
  BY <1>5, <1>6 DEF Pooled
<1>8. Laid(db.seg, db.fsiz, a, x, Vs) /\ Beyond(db.seg, a, x) = {o \in Beyond(db.seg, a, e) : o < a \/ o >= x}
  BY <1>1, <1>2, HoleGrown
<1>9. Table(db.seg, a, x) = Table(db.seg, a, e)
  <2>1. ASSUME NEW o \in Beyond(db.seg, a, e), db.seg[o].magic # "fb"
        PROVE  o \in Beyond(db.seg, a, x)
    <3>1. o \in Nat /\ (o < a \/ o >= e)
      BY <1>1 DEF Beyond, Laid
    <3>2. ~(e <= o /\ o < x)
      BY <2>1 DEF FreeTo
    <3>3. o < a \/ o >= x
      BY <1>1, <1>2, <3>1, <3>2
    <3> QED
      BY <1>8, <3>3
  <2>2. \A o \in Beyond(db.seg, a, x) : o \in Beyond(db.seg, a, e)
    BY <1>8
  <2> QED
    BY <2>1, <2>2, TableSame
<1>10. Len(d.pool) <= Room
  <2>1. Len(d.pool) \in Nat
    BY <1>4
  <2> QED
    BY <1>1, <1>5, <2>1, RoomIs
<1>11. a < x
  BY <1>1, <1>2
<1> QED
  BY <1>7, <1>8, <1>9, <1>10, <1>11 DEF Kept, Repooled, Alike

\* A hole larger than needed is cut.
LEMMA ExtendedIs ==
  ASSUME NEW db, NEW a, NEW e, NEW Vs, Kept(db, a, e, Vs), a < e, NEW n \in Nat \ {0}, e - a >= n,
         NEW g, g = Extended(db, a, e, n)
  PROVE  Region(g, n, Vs) /\ Offers(db, a, e, g)
<1>1. a \in Nat /\ e \in Nat
  BY KeptIs
<1>2. PICK size : size = n + PadSize(a + n)
  OBVIOUS
<1>3. size \in Nat /\ size >= n /\ size > 0 /\ Aligned(a + size)
  <2>1. PICK k : k = a + n
    OBVIOUS
  <2>2. k \in Nat
    BY <1>1, <2>1
  <2>3. PadSize(k) \in 0 .. Align - 1 /\ Aligned(k + PadSize(k))
    BY <2>2, Padded
  <2>4. PadSize(k) \in Nat /\ size = n + PadSize(k)
    BY <1>2, <2>1, <2>3
  <2>5. k + PadSize(k) = a + size
    BY <1>1, <2>1, <2>4
  <2> QED
    BY <2>3, <2>4, <2>5
<1>4. CASE e - a > 2 * n /\ e - a >= 2 * size
  <2>1. PICK m, r : m = a + size /\ r = e - a - size
    OBVIOUS
  <2>2. m \in Nat /\ a <= m /\ m < e /\ Aligned(m) /\ r = e - m /\ m > a /\ a + size = m
    BY <1>1, <1>3, <1>4, <2>1
  <2>3. PICK d : d = FbpInsert(WriteFB(db, m, r), m, r)
    OBVIOUS
  <2>4. g = [db |-> d, off |-> a, rsiz |-> size]
    BY <1>2, <1>4, <2>1, <2>3 DEF Extended
  <2>5. Kept(d, a, m, Vs) /\ Alike(db, a, e, d, a, m)
    BY <2>2, <2>3, GivenBack
  <2>6. g.db = d /\ g.off = a /\ g.rsiz = size
    BY <2>4
  <2> QED
    BY <1>1, <1>3, <2>2, <2>5, <2>6 DEF Region, Offers
<1>5. CASE ~(e - a > 2 * n /\ e - a >= 2 * size)
  <2>1. g = [db |-> db, off |-> a, rsiz |-> e - a]
    BY <1>2, <1>5 DEF Extended
  <2>2. g.db = db /\ g.off = a /\ g.rsiz = e - a /\ a + (e - a) = e /\ e - a \in Nat /\ e - a # 0
    BY <1>1, <2>1
  <2> QED
    BY <1>1, <2>2 DEF Region, Offers, Alike
<1> QED
  BY <1>4, <1>5

\* What becomes of a region too small: it still may be.
LEMMA SpliceIs ==
  ASSUME NEW db, NEW a, NEW r \in Nat \ {0}, NEW e, e = a + r, NEW Vs, Kept(db, a, e, Vs), NEW n \in Nat \ {0},
         NEW g, g = FbpSplice(db, a, r, n)
  PROVE  (g.rsiz >= n => Region(g, n, Vs)) /\ Offers(db, a, e, g)
         /\ g.rsiz \in Nat \ {0} /\ g.off = a /\ Kept(g.db, g.off, g.off + g.rsiz, Vs)
<1>1. a \in Nat /\ e \in Nat /\ a < e /\ IsDB(db)
  BY KeptIs
<1>2. PICK x : x = FreeEnd(db, e)
  OBVIOUS
<1>3. FreeTo(db.seg, db.fsiz, a, e, e, x)
  BY <1>2, FreeEndIs
<1>4. x \in Nat /\ e <= x
  BY <1>3 DEF FreeTo
<1>5. PICK moved : moved = [db EXCEPT !.iter = Past(@, e, x), !.dfcur = Past(@, e, x)]
  OBVIOUS
<1>6. Repooled(db, moved) /\ moved.pool = db.pool
  BY <1>1, <1>5 DEF Repooled, IsDB, Fields
<1>7. Kept(moved, a, e, Vs) /\ Alike(db, a, e, moved, a, e)
  BY <1>6, KeptIs, RepooledKept
<1>8. g = SpliceTo(db, a, r, x, n)
  BY <1>2 DEF FbpSplice
<1>9. CASE x - a < n
  <2>1. g = [db |-> moved, off |-> a, rsiz |-> r]
    BY <1>5, <1>8, <1>9 DEF SpliceTo
  <2>2. g.db = moved /\ g.off = a /\ g.rsiz = r /\ g.off + g.rsiz = e
    BY <2>1
  <2>3. ~(g.rsiz >= n)
    BY <1>1, <1>4, <1>9, <2>2
  <2> QED
    BY <1>1, <1>7, <2>2, <2>3 DEF Offers
<1>10. CASE ~(x - a < n)
  <2>1. PICK d : d = [moved EXCEPT !.pool = Outside(@, a, x)]
    OBVIOUS
  <2>2. Repooled(db, d) /\ d.pool = Outside(db.pool, a, x)
    BY <1>6, <2>1 DEF Repooled, IsDB, Fields
  <2>3. Kept(d, a, x, Vs) /\ Alike(db, a, e, d, a, x)
    BY <1>1, <1>3, <2>2, OutsideIs
  <2>4. g = Extended(d, a, x, n)
    BY <1>5, <1>8, <1>10, <2>1 DEF SpliceTo
  <2>5. a < x /\ x - a >= n
    BY <1>1, <1>4, <1>10
  <2>6. Region(g, n, Vs) /\ Offers(d, a, x, g)
    BY <2>3, <2>4, <2>5, ExtendedIs
  <2>7. g.off = a
    BY <2>4 DEF Extended
  <2>8. g.rsiz \in Nat \ {0}
    <3>1. CASE g.rsiz = 0
      <4>1. g.off = g.db.fsiz /\ a < g.db.fsiz
        <5>1. g.db.fsiz = d.fsiz /\ d.fsiz = db.fsiz
          BY <2>3, <2>6 DEF Offers, Alike
        <5>2. x <= db.fsiz
          BY <2>3, KeptIs, <5>1
        <5>3. db.fsiz \in Nat
          BY KeptIs
        <5> QED
          BY <1>1, <1>4, <2>5, <2>6, <3>1, <5>1, <5>2, <5>3 DEF Region
      <4> QED
        BY <1>1, <2>7, <4>1
    <3> QED
      BY <2>6, <3>1 DEF Region
  <2> QED
    BY <2>3, <2>6, <2>7, <2>8, AlikeTrans DEF Offers, Region
<1> QED
  BY <1>9, <1>10

---------------------------------------------------------------------------
(* A record is written *)

\* A region that is still too small is given back for another.
LEMMA InsteadIs ==
  ASSUME NEW g, NEW Vs, NEW n \in Nat \ {0}, g.rsiz \in Nat \ {0}, Kept(g.db, g.off, g.off + g.rsiz, Vs),
         g.rsiz >= n => Region(g, n, Vs), NEW h, h = Instead(g, n)
  PROVE  Region(h, n, Vs) /\ Offers(g.db, g.off, g.off + g.rsiz, h)
<1>1. PICK a, r, e, db : a = g.off /\ r = g.rsiz /\ e = g.off + g.rsiz /\ db = g.db
  OBVIOUS
<1>2. Kept(db, a, e, Vs) /\ a \in Nat /\ e \in Nat /\ Aligned(a)
  BY <1>1, KeptIs
<1>3. r \in Nat /\ r > 0 /\ e = a + r /\ r = e - a /\ a < e /\ a <= a
  BY <1>1, <1>2
<1>4. CASE n <= g.rsiz
  <2>1. h = g /\ g.rsiz >= n
    BY <1>4 DEF Instead
  <2> QED
    BY <2>1 DEF Offers, Alike
<1>5. CASE ~(n <= g.rsiz)
  <2>1. PICK d : d = FbpInsert(WriteFB(db, a, r), a, r)
    OBVIOUS
  <2>2. Kept(d, d.fsiz, d.fsiz, Vs) /\ Alike(db, a, e, d, d.fsiz, d.fsiz)
    BY <1>2, <1>3, <2>1, GivenBack
  <2>3. h = FbpSearch(d, n)
    BY <1>1, <1>5, <2>1 DEF Instead
  <2>4. Region(h, n, Vs) /\ Offers(d, d.fsiz, d.fsiz, h)
    BY <2>2, <2>3, SearchIs
  <2> QED
    BY <1>1, <2>2, <2>4, AlikeTrans DEF Offers
<1> QED
  BY <1>4, <1>5

\* The region that tchdbwriterec writes to.
Suited(db, a, r, n) ==
  IF r = 0 \/ n <= r THEN [db |-> db, off |-> a, rsiz |-> r] ELSE Instead(FbpSplice(db, a, r, n), n)

\* It can hold the record, or is the end of the file.
LEMMA SuitedIs ==
  ASSUME NEW db, NEW a, NEW r \in Nat, NEW e, e = a + r, NEW Vs, Kept(db, a, e, Vs), r = 0 => a = db.fsiz,
         NEW n \in Nat \ {0}, NEW g, g = Suited(db, a, r, n)
  PROVE  Region(g, n, Vs) /\ Offers(db, a, e, g)
<1>1. a \in Nat /\ e \in Nat
  BY KeptIs
<1>2. CASE r = 0 \/ n <= r
  <2>1. g = [db |-> db, off |-> a, rsiz |-> r]
    BY <1>2 DEF Suited
  <2>2. g.db = db /\ g.off = a /\ g.rsiz = r /\ g.off + g.rsiz = e
    BY <2>1
  <2>3. r # 0 => r >= n
    BY <1>2
  <2> QED
    BY <1>1, <2>2, <2>3 DEF Region, Offers, Alike
<1>3. CASE ~(r = 0 \/ n <= r)
  <2>1. PICK f : f = FbpSplice(db, a, r, n)
    OBVIOUS
  <2>2. r \in Nat \ {0} /\ g = Instead(f, n)
    BY <1>3, <2>1 DEF Suited
  <2>3. /\ f.rsiz >= n => Region(f, n, Vs)
        /\ Offers(db, a, e, f) /\ f.rsiz \in Nat \ {0} /\ Kept(f.db, f.off, f.off + f.rsiz, Vs)
    BY <2>1, <2>2, SpliceIs
  <2>4. Region(g, n, Vs) /\ Offers(f.db, f.off, f.off + f.rsiz, g)
    BY <2>2, <2>3, InsteadIs
  <2> QED
    BY <2>3, <2>4, AlikeTrans DEF Offers
<1> QED
  BY <1>2, <1>3

\* The records of a file without a hole.
Index(db) == Table(db.seg, db.fsiz, db.fsiz)

\* A file without a hole and its pool.
Clean(db, Vs) == Kept(db, db.fsiz, db.fsiz, Vs)

\* One more record.
Adding(T, o, s) == [p \in DOMAIN T \cup {o} |-> IF p = o THEN s ELSE T[p]]

\* A record.
IsRecord(s, Vs) == IsSeg(s, Vs) /\ s.magic # "fb"

\* A record added to the table.
LEMMA AddedTable ==
  ASSUME NEW seg, NEW a, NEW e, NEW new, NEW x, NEW y, NEW s, s.magic # "fb", NEW o,
         o \notin Beyond(seg, a, e), Beyond(new, x, y) = Beyond(seg, a, e) \cup {o}, new[o] = s,
         \A p \in Beyond(seg, a, e) : new[p] = seg[p]
  PROVE  Table(new, x, y) = Adding(Table(seg, a, e), o, s) /\ o \notin DOMAIN Table(seg, a, e)
<1>1. Recs(new, x, y) = Recs(seg, a, e) \cup {o} /\ o \notin Recs(seg, a, e)
  BY DEF Recs
<1>2. \A p \in Recs(seg, a, e) : p # o /\ new[p] = seg[p] /\ Table(seg, a, e)[p] = seg[p]
  BY <1>1 DEF Recs, Table
<1>3. PICK T : T = Table(seg, a, e)
  OBVIOUS
<1>4. DOMAIN T = Recs(seg, a, e)
  BY <1>3 DEF Table
<1>5. \A p \in Recs(seg, a, e) \cup {o} : new[p] = IF p = o THEN s ELSE T[p]
  BY <1>2, <1>3
<1>6. Table(new, x, y) = [p \in Recs(seg, a, e) \cup {o} |-> IF p = o THEN s ELSE T[p]]
  BY <1>1, <1>5 DEF Table
<1> QED
  BY <1>1, <1>3, <1>4, <1>6 DEF Adding

\* A record fills the hole.
LEMMA HoleFilled ==
  ASSUME NEW db, NEW a, NEW e, NEW Vs, Kept(db, a, e, Vs), a < e,
         NEW s, IsRecord(s, Vs), NEW n, n = e - a, s.rsiz = n, NEW d, d = WriteSeg(db, a, n, s)
  PROVE  /\ Clean(d, Vs) /\ d.bucket = db.bucket /\ d.rnum = db.rnum
         /\ Index(d) = Adding(Table(db.seg, a, e), a, s) /\ a \notin DOMAIN Table(db.seg, a, e)
<1>1. /\ IsDB(db) /\ Laid(db.seg, db.fsiz, a, e, Vs) /\ Pooled(db.seg, db.fsiz, a, e, db.pool)
      /\ Len(db.pool) <= Room /\ a \in Nat /\ e \in Nat /\ Aligned(a)
  BY KeptIs
<1>2. /\ IsDB(d) /\ d.seg = Covered(db.seg, a, n, s) /\ d.bucket = db.bucket
      /\ d.rnum = db.rnum /\ d.fsiz = db.fsiz /\ d.pool = db.pool
  BY <1>1, WriteSegIs
<1>3. IsSeg(s, Vs) /\ s.magic # "fb" /\ s.rsiz \in Nat \ {0}
  BY SegIs DEF IsRecord
<1>4. d.seg = Covered(db.seg, a, e - a, s) /\ a <= a /\ s.rsiz = e - a
  BY <1>1, <1>2
<1>5. /\ Laid(d.seg, db.fsiz, a, a, Vs)
      /\ a \notin Beyond(db.seg, a, e) /\ Beyond(d.seg, a, a) = Beyond(db.seg, a, e) \cup {a}
      /\ d.seg[a] = s /\ \A o \in Beyond(db.seg, a, e) : d.seg[o] = db.seg[o]
  BY <1>1, <1>3, <1>4, HoleCut
<1>6. \A b : FreeIn(db.seg, db.fsiz, a, e, b) => FreeIn(d.seg, db.fsiz, a, a, b)
  BY <1>1, <1>3, <1>4, FreeCut
<1>7. Pooled(d.seg, d.fsiz, a, a, d.pool)
  BY <1>1, <1>2, <1>6 DEF Pooled
<1>8. \A o \in DOMAIN d.seg : d.seg[o].rsiz \in Nat \ {0}
  <2>1. \A o \in DOMAIN db.seg : db.seg[o].rsiz \in Nat \ {0}
    BY DEF Kept
  <2>2. \A o \in DOMAIN d.seg : d.seg[o] = s \/ (o \in DOMAIN db.seg /\ d.seg[o] = db.seg[o])
    BY <1>4 DEF Covered
  <2> QED
    BY <1>3, <2>1, <2>2
<1>9. /\ Kept(d, d.fsiz, d.fsiz, Vs)
      /\ Table(d.seg, d.fsiz, d.fsiz) = Table(d.seg, a, a)
  BY <1>1, <1>2, <1>5, <1>7, <1>8, Closing
<1>10. Table(d.seg, a, a) = Adding(Table(db.seg, a, e), a, s) /\ a \notin DOMAIN Table(db.seg, a, e)
  BY <1>3, <1>5, AddedTable
<1> QED
  BY <1>2, <1>9, <1>10 DEF Clean, Index

\* f is n bytes behind a.
Grows(a, n, f) == f = a + n

\* A record is appended to the file.
LEMMA FileAppended ==
  ASSUME NEW db, NEW Vs, Clean(db, Vs), NEW a, a = db.fsiz,
         NEW s, IsRecord(s, Vs), NEW n, n = s.rsiz, NEW f, Grows(a, n, f), Aligned(f),
         NEW d, d = SetFsiz(WriteSeg(db, a, n, s), f)
  PROVE  /\ Clean(d, Vs) /\ d.bucket = db.bucket /\ d.rnum = db.rnum
         /\ Index(d) = Adding(Index(db), a, s) /\ a \notin DOMAIN Index(db)
<1>1. /\ IsDB(db) /\ Laid(db.seg, a, a, a, Vs) /\ Pooled(db.seg, a, a, a, db.pool)
      /\ Len(db.pool) <= Room /\ a \in Nat
  BY KeptIs DEF Clean
<1>2. PICK w : w = WriteSeg(db, a, n, s)
  OBVIOUS
<1>3. /\ IsDB(w) /\ w.seg = Covered(db.seg, a, n, s) /\ w.bucket = db.bucket
      /\ w.rnum = db.rnum /\ w.fsiz = db.fsiz /\ w.pool = db.pool
  BY <1>1, <1>2, WriteSegIs
<1>4. /\ IsDB(d) /\ d.seg = Covered(db.seg, a, n, s) /\ d.bucket = db.bucket
      /\ d.rnum = db.rnum /\ d.fsiz = f /\ d.pool = db.pool
  BY <1>2, <1>3, SetFsizIs
<1>5. IsSeg(s, Vs) /\ s.magic # "fb" /\ s.rsiz \in Nat \ {0}
  BY SegIs DEF IsRecord
<1>6. Appended(db.seg, a, s, d.seg, f)
  BY <1>4 DEF Appended, Grows
<1>7. /\ Laid(d.seg, f, f, f, Vs) /\ a \notin DOMAIN db.seg /\ DOMAIN d.seg = DOMAIN db.seg \cup {a}
      /\ d.seg[a] = s /\ \A o \in DOMAIN db.seg : d.seg[o] = db.seg[o]
  <2>1. PICK seg, new : seg = db.seg /\ new = d.seg
    OBVIOUS
  <2>2. Laid(seg, a, a, a, Vs) /\ Appended(seg, a, s, new, f)
    BY <1>1, <1>6, <2>1
  <2>3. /\ Laid(new, f, f, f, Vs) /\ a \notin DOMAIN seg /\ DOMAIN new = DOMAIN seg \cup {a}
        /\ new[a] = s /\ \A o \in DOMAIN seg : new[o] = seg[o]
    <3>1. HasGrown(seg, a, s, new, f, Vs)
      BY <1>5, <2>2, FileGrown
    <3> QED
      BY <3>1 DEF HasGrown
  <2> QED
    BY <2>1, <2>3
<1>8. \A b : FreeIn(db.seg, a, a, a, b) => FreeIn(d.seg, f, f, f, b)
  BY <1>1, <1>5, <1>6, FreeAppended
<1>9. Pooled(d.seg, f, f, f, d.pool)
  BY <1>1, <1>4, <1>8 DEF Pooled
<1>10. \A o \in DOMAIN d.seg : d.seg[o].rsiz \in Nat \ {0}
  <2>1. \A o \in DOMAIN db.seg : db.seg[o].rsiz \in Nat \ {0}
    BY DEF Clean, Kept
  <2> QED
    BY <1>5, <1>7, <2>1
<1>11. Clean(d, Vs)
  BY <1>1, <1>4, <1>7, <1>9, <1>10 DEF Clean, Kept
<1>12. Beyond(db.seg, a, a) = DOMAIN db.seg /\ Beyond(d.seg, f, f) = DOMAIN d.seg
  BY <1>1, <1>7, NoHole
<1>13. /\ Table(d.seg, f, f) = Adding(Table(db.seg, a, a), a, s)
       /\ a \notin DOMAIN Table(db.seg, a, a)
  BY <1>5, <1>7, <1>12, AddedTable
<1> QED
  BY <1>4, <1>11, <1>13 DEF Index

---------------------------------------------------------------------------
(* A pointer is set *)

\* Records of which one has another child.
Pointed(T, ent, x) ==
  IF ent.side = "bucket" THEN T
  ELSE IF ent.side = "left" THEN [T EXCEPT ![ent.off].left = x]
  ELSE [T EXCEPT ![ent.off].right = x]

Headed(bucket, k, ent, x) == IF ent.side = "bucket" THEN [bucket EXCEPT ![BucketOf[k]] = x] ELSE bucket

\* An entry that there is.
IsEntry(ent, T) == ent.side = "bucket" \/ (ent.side \in Sides /\ ent.off \in DOMAIN T)

\* What a write of a pointer makes of the object.
LEMMA SetEntryIs ==
  ASSUME NEW db, IsDB(db), NEW k, NEW ent, NEW x, NEW d, d = SetEntry(db, k, ent, x)
  PROVE  /\ IsDB(d) /\ d.seg = Pointed(db.seg, ent, x) /\ d.bucket = Headed(db.bucket, k, ent, x)
         /\ d.rnum = db.rnum /\ d.fsiz = db.fsiz /\ d.pool = db.pool
<1>1. PICK p : p = Pointing(db, k, ent, x)
  OBVIOUS
<1>2. /\ IsDB(p) /\ p.seg = Pointed(db.seg, ent, x) /\ p.bucket = Headed(db.bucket, k, ent, x)
      /\ p.rnum = db.rnum /\ p.fsiz = db.fsiz /\ p.pool = db.pool
  <2>1. CASE ent.side = "bucket"
    BY <1>1, <2>1 DEF Pointing, Pointed, Headed, IsDB, Fields
  <2>2. CASE ent.side # "bucket" /\ ent.side = "left"
    BY <1>1, <2>2 DEF Pointing, Pointed, Headed, IsDB, Fields
  <2>3. CASE ent.side # "bucket" /\ ent.side # "left"
    BY <1>1, <2>3 DEF Pointing, Pointed, Headed, IsDB, Fields
  <2> QED
    BY <2>1, <2>2, <2>3
<1>3. PICK img : img = Pointing(Left(db), k, ent, x)
  OBVIOUS
<1>4. d = IF Traced THEN [p EXCEPT !.past = Append(db.past, img)] ELSE p
  BY <1>1, <1>3 DEF SetEntry, Wrote
<1> QED
  BY <1>2, <1>4 DEF IsDB, Fields

\* Segments that change, but keep their size and what they are.
Retouches(seg, new, Vs) ==
  /\ DOMAIN new = DOMAIN seg
  /\ \A o \in DOMAIN seg :
       /\ new[o].rsiz = seg[o].rsiz /\ new[o].magic = seg[o].magic
       /\ IsSeg(seg[o], Vs) => IsSeg(new[o], Vs)

\* They follow each other as before.
LEMMA Retouched ==
  ASSUME NEW seg, NEW new, NEW Vs, Retouches(seg, new, Vs), NEW fsiz, NEW a, NEW e
  PROVE  /\ Laid(seg, fsiz, a, e, Vs) => Laid(new, fsiz, a, e, Vs)
         /\ \A b : FreeIn(seg, fsiz, a, e, b) => FreeIn(new, fsiz, a, e, b)
         /\ Recs(new, a, e) = Recs(seg, a, e)
<1>1. Beyond(new, a, e) = Beyond(seg, a, e) /\ \A o \in Beyond(seg, a, e) : o \in DOMAIN seg
  BY DEF Beyond, Retouches
<1>2. \A o \in DOMAIN seg : /\ new[o].rsiz = seg[o].rsiz /\ new[o].magic = seg[o].magic
                            /\ IsSeg(seg[o], Vs) => IsSeg(new[o], Vs)
  BY DEF Retouches
<1>3. Laid(seg, fsiz, a, e, Vs) => Laid(new, fsiz, a, e, Vs)
  BY <1>1, <1>2 DEF Laid, Retouches
<1>4. \A b : FreeIn(seg, fsiz, a, e, b) => FreeIn(new, fsiz, a, e, b)
  BY <1>1, <1>2 DEF FreeIn
<1>5. Recs(new, a, e) = Recs(seg, a, e)
  BY <1>1, <1>2 DEF Recs
<1> QED
  BY <1>3, <1>4, <1>5

\* Another child of a record.
LEMMA PointedIs ==
  ASSUME NEW T, NEW ent, NEW x, IsEntry(ent, T)
  PROVE  /\ DOMAIN Pointed(T, ent, x) = DOMAIN T
         /\ \A o \in DOMAIN T : o # ent.off \/ ent.side = "bucket" => Pointed(T, ent, x)[o] = T[o]
         /\ ent.side = "left" => Pointed(T, ent, x)[ent.off] = [T[ent.off] EXCEPT !.left = x]
         /\ ent.side = "right" => Pointed(T, ent, x)[ent.off] = [T[ent.off] EXCEPT !.right = x]
         /\ \A o \in DOMAIN T : ent.side \in {"bucket", "left", "right"}
<1>1. ent.side \in {"bucket", "left", "right"}
  BY DEF IsEntry, Sides
<1>2. CASE ent.side = "bucket"
  BY <1>2 DEF Pointed
<1>3. CASE ent.side = "left"
  <2>1. ent.off \in DOMAIN T
    BY <1>3 DEF IsEntry
  <2> QED
    BY <1>3, <2>1 DEF Pointed
<1>4. CASE ent.side = "right"
  <2>1. ent.off \in DOMAIN T
    BY <1>4 DEF IsEntry
  <2> QED
    BY <1>4, <2>1 DEF Pointed
<1> QED
  BY <1>1, <1>2, <1>3, <1>4

\* A record with another child.
LEMMA ChildSet ==
  ASSUME NEW s, NEW Vs, IsRecord(s, Vs), NEW x \in Nat, NEW t,
         t = [s EXCEPT !.left = x] \/ t = [s EXCEPT !.right = x]
  PROVE  /\ IsRecord(t, Vs) /\ t.rsiz = s.rsiz /\ t.key = s.key /\ t.val = s.val /\ t.magic = s.magic
         /\ t = [s EXCEPT !.left = x] => t.left = x /\ t.right = s.right
         /\ t = [s EXCEPT !.right = x] => t.right = x /\ t.left = s.left
<1>1. /\ s = Rec(s.rsiz, s.key, s.val, s.left, s.right) /\ RecSize(s.val) <= s.rsiz
      /\ s.key \in Keys /\ s.val \in Vs /\ s.left \in Nat /\ s.right \in Nat
      /\ s.rsiz \in Nat \ {0} /\ s.magic # "fb"
  BY SegIs DEF IsRecord
<1>2. CASE t = [s EXCEPT !.left = x]
  <2>1. t = Rec(s.rsiz, s.key, s.val, x, s.right)
    BY <1>1, <1>2 DEF Rec
  <2>2. /\ t.rsiz = s.rsiz /\ t.key = s.key /\ t.val = s.val /\ t.left = x /\ t.right = s.right
        /\ t.magic = "rec" /\ s.magic = "rec"
    BY <1>1, <2>1 DEF Rec
  <2>3. IsSeg(t, Vs)
    BY <1>1, <2>1, <2>2 DEF IsSeg
  <2>4. t = [s EXCEPT !.right = x] => t.right = x /\ t.left = s.left
    BY <1>1, <2>2 DEF Rec
  <2> QED
    BY <1>2, <2>2, <2>3, <2>4 DEF IsRecord
<1>3. CASE t = [s EXCEPT !.right = x]
  <2>1. t = Rec(s.rsiz, s.key, s.val, s.left, x)
    BY <1>1, <1>3 DEF Rec
  <2>2. /\ t.rsiz = s.rsiz /\ t.key = s.key /\ t.val = s.val /\ t.left = s.left /\ t.right = x
        /\ t.magic = "rec" /\ s.magic = "rec"
    BY <1>1, <2>1 DEF Rec
  <2>3. IsSeg(t, Vs)
    BY <1>1, <2>1, <2>2 DEF IsSeg
  <2>4. t = [s EXCEPT !.left = x] => t.left = x /\ t.right = s.right
    BY <1>1, <2>2 DEF Rec
  <2> QED
    BY <1>3, <2>2, <2>3, <2>4 DEF IsRecord
<1> QED
  BY <1>2, <1>3

\* What is said of the index of a file.
LEMMA IndexIs ==
  ASSUME NEW db, NEW Vs, Clean(db, Vs)
  PROVE  /\ DOMAIN Index(db) \subseteq DOMAIN db.seg /\ 0 \notin DOMAIN db.seg
         /\ DOMAIN Index(db) = {o \in DOMAIN db.seg : db.seg[o].magic # "fb"}
         /\ Whole(db.seg, db.fsiz, Vs) /\ IsDB(db) /\ db.fsiz \in Nat
         /\ \A o \in DOMAIN Index(db) :
              Index(db)[o] = db.seg[o] /\ IsRecord(db.seg[o], Vs) /\ o \in Nat /\ o > 0
         /\ \A o \in DOMAIN db.seg : IsSeg(db.seg[o], Vs)
<1>1. IsDB(db) /\ Laid(db.seg, db.fsiz, db.fsiz, db.fsiz, Vs) /\ db.fsiz \in Nat
  BY KeptIs DEF Clean
<1>2. Beyond(db.seg, db.fsiz, db.fsiz) = DOMAIN db.seg
  BY <1>1, NoHole
<1>3. DOMAIN Index(db) = {o \in DOMAIN db.seg : db.seg[o].magic # "fb"}
  BY <1>2 DEF Index, Table, Recs
<1>4. \A o \in DOMAIN Index(db) : Index(db)[o] = db.seg[o]
  BY DEF Index, Table
<1>5. \A o \in DOMAIN db.seg : IsSeg(db.seg[o], Vs) /\ o \in Nat /\ o > 0
  BY <1>1, WholeIs DEF Whole
<1> QED
  BY <1>1, <1>3, <1>4, <1>5 DEF IsRecord, Whole

\* A pointer of a file without a hole is set.
LEMMA EntrySet ==
  ASSUME NEW db, NEW Vs, Clean(db, Vs), NEW k, NEW ent, IsEntry(ent, Index(db)), NEW x \in Nat,
         NEW d, d = SetEntry(db, k, ent, x)
  PROVE  /\ Clean(d, Vs) /\ Index(d) = Pointed(Index(db), ent, x)
         /\ d.bucket = Headed(db.bucket, k, ent, x) /\ d.rnum = db.rnum
<1>1. /\ DOMAIN Index(db) \subseteq DOMAIN db.seg /\ IsDB(db)
      /\ \A o \in DOMAIN Index(db) : Index(db)[o] = db.seg[o] /\ IsRecord(db.seg[o], Vs)
  BY IndexIs
<1>2. /\ IsDB(d) /\ d.seg = Pointed(db.seg, ent, x) /\ d.bucket = Headed(db.bucket, k, ent, x)
      /\ d.rnum = db.rnum /\ d.fsiz = db.fsiz /\ d.pool = db.pool
  BY <1>1, SetEntryIs
<1>3. IsEntry(ent, db.seg)
  BY <1>1 DEF IsEntry
<1>4. /\ DOMAIN d.seg = DOMAIN db.seg
      /\ \A o \in DOMAIN db.seg : o # ent.off \/ ent.side = "bucket" => d.seg[o] = db.seg[o]
      /\ ent.side = "left" => d.seg[ent.off] = [db.seg[ent.off] EXCEPT !.left = x]
      /\ ent.side = "right" => d.seg[ent.off] = [db.seg[ent.off] EXCEPT !.right = x]
  BY <1>2, <1>3, PointedIs
<1>5. ASSUME ent.side # "bucket"
      PROVE  /\ ent.off \in DOMAIN Index(db) /\ IsRecord(db.seg[ent.off], Vs)
             /\ IsRecord(d.seg[ent.off], Vs)
             /\ d.seg[ent.off].rsiz = db.seg[ent.off].rsiz
             /\ d.seg[ent.off].magic = db.seg[ent.off].magic
  <2>1. ent.off \in DOMAIN Index(db) /\ ent.side \in {"left", "right"}
    BY <1>5 DEF IsEntry, Sides
  <2>2. PICK s, t : s = db.seg[ent.off] /\ t = d.seg[ent.off]
    OBVIOUS
  <2>3. IsRecord(s, Vs) /\ (t = [s EXCEPT !.left = x] \/ t = [s EXCEPT !.right = x])
    BY <1>1, <1>4, <2>1, <2>2
  <2>4. IsRecord(t, Vs) /\ t.rsiz = s.rsiz /\ t.magic = s.magic
    BY <2>3, ChildSet
  <2> QED
    BY <2>1, <2>2, <2>3, <2>4
<1>6. Retouches(db.seg, d.seg, Vs)
  <2>1. ASSUME NEW o \in DOMAIN db.seg
        PROVE  /\ d.seg[o].rsiz = db.seg[o].rsiz /\ d.seg[o].magic = db.seg[o].magic
               /\ IsSeg(db.seg[o], Vs) => IsSeg(d.seg[o], Vs)
    <3>1. CASE o # ent.off \/ ent.side = "bucket"
      BY <1>4, <3>1
    <3>2. CASE o = ent.off /\ ent.side # "bucket"
      BY <1>5, <3>2 DEF IsRecord
    <3> QED
      BY <3>1, <3>2
  <2> QED
    BY <1>4, <2>1 DEF Retouches
<1>7. Clean(d, Vs)
  <2>1. /\ Laid(db.seg, db.fsiz, db.fsiz, db.fsiz, Vs) /\ Len(db.pool) <= Room
        /\ Pooled(db.seg, db.fsiz, db.fsiz, db.fsiz, db.pool)
        /\ \A o \in DOMAIN db.seg : db.seg[o].rsiz \in Nat \ {0}
    BY DEF Clean, Kept
  <2>2. Laid(d.seg, d.fsiz, d.fsiz, d.fsiz, Vs)
    BY <1>2, <1>6, <2>1, Retouched
  <2>3. \A b : FreeIn(db.seg, db.fsiz, db.fsiz, db.fsiz, b) => FreeIn(d.seg, db.fsiz, db.fsiz, db.fsiz, b)
    BY <1>6, Retouched
  <2>4. Pooled(d.seg, d.fsiz, d.fsiz, d.fsiz, d.pool)
    BY <1>2, <2>1, <2>3 DEF Pooled
  <2>5. \A o \in DOMAIN d.seg : d.seg[o].rsiz \in Nat \ {0}
    BY <1>4, <1>6, <2>1 DEF Retouches
  <2> QED
    BY <1>2, <2>1, <2>2, <2>4, <2>5 DEF Clean, Kept
<1>8. Index(d) = Pointed(Index(db), ent, x)
  <2>1. DOMAIN Index(d) = DOMAIN Index(db)
    BY <1>2, <1>6, Retouched DEF Index, Table
  <2>2. PICK T, U : T = Index(db) /\ U = Index(d)
    OBVIOUS
  <2>3. \A o \in DOMAIN T : T[o] = db.seg[o] /\ U[o] = d.seg[o] /\ o \in DOMAIN db.seg
    <3>1. \A o \in DOMAIN U : U[o] = d.seg[o]
      BY <2>2 DEF Index, Table
    <3> QED
      BY <1>1, <2>1, <2>2, <3>1
  <2>4. /\ DOMAIN Pointed(T, ent, x) = DOMAIN T
        /\ \A o \in DOMAIN T : o # ent.off \/ ent.side = "bucket" => Pointed(T, ent, x)[o] = T[o]
        /\ ent.side = "left" => Pointed(T, ent, x)[ent.off] = [T[ent.off] EXCEPT !.left = x]
        /\ ent.side = "right" => Pointed(T, ent, x)[ent.off] = [T[ent.off] EXCEPT !.right = x]
    BY <2>2, PointedIs
  <2>5. \A o \in DOMAIN T : U[o] = Pointed(T, ent, x)[o]
    <3>1. ASSUME NEW o \in DOMAIN T
          PROVE  U[o] = Pointed(T, ent, x)[o]
      <4>1. CASE o # ent.off \/ ent.side = "bucket"
        BY <1>4, <2>3, <2>4, <4>1
      <4>2. CASE o = ent.off /\ ent.side # "bucket"
        <5>1. ent.side \in {"left", "right"}
          BY <4>2 DEF IsEntry, Sides
        <5> QED
          BY <1>4, <2>3, <2>4, <4>2, <5>1
      <4> QED
        BY <4>1, <4>2
    <3> QED
      BY <3>1
  <2>6. U = [o \in DOMAIN T |-> U[o]]
    BY <2>1, <2>2 DEF Index, Table
  <2>7. Pointed(T, ent, x) = [o \in DOMAIN T |-> Pointed(T, ent, x)[o]]
    <3>1. T = [o \in DOMAIN T |-> T[o]]
      BY <2>2 DEF Index, Table
    <3> QED
      BY <3>1 DEF Pointed
  <2>8. PICK W : W = Pointed(T, ent, x)
    OBVIOUS
  <2>9. W = [o \in DOMAIN T |-> W[o]] /\ \A o \in DOMAIN T : U[o] = W[o]
    BY <2>5, <2>7, <2>8
  <2>10. U = W
    BY <2>6, <2>9
  <2> QED
    BY <2>2, <2>8, <2>10
<1> QED
  BY <1>2, <1>7, <1>8

---------------------------------------------------------------------------
(* tchdbwriterec *)

\* The record to write, whatever its size.
IsDraft(r, Vs) == r.key \in Keys /\ r.val \in Vs /\ r.left \in Nat /\ r.right \in Nat

\* d has a record more than db: r at o, in n bytes, where ent points to.
WrittenAt(T, db, d, r, ent, o, n, Vs) ==
  /\ o \in Nat /\ o \notin DOMAIN T /\ IsRecord(Rec(n, r.key, r.val, r.left, r.right), Vs)
  /\ Index(d) = Pointed(Adding(T, o, Rec(n, r.key, r.val, r.left, r.right)), ent, o)
  /\ d.bucket = Headed(db.bucket, r.key, ent, o) /\ d.rnum = db.rnum /\ Clean(d, Vs)

Written(T, db, d, r, ent, Vs) == \E o, n : WrittenAt(T, db, d, r, ent, o, n, Vs)

\* The size of a record.
LEMMA DraftIs ==
  ASSUME NEW Vs, Sizable(Vs), NEW r, IsDraft(r, Vs)
  PROVE  /\ RecSize(r.val) \in Nat \ {0}
         /\ \A n \in Nat : n >= RecSize(r.val) =>
              /\ IsRecord(Rec(n, r.key, r.val, r.left, r.right), Vs)
              /\ Rec(n, r.key, r.val, r.left, r.right).rsiz = n
<1>1. RecSize(r.val) \in Nat \ {0}
  BY LayoutSizes DEF RecSize, Sizable, IsDraft
<1>2. ASSUME NEW n \in Nat, n >= RecSize(r.val)
      PROVE  /\ IsRecord(Rec(n, r.key, r.val, r.left, r.right), Vs)
             /\ Rec(n, r.key, r.val, r.left, r.right).rsiz = n
  <2>1. PICK s : s = Rec(n, r.key, r.val, r.left, r.right)
    OBVIOUS
  <2>2. /\ s.rsiz = n /\ s.key = r.key /\ s.val = r.val /\ s.left = r.left /\ s.right = r.right
        /\ s.magic = "rec"
    BY <2>1 DEF Rec
  <2>3. n \in Nat \ {0}
    BY <1>1, <1>2
  <2>4. IsSeg(s, Vs)
    BY <1>2, <2>1, <2>2, <2>3 DEF IsSeg, IsDraft
  <2> QED
    BY <2>1, <2>2, <2>4 DEF IsRecord
<1> QED
  BY <1>1, <1>2

\* The pointer is set.
LEMMA PointerSet ==
  ASSUME NEW Vs, NEW T, NEW db, NEW r, NEW ent, IsEntry(ent, T), NEW o \in Nat, NEW n,
         NEW s, s = Rec(n, r.key, r.val, r.left, r.right), IsRecord(s, Vs),
         NEW w, Clean(w, Vs), w.bucket = db.bucket, w.rnum = db.rnum,
         Index(w) = Adding(T, o, s), o \notin DOMAIN T,
         NEW d, d = SetEntry(w, r.key, ent, o)
  PROVE  WrittenAt(T, db, d, r, ent, o, n, Vs)
<1>1. DOMAIN Index(w) = DOMAIN T \cup {o}
  BY DEF Adding
<1>2. IsEntry(ent, Index(w))
  BY <1>1 DEF IsEntry
<1>3. /\ Clean(d, Vs) /\ Index(d) = Pointed(Index(w), ent, o)
      /\ d.bucket = Headed(w.bucket, r.key, ent, o) /\ d.rnum = w.rnum
  BY <1>2, EntrySet
<1> QED
  BY <1>3 DEF WrittenAt

\* A region is filled with the record, and what is left of it given back.
LEMMA FillIs ==
  ASSUME NEW Vs, Sizable(Vs), NEW r, IsDraft(r, Vs), NEW g, Region(g, RecSize(r.val), Vs),
         NEW T, T = Table(g.db.seg, g.off, g.off + g.rsiz), NEW ent, IsEntry(ent, T),
         NEW size \in Nat, size >= RecSize(r.val),
         g.rsiz # 0 => size <= g.rsiz, Aligned(g.off + size),
         NEW d, d = Fill(g, size, r, ent)
  PROVE  Written(T, g.db, d, r, ent, Vs)
<1>1. PICK a, e, db : a = g.off /\ e = g.off + g.rsiz /\ db = g.db
  OBVIOUS
<1>2. /\ Kept(db, a, e, Vs) /\ a \in Nat /\ e \in Nat /\ a <= e /\ IsDB(db) /\ T = Table(db.seg, a, e)
      /\ g.rsiz \in Nat
  BY <1>1, KeptIs DEF Region
<1>3. PICK s : s = Rec(size, r.key, r.val, r.left, r.right)
  OBVIOUS
<1>4. IsRecord(s, Vs) /\ s.rsiz = size /\ size > 0
  BY <1>3, DraftIs
<1>5. PICK cut : cut = IF g.rsiz = 0 \/ g.rsiz - size = 0 THEN g.db
                       ELSE FbpInsert(WriteFB(g.db, g.off + size, g.rsiz - size), g.off + size, g.rsiz - size)
  OBVIOUS
<1>6. d = SetEntry(StoreAt(cut, g.off, s, g.rsiz = 0), r.key, ent, g.off)
  BY <1>3, <1>5 DEF Fill
<1>7. PICK w : w = StoreAt(cut, a, s, g.rsiz = 0)
  OBVIOUS
<1>8. d = SetEntry(w, r.key, ent, a)
  BY <1>1, <1>6, <1>7
<1>9. /\ Clean(w, Vs) /\ w.bucket = db.bucket /\ w.rnum = db.rnum
      /\ Index(w) = Adding(T, a, s) /\ a \notin DOMAIN T
  <2>1. CASE g.rsiz = 0
    <3>1. a = db.fsiz /\ e = db.fsiz /\ Clean(db, Vs) /\ T = Index(db)
      <4>1. a = db.fsiz /\ e = db.fsiz
        BY <1>1, <1>2, <2>1 DEF Region
      <4> QED
        BY <1>2, <4>1 DEF Clean, Index
    <3>2. PICK f : f = a + size
      OBVIOUS
    <3>3. cut = db /\ w = SetFsiz(WriteSeg(db, a, size, s), f) /\ Aligned(f) /\ Grows(a, size, f)
      BY <1>1, <1>4, <1>5, <1>7, <2>1, <3>2 DEF StoreAt, Grows
    <3> QED
      BY <1>4, <3>1, <3>3, FileAppended
  <2>2. CASE g.rsiz # 0 /\ g.rsiz - size = 0
    <3>1. cut = db /\ w = WriteSeg(db, a, size, s)
      BY <1>1, <1>4, <1>5, <1>7, <2>2 DEF StoreAt
    <3>2. a < e /\ size = e - a
      BY <1>1, <1>2, <2>2
    <3> QED
      BY <1>2, <1>4, <3>1, <3>2, HoleFilled
  <2>3. CASE g.rsiz # 0 /\ g.rsiz - size # 0
    <3>1. PICK m, n : m = g.off + size /\ n = g.rsiz - size
      OBVIOUS
    <3>2. m \in Nat /\ a <= m /\ m < e /\ Aligned(m) /\ n = e - m /\ a < m /\ size = m - a
      BY <1>1, <1>2, <1>4, <2>3, <3>1
    <3>3. cut = FbpInsert(WriteFB(db, m, n), m, n)
      BY <1>1, <1>5, <2>3, <3>1
    <3>4. Kept(cut, a, m, Vs) /\ Alike(db, a, e, cut, a, m)
      BY <1>2, <3>2, <3>3, GivenBack
    <3>5. w = WriteSeg(cut, a, size, s)
      BY <1>4, <1>7, <2>3 DEF StoreAt
    <3>6. /\ Clean(w, Vs) /\ w.bucket = cut.bucket /\ w.rnum = cut.rnum
          /\ Index(w) = Adding(Table(cut.seg, a, m), a, s) /\ a \notin DOMAIN Table(cut.seg, a, m)
      BY <1>4, <3>2, <3>4, <3>5, HoleFilled
    <3> QED
      BY <1>2, <3>4, <3>6 DEF Alike
  <2> QED
    BY <2>1, <2>2, <2>3
<1>10. WrittenAt(T, db, d, r, ent, a, size, Vs)
  BY <1>2, <1>3, <1>4, <1>8, <1>9, PointerSet
<1> QED
  BY <1>1, <1>10 DEF Written

\* So it is with the padding that the record is given.
LEMMA PlaceRecIs ==
  ASSUME NEW Vs, Sizable(Vs), NEW r, IsDraft(r, Vs), NEW g, Region(g, RecSize(r.val), Vs),
         NEW T, T = Table(g.db.seg, g.off, g.off + g.rsiz), NEW ent, IsEntry(ent, T),
         NEW d, d = PlaceRec(g, r, ent)
  PROVE  Written(T, g.db, d, r, ent, Vs)
<1>1. PICK need : need = RecSize(r.val)
  OBVIOUS
<1>2. need \in Nat /\ need > 0
  BY <1>1, DraftIs
<1>3. /\ g.off \in Nat /\ g.rsiz \in Nat /\ (g.rsiz # 0 => g.rsiz >= need)
      /\ Kept(g.db, g.off, g.off + g.rsiz, Vs) /\ (g.rsiz = 0 => g.off = g.db.fsiz)
  BY <1>1 DEF Region
<1>4. PICK k : k = g.off + need
  OBVIOUS
<1>5. k \in Nat
  BY <1>2, <1>3, <1>4
<1>6. PadSize(k) \in 0 .. Align - 1 /\ Aligned(k + PadSize(k)) /\ Align \in Nat /\ MaxPad \in Nat /\ MaxPad >= Align
  BY <1>5, Padded, LayoutSizes
<1>7. PICK size : size = IF g.rsiz = 0 \/ g.rsiz - need > MaxPad THEN need + PadSize(k) ELSE g.rsiz
  OBVIOUS
<1>8. d = Fill(g, size, r, ent)
  BY <1>1, <1>4, <1>7 DEF PlaceRec
<1>9. CASE g.rsiz = 0 \/ g.rsiz - need > MaxPad
  <2>1. size = need + PadSize(k) /\ PadSize(k) \in Nat /\ PadSize(k) < Align
    BY <1>6, <1>7, <1>9
  <2>2. size \in Nat /\ size >= need /\ k + PadSize(k) = g.off + size
    BY <1>2, <1>3, <1>4, <2>1
  <2>3. g.rsiz # 0 => size <= g.rsiz
    BY <1>2, <1>3, <1>6, <1>9, <2>1
  <2>4. Aligned(g.off + size)
    BY <1>6, <2>2
  <2> QED
    BY <1>1, <1>8, <2>2, <2>3, <2>4, FillIs
<1>10. CASE ~(g.rsiz = 0 \/ g.rsiz - need > MaxPad)
  <2>1. size = g.rsiz /\ g.rsiz # 0
    BY <1>7, <1>10
  <2>2. size \in Nat /\ size >= need /\ size <= g.rsiz
    BY <1>3, <2>1
  <2>3. Aligned(g.off + size)
    <3>1. PICK e : e = g.off + g.rsiz
      OBVIOUS
    <3>2. Aligned(e)
      BY <1>3, <3>1, KeptIs
    <3> QED
      BY <2>1, <3>1, <3>2
  <2> QED
    BY <1>1, <1>8, <2>2, <2>3, FillIs
<1> QED
  BY <1>9, <1>10

\* tchdbwriterec writes the record where it likes, and lets the entry point to it.
LEMMA WriteRecIs ==
  ASSUME NEW db, NEW a, NEW r \in Nat, NEW e, e = a + r, NEW Vs, Sizable(Vs), Kept(db, a, e, Vs),
         r = 0 => a = db.fsiz, NEW rec, IsDraft(rec, Vs),
         NEW T, T = Table(db.seg, a, e), NEW ent, IsEntry(ent, T),
         NEW d, d = WriteRec(db, a, r, rec, ent)
  PROVE  Written(T, db, d, rec, ent, Vs)
<1>1. PICK n : n = RecSize(rec.val)
  OBVIOUS
<1>2. n \in Nat \ {0}
  BY <1>1, DraftIs
<1>3. PICK g : g = Suited(db, a, r, n)
  OBVIOUS
<1>4. d = PlaceRec(g, rec, ent)
  BY <1>1, <1>3 DEF WriteRec, Suited
<1>5. Region(g, n, Vs) /\ Offers(db, a, e, g)
  BY <1>2, <1>3, SuitedIs
<1>6. T = Table(g.db.seg, g.off, g.off + g.rsiz) /\ g.db.bucket = db.bucket /\ g.db.rnum = db.rnum
  BY <1>5 DEF Offers, Alike
<1>7. Written(T, g.db, d, rec, ent, Vs)
  BY <1>1, <1>4, <1>5, <1>6, PlaceRecIs
<1> QED
  BY <1>6, <1>7 DEF Written, WrittenAt

---------------------------------------------------------------------------
(* The trees of the records *)

\* The offset of a record, 0 for none.
Addr(loc, x) == IF x = Nothing THEN 0 ELSE loc[x]

\* The entry that is a slot of a tree.
EntOf(loc, s) == IF s[1] = "bucket" THEN Root ELSE Child(loc[s[2]], s[1])

\* The records T, one of each key of D, at loc, hang in the trees of the buckets.
Indexed(T, bucket, D, at, sub, loc) ==
  /\ Tree(D, at, sub) /\ loc \in [D -> DOMAIN T] /\ DOMAIN T \subseteq Nat \ {0}
  /\ \A o \in DOMAIN T : T[o].key \in D /\ loc[T[o].key] = o
  /\ \A k \in D : /\ T[loc[k]].key = k
                  /\ T[loc[k]].left = Addr(loc, at[<<"left", k>>])
                  /\ T[loc[k]].right = Addr(loc, at[<<"right", k>>])
  /\ bucket = [b \in Buckets |-> Addr(loc, at[<<"bucket", b>>])]

\* What a slot holds is at an address, and an entry is of records.
LEMMA AddrIs ==
  ASSUME NEW T, NEW bucket, NEW D, NEW at, NEW sub, NEW loc, Indexed(T, bucket, D, at, sub, loc),
         NEW s \in SlotsOf(D)
  PROVE  /\ Addr(loc, at[s]) \in DOMAIN T \cup {0} /\ Addr(loc, at[s]) \in Nat
         /\ at[s] # Nothing => at[s] \in D /\ Addr(loc, at[s]) = loc[at[s]] /\ loc[at[s]] \in DOMAIN T
                               /\ T[loc[at[s]]].key = at[s]
         /\ at[s] = Nothing => Addr(loc, at[s]) = 0
         /\ 0 \notin DOMAIN T
         /\ IsEntry(EntOf(loc, s), T)
         /\ EntOf(loc, s) \in [off : Nat, side : {"bucket", "left", "right"}]
<1>1. at[s] \in Ptr(D)
  BY DEF Indexed, Tree
<1>2. DOMAIN T \subseteq Nat /\ 0 \notin DOMAIN T
  BY DEF Indexed
<1>3. at[s] # Nothing => at[s] \in D
  BY <1>1 DEF Ptr
<1>4. loc \in [D -> DOMAIN T] /\ \A k \in D : T[loc[k]].key = k
  BY DEF Indexed
<1>5. IsEntry(EntOf(loc, s), T) /\ EntOf(loc, s) \in [off : Nat, side : {"bucket", "left", "right"}]
  <2>1. ASSUME NEW b \in Buckets, s = <<"bucket", b>>
        PROVE  EntOf(loc, s) = Root
    BY <2>1 DEF EntOf
  <2>2. ASSUME NEW f \in Sides, NEW r \in D, s = <<f, r>>
        PROVE  EntOf(loc, s) = Child(loc[r], f) /\ loc[r] \in DOMAIN T /\ f \in Sides
    BY <1>4, <2>2 DEF EntOf, Sides
  <2>3. EntOf(loc, s) = Root \/ \E r \in D, f \in Sides : EntOf(loc, s) = Child(loc[r], f) /\ loc[r] \in DOMAIN T
    BY <2>1, <2>2, SlotKinds
  <2>4. CASE EntOf(loc, s) = Root
    BY <2>4 DEF IsEntry, Root
  <2>5. ASSUME NEW r \in D, NEW f \in Sides, EntOf(loc, s) = Child(loc[r], f), loc[r] \in DOMAIN T
        PROVE  IsEntry(EntOf(loc, s), T) /\ EntOf(loc, s) \in [off : Nat, side : {"bucket", "left", "right"}]
    <3>1. EntOf(loc, s) = [off |-> loc[r], side |-> f]
      BY <2>5 DEF Child
    <3>2. loc[r] \in Nat /\ f \in {"bucket", "left", "right"}
      BY <1>2, <2>5 DEF Sides
    <3>3. EntOf(loc, s).off = loc[r] /\ EntOf(loc, s).side = f
      BY <3>1
    <3> QED
      BY <2>5, <3>1, <3>2, <3>3 DEF IsEntry
  <2> QED
    BY <2>3, <2>4, <2>5
<1> QED
  BY <1>2, <1>3, <1>4, <1>5 DEF Addr

\* A record in the trees.
LEMMA RecordIn ==
  ASSUME NEW T, NEW bucket, NEW D, NEW at, NEW sub, NEW loc, Indexed(T, bucket, D, at, sub, loc),
         NEW k \in D
  PROVE  /\ loc[k] \in DOMAIN T /\ loc[k] \in Nat /\ loc[k] > 0 /\ T[loc[k]].key = k
         /\ T[loc[k]].left = Addr(loc, at[<<"left", k>>])
         /\ T[loc[k]].right = Addr(loc, at[<<"right", k>>])
         /\ k \in Keys /\ k # Nothing /\ Addr(loc, k) = loc[k]
  BY KeysInBuckets DEF Indexed, Tree, Addr

\* A record is larger than its children, in what hangs below it.
LEMMA RecordSizes ==
  ASSUME NEW T, NEW bucket, NEW D, NEW at, NEW sub, NEW loc, Indexed(T, bucket, D, at, sub, loc)
  PROVE  \E cnt \in [Nat -> Nat], n \in Nat :
           /\ \A o \in Nat : cnt[o] < n
           /\ \A o \in DOMAIN T : /\ T[o].left \in Nat /\ T[o].right \in Nat
                                  /\ cnt[T[o].left] < cnt[o] /\ cnt[T[o].right] < cnt[o]
<1>1. Tree(D, at, sub) /\ DOMAIN T \subseteq Nat /\ 0 \notin DOMAIN T
  BY DEF Indexed
<1>2. PICK cnt : cnt = [o \in Nat |-> IF o \in DOMAIN T THEN Cardinality(sub[T[o].key]) ELSE 0]
  OBVIOUS
<1>3. IsFiniteSet(D) /\ Cardinality(D) \in Nat
  BY <1>1, FS_CardinalityType DEF Tree
<1>4. \A k \in D : sub[k] \subseteq D /\ IsFiniteSet(sub[k]) /\ Cardinality(sub[k]) \in Nat
                   /\ Cardinality(sub[k]) <= Cardinality(D)
  <2>1. \A k \in D : sub[k] \subseteq D
    BY <1>1 DEF Tree
  <2>2. \A k \in D : IsFiniteSet(sub[k]) /\ Cardinality(sub[k]) <= Cardinality(D)
    BY <1>3, <2>1, FS_Subset
  <2> QED
    BY <2>1, <2>2, FS_CardinalityType
<1>5. \A o \in DOMAIN T : T[o].key \in D /\ loc[T[o].key] = o
  BY DEF Indexed
<1>6. \A o \in Nat : cnt[o] \in Nat /\ cnt[o] < Cardinality(D) + 1
  <2>1. \A o \in Nat : o \in DOMAIN T => cnt[o] = Cardinality(sub[T[o].key])
    BY <1>2
  <2>2. \A o \in Nat : o \notin DOMAIN T => cnt[o] = 0
    BY <1>2
  <2>3. \A o \in Nat : o \in DOMAIN T => cnt[o] \in Nat /\ cnt[o] <= Cardinality(D)
    BY <1>4, <1>5, <2>1
  <2> QED
    BY <1>3, <2>2, <2>3
<1>7. ASSUME NEW o \in DOMAIN T, NEW f \in Sides, NEW x, x = Addr(loc, at[<<f, T[o].key>>])
      PROVE  x \in Nat /\ cnt[x] < cnt[o]
  <2>1. PICK k : k = T[o].key
    OBVIOUS
  <2>2. k \in D /\ <<f, k>> \in SlotsOf(D) /\ cnt[o] = Cardinality(sub[k])
    BY <1>1, <1>2, <1>5, <2>1, SlotIn
  <2>3. PICK c : c = at[<<f, k>>]
    OBVIOUS
  <2>4. k \in sub[k]
    BY <1>1, <2>2, SelfBelow
  <2>5. CASE c = Nothing
    <3>1. x = 0 /\ cnt[0] = 0
      BY <1>1, <1>2, <1>7, <2>1, <2>3, <2>5 DEF Addr
    <3>2. Cardinality(sub[k]) # 0
      BY <1>4, <2>2, <2>4, FS_EmptySet
    <3> QED
      BY <1>4, <2>2, <3>1, <3>2
  <2>6. CASE c # Nothing
    <3>1. c \in D /\ sub[c] \subseteq sub[k] /\ k \notin sub[c]
      BY <1>1, <2>2, <2>3, <2>6, ChildBelow
    <3>2. x = loc[c]
      BY <1>7, <2>1, <2>3, <2>6 DEF Addr
    <3>3. loc[c] \in DOMAIN T /\ T[loc[c]].key = c
      BY <3>1 DEF Indexed
    <3>4. cnt[x] = Cardinality(sub[c])
      BY <1>1, <1>2, <3>2, <3>3
    <3>5. Cardinality(sub[c]) <= Cardinality(sub[k]) /\ Cardinality(sub[c]) # Cardinality(sub[k])
      BY <1>4, <2>2, <2>4, <3>1, FS_Subset
    <3>6. x \in Nat
      BY <1>1, <3>2, <3>3
    <3> QED
      BY <1>4, <2>2, <3>1, <3>4, <3>5, <3>6
  <2> QED
    BY <2>5, <2>6
<1>8. \A o \in DOMAIN T : /\ T[o].left = Addr(loc, at[<<"left", T[o].key>>])
                          /\ T[o].right = Addr(loc, at[<<"right", T[o].key>>])
  <2> TAKE o \in DOMAIN T
  <2>1. PICK k : k = T[o].key
    OBVIOUS
  <2>2. k \in D /\ loc[k] = o
    BY <1>5, <2>1
  <2> QED
    BY <2>1, <2>2, RecordIn
<1>9. cnt \in [Nat -> Nat] /\ Cardinality(D) + 1 \in Nat
  BY <1>2, <1>3, <1>6
<1>10. \A o \in DOMAIN T : /\ T[o].left \in Nat /\ T[o].right \in Nat
                           /\ cnt[T[o].left] < cnt[o] /\ cnt[T[o].right] < cnt[o]
  BY <1>7, <1>8 DEF Sides
<1> HIDE DEF Cardinality
<1> QED
  BY <1>6, <1>9, <1>10

\* Where the descent stands that looks at a slot.
At(loc, at, s) == [off |-> Addr(loc, at[s]), ent |-> EntOf(loc, s)]

Places == [off : Nat, ent : [off : Nat, side : {"bucket", "left", "right"}]]

\* A step of the descent for k.
Descended(db, k, f) ==
  IF Less(k, db.seg[f.off]) THEN [off |-> db.seg[f.off].right, ent |-> Child(f.off, "right")]
  ELSE [off |-> db.seg[f.off].left, ent |-> Child(f.off, "left")]

\* Where the descent ends.
Arrived(db, k, f) == ~IsRec(db, f.off) \/ db.seg[f.off].key = k

\* A file without a hole whose records hang in the trees of their buckets.
Rooted(db, Vs, D, at, sub, loc) == Clean(db, Vs) /\ Indexed(Index(db), db.bucket, D, at, sub, loc)

\* The descent is a walk of Places that ends.
LEMMA FindWalks ==
  ASSUME NEW db, NEW Vs, NEW D, NEW at, NEW sub, NEW loc, Rooted(db, Vs, D, at, sub, loc), NEW k
  PROVE  \E walk : /\ \A f \in Places : walk[f] = IF Arrived(db, k, f) THEN f ELSE walk[Descended(db, k, f)]
                  /\ Find(db, k) = walk[[off |-> db.bucket[BucketOf[k]], ent |-> Root]]
<1> DEFINE IsWalk(walk) == walk = [f \in [off : Nat, ent : [off : Nat, side : {"bucket", "left", "right"}]] |->
        LET r == db.seg[f.off]
        IN IF ~IsRec(db, f.off) \/ r.key = k THEN f
           ELSE IF Less(k, r) THEN walk[[off |-> r.right, ent |-> Child(f.off, "right")]]
           ELSE walk[[off |-> r.left, ent |-> Child(f.off, "left")]]]
<1>1. PICK T : T = Index(db)
  OBVIOUS
<1>2. \A o \in Nat : IsRec(db, o) => o \in DOMAIN T /\ T[o] = db.seg[o]
  <2>1. Clean(db, Vs)
    BY DEF Rooted
  <2> QED
    BY <1>1, <2>1, IndexIs DEF IsRec, IsFB
<1>3. PICK cnt \in [Nat -> Nat], n \in Nat :
           /\ \A o \in Nat : cnt[o] < n
           /\ \A o \in DOMAIN T : /\ T[o].left \in Nat /\ T[o].right \in Nat
                                  /\ cnt[T[o].left] < cnt[o] /\ cnt[T[o].right] < cnt[o]
  <2>1. Indexed(T, db.bucket, D, at, sub, loc)
    BY <1>1 DEF Rooted
  <2> QED
    BY <2>1, RecordSizes
<1>4. PICK S : S = Places
  OBVIOUS
<1>5. PICK stop : stop = {f \in S : Arrived(db, k, f)}
  OBVIOUS
<1>6. PICK nx : nx = [f \in S |-> IF Arrived(db, k, f) THEN f ELSE Descended(db, k, f)]
  OBVIOUS
<1>7. PICK size : size = [f \in S |-> cnt[f.off]]
  OBVIOUS
<1>8. ASSUME NEW f \in S, ~Arrived(db, k, f)
      PROVE  Descended(db, k, f) \in S /\ cnt[Descended(db, k, f).off] < cnt[f.off]
  <2>1. f.off \in Nat /\ IsRec(db, f.off)
    BY <1>4, <1>8 DEF Places, Arrived
  <2>2. PICK o, r : o = f.off /\ r = db.seg[o]
    OBVIOUS
  <2>3. /\ o \in Nat /\ r.left \in Nat /\ r.right \in Nat
        /\ cnt[r.left] < cnt[o] /\ cnt[r.right] < cnt[o]
    BY <1>2, <1>3, <2>1, <2>2
  <2>4. CASE Less(k, r)
    <3>1. Descended(db, k, f) = [off |-> r.right, ent |-> [off |-> o, side |-> "right"]]
      BY <2>2, <2>4 DEF Descended, Child
    <3> QED
      BY <1>4, <2>2, <2>3, <3>1 DEF Places
  <2>5. CASE ~Less(k, r)
    <3>1. Descended(db, k, f) = [off |-> r.left, ent |-> [off |-> o, side |-> "left"]]
      BY <2>2, <2>5 DEF Descended, Child
    <3> QED
      BY <1>4, <2>2, <2>3, <3>1 DEF Places
  <2> QED
    BY <2>4, <2>5
<1>9. Lessens(S, stop, nx, size, n)
  <2>1. nx \in [S -> S]
    BY <1>6, <1>8
  <2>2. \A f \in S : f.off \in Nat
    BY <1>4 DEF Places
  <2>3. size \in [S -> Nat] /\ \A f \in S : size[f] < n
    BY <1>3, <1>7, <2>2
  <2>4. \A f \in S : f \notin stop => size[nx[f]] < size[f]
    BY <1>5, <1>6, <1>7, <1>8
  <2> QED
    BY <1>3, <2>1, <2>3, <2>4 DEF Lessens
<1>10. PICK g : Walks(S, stop, nx, g)
  BY <1>9, WalkEnds
<1>11. \A f \in S : g[f] = IF Arrived(db, k, f) THEN f ELSE g[Descended(db, k, f)]
  BY <1>5, <1>6, <1>10 DEF Walks
<1>12. IsWalk(g)
  <2>1. g = [f \in S |-> g[f]]
    BY <1>10 DEF Walks
  <2>2. g = [f \in S |-> IF Arrived(db, k, f) THEN f ELSE g[Descended(db, k, f)]]
    BY <1>11, <2>1, Zenon
  <2>3. ASSUME NEW f
        PROVE  (IF Arrived(db, k, f) THEN f ELSE g[Descended(db, k, f)])
               = IF ~IsRec(db, f.off) \/ db.seg[f.off].key = k THEN f
                 ELSE IF Less(k, db.seg[f.off]) THEN g[[off |-> db.seg[f.off].right, ent |-> Child(f.off, "right")]]
                 ELSE g[[off |-> db.seg[f.off].left, ent |-> Child(f.off, "left")]]
    <3>1. CASE Arrived(db, k, f)
      BY <3>1 DEF Arrived
    <3>2. CASE ~Arrived(db, k, f) /\ Less(k, db.seg[f.off])
      BY <3>2 DEF Arrived, Descended
    <3>3. CASE ~Arrived(db, k, f) /\ ~Less(k, db.seg[f.off])
      BY <3>3 DEF Arrived, Descended
    <3> QED
      BY <3>1, <3>2, <3>3
  <2> QED
    BY <1>4, <2>2, <2>3, Zenon DEF Places
<1>13. PICK walk : IsWalk(walk) /\ walk = CHOOSE h : IsWalk(h)
  <2> HIDE DEF IsWalk
  <2> QED
    BY <1>12, Zenon
<1>14. Find(db, k) = walk[[off |-> db.bucket[BucketOf[k]], ent |-> Root]]
  BY <1>13 DEF Find
<1>15. ASSUME NEW f \in Places
       PROVE  walk[f] = IF Arrived(db, k, f) THEN f ELSE walk[Descended(db, k, f)]
  <2>1. walk[f] = LET r == db.seg[f.off]
        IN IF ~IsRec(db, f.off) \/ r.key = k THEN f
           ELSE IF Less(k, r) THEN walk[[off |-> r.right, ent |-> Child(f.off, "right")]]
           ELSE walk[[off |-> r.left, ent |-> Child(f.off, "left")]]
    BY <1>13, <1>15, Zenon DEF Places
  <2> HIDE DEF IsWalk
  <2>2. CASE Arrived(db, k, f)
    BY <2>1, <2>2 DEF Arrived
  <2>3. CASE ~Arrived(db, k, f) /\ Less(k, db.seg[f.off])
    BY <2>1, <2>3 DEF Arrived, Descended
  <2>4. CASE ~Arrived(db, k, f) /\ ~Less(k, db.seg[f.off])
    BY <2>1, <2>4 DEF Arrived, Descended
  <2> QED
    BY <2>2, <2>3, <2>4
<1> QED
  BY <1>14, <1>15

\* Where the descent for k turns at the record of r.
LEMMA TurnsAt ==
  ASSUME NEW k \in Keys, NEW r, r.key \in Keys
  PROVE  /\ Less(k, r) => Side(r.key, k) = "right"
         /\ ~Less(k, r) /\ k # r.key => Side(r.key, k) = "left"
<1> QED
  BY KeysInBuckets DEF Less, Side, Greater

\* The descent for k ends at the slot where that in the trees does.
LEMMA FindIs ==
  ASSUME NEW db, NEW Vs, NEW D, NEW at, NEW sub, NEW loc, Rooted(db, Vs, D, at, sub, loc), NEW k \in Keys,
         NEW f, Descends(D, at, k, f)
  PROVE  Find(db, k) = At(loc, at, f[Home(k)])
<1>1. PICK walk : /\ \A p \in Places : walk[p] = IF Arrived(db, k, p) THEN p ELSE walk[Descended(db, k, p)]
                  /\ Find(db, k) = walk[[off |-> db.bucket[BucketOf[k]], ent |-> Root]]
  BY FindWalks
<1>2. PICK T : T = Index(db)
  OBVIOUS
<1>3. /\ \A o \in Nat : IsRec(db, o) => o \in DOMAIN T
      /\ \A o \in DOMAIN T : IsRec(db, o) /\ T[o] = db.seg[o] /\ o \in Nat
  BY <1>2, IndexIs DEF IsRec, IsFB, Rooted
<1>4. Tree(D, at, sub) /\ Indexed(T, db.bucket, D, at, sub, loc)
  BY <1>2 DEF Indexed, Rooted
<1>5. ASSUME NEW s \in SlotsOf(D)
      PROVE  At(loc, at, s) \in Places /\ At(loc, at, s).off = Addr(loc, at[s])
  <2>1. Addr(loc, at[s]) \in Nat /\ EntOf(loc, s) \in [off : Nat, side : {"bucket", "left", "right"}]
    BY <1>4, AddrIs
  <2> QED
    BY <2>1 DEF At, Places
<1>6. ASSUME NEW s \in SlotsOf(D), at[s] \in {Nothing, k}
      PROVE  walk[At(loc, at, s)] = At(loc, at, s)
  <2>1. PICK p : p = At(loc, at, s)
    OBVIOUS
  <2>2. p \in Places /\ p.off = Addr(loc, at[s])
    BY <1>5, <2>1
  <2>3. Arrived(db, k, p)
    <3>1. CASE at[s] = Nothing
      <4>1. p.off = 0 /\ 0 \notin DOMAIN T
        BY <1>4, <2>2, <3>1, AddrIs
      <4> QED
        BY <1>3, <4>1 DEF Arrived
    <3>2. CASE at[s] # Nothing
      <4>1. at[s] = k /\ p.off = loc[k] /\ loc[k] \in DOMAIN T /\ T[loc[k]].key = k
        BY <1>4, <1>6, <2>2, <3>2, AddrIs
      <4> QED
        BY <1>3, <4>1 DEF Arrived
    <3> QED
      BY <3>1, <3>2
  <2> QED
    BY <1>1, <2>1, <2>2, <2>3
<1>7. ASSUME NEW s \in SlotsOf(D), at[s] \notin {Nothing, k},
             NEW t, t = <<Side(at[s], k), at[s]>>
      PROVE  walk[At(loc, at, s)] = walk[At(loc, at, t)] /\ t \in SlotsOf(D)
  <2>1. PICK p, x, o : p = At(loc, at, s) /\ x = at[s] /\ o = loc[x]
    OBVIOUS
  <2>2. p \in Places /\ p.off = o /\ x \in D /\ o \in DOMAIN T /\ T[o].key = x
    BY <1>4, <1>5, <1>7, <2>1, AddrIs
  <2>3. /\ T[o].left = Addr(loc, at[<<"left", x>>]) /\ T[o].right = Addr(loc, at[<<"right", x>>])
        /\ x \in Keys
    BY <1>4, <2>1, <2>2, RecordIn
  <2>4. T[o] = db.seg[o] /\ IsRec(db, o)
    BY <1>3, <2>2
  <2>5. ~Arrived(db, k, p)
    BY <1>7, <2>1, <2>2, <2>4 DEF Arrived
  <2>6. walk[p] = walk[Descended(db, k, p)]
    BY <1>1, <2>2, <2>5
  <2>7. Side(x, k) \in Sides /\ t = <<Side(x, k), x>>
    BY <1>7, <2>1 DEF Side, Sides
  <2>8. t \in SlotsOf(D)
    BY <2>2, <2>7, SlotIn
  <2>9. Descended(db, k, p) = At(loc, at, t)
    <3>1. CASE Less(k, T[o])
      <4>1. Side(x, k) = "right"
        BY <2>2, <2>3, <3>1, <1>7, <2>1, TurnsAt
      <4>2. Descended(db, k, p) = [off |-> T[o].right, ent |-> Child(o, "right")]
        BY <2>2, <2>4, <3>1 DEF Descended
      <4>3. EntOf(loc, t) = Child(o, "right") /\ t = <<"right", x>>
        BY <2>1, <2>7, <4>1 DEF EntOf
      <4> QED
        BY <2>3, <4>2, <4>3 DEF At
    <3>2. CASE ~Less(k, T[o])
      <4>1. Side(x, k) = "left"
        <5>1. k # x
          BY <1>7, <2>1
        <5>2. PICK r : r = T[o]
          OBVIOUS
        <5>3. r.key = x /\ ~Less(k, r)
          BY <2>2, <3>2, <5>2
        <5> QED
          BY <2>3, <5>1, <5>3, TurnsAt
      <4>2. Descended(db, k, p) = [off |-> T[o].left, ent |-> Child(o, "left")]
        BY <2>2, <2>4, <3>2 DEF Descended
      <4>3. EntOf(loc, t) = Child(o, "left") /\ t = <<"left", x>>
        BY <2>1, <2>7, <4>1 DEF EntOf
      <4> QED
        BY <2>3, <4>2, <4>3 DEF At
    <3> QED
      BY <3>1, <3>2
  <2> QED
    BY <2>1, <2>6, <2>8, <2>9
<1>8. f \in [SlotsOf(D) -> SlotsOf(D)] /\ \A s \in SlotsOf(D) :
        f[s] = IF at[s] \in {Nothing, k} THEN s ELSE f[<<Side(at[s], k), at[s]>>]
  BY DEF Descends
<1>9. ASSUME NEW s \in SlotsOf(D)
      PROVE  walk[At(loc, at, s)] = At(loc, at, f[s])
  <2>1. PICK S : S = {u \in SlotsOf(D) : walk[At(loc, at, u)] # At(loc, at, f[u])}
    OBVIOUS
  <2>2. SUFFICES ASSUME S # {}
                 PROVE  FALSE
    BY <2>1
  <2>3. PICK u \in S : at[u] # Nothing => \A g \in Sides : <<g, at[u]>> \notin S
    BY <1>4, <2>1, <2>2, LowestSlot
  <2>4. u \in SlotsOf(D) /\ walk[At(loc, at, u)] # At(loc, at, f[u])
    BY <2>1
  <2>5. at[u] \notin {Nothing, k}
    BY <1>6, <1>8, <2>4
  <2>6. PICK t : t = <<Side(at[u], k), at[u]>>
    OBVIOUS
  <2>7. walk[At(loc, at, u)] = walk[At(loc, at, t)] /\ t \in SlotsOf(D) /\ f[u] = f[t]
    BY <1>7, <1>8, <2>4, <2>5, <2>6
  <2>8. t \notin S
    <3>1. Side(at[u], k) \in Sides
      BY DEF Side, Sides
    <3> QED
      BY <2>3, <2>5, <2>6, <3>1
  <2> QED
    BY <2>1, <2>4, <2>7, <2>8
<1>10. Home(k) \in SlotsOf(D) /\ At(loc, at, Home(k)) = [off |-> db.bucket[BucketOf[k]], ent |-> Root]
  <2>1. PICK b : b = BucketOf[k]
    OBVIOUS
  <2>2. b \in Buckets /\ Home(k) = <<"bucket", b>> /\ <<"bucket", b>> \in SlotsOf(D)
    BY <2>1, KeysInBuckets, SlotIn DEF Home
  <2>3. db.bucket[b] = Addr(loc, at[Home(k)])
    BY <1>4, <2>2 DEF Indexed
  <2>4. EntOf(loc, Home(k)) = Root
    BY <2>2 DEF EntOf
  <2> QED
    BY <2>1, <2>2, <2>3, <2>4 DEF At
<1> QED
  BY <1>1, <1>9, <1>10

---------------------------------------------------------------------------
(* A record leaves the trees *)

Without(T, o) == [p \in DOMAIN T \ {o} |-> T[p]]

\* A record's bytes as a hole.
LEMMA RecordOut ==
  ASSUME NEW db, NEW Vs, Clean(db, Vs), NEW T, T = Index(db), NEW o \in DOMAIN T,
         NEW n, n = db.seg[o].rsiz, NEW x, Grows(o, n, x)
  PROVE  /\ Kept(db, o, x, Vs) /\ Table(db.seg, o, x) = Without(T, o)
         /\ n \in Nat \ {0} /\ o \in Nat /\ o < x /\ x \in Nat /\ x = o + n
<1> DEFINE seg == db.seg
<1> DEFINE fsiz == db.fsiz
<1>1. /\ Whole(seg, fsiz, Vs) /\ IsDB(db) /\ DOMAIN T \subseteq DOMAIN seg
      /\ DOMAIN T = {p \in DOMAIN seg : seg[p].magic # "fb"} /\ \A p \in DOMAIN T : T[p] = seg[p]
  BY IndexIs
<1>2. o \in DOMAIN seg /\ seg[o].magic # "fb"
  BY <1>1
<1>3. /\ n \in Nat \ {0} /\ o \in Nat /\ o < x /\ x \in Nat /\ x = o + n /\ x \in DOMAIN seg \cup {fsiz}
      /\ \A p \in DOMAIN seg : p \in Nat /\ p < fsiz /\ (o < p => x <= p)
  <2>1. /\ o \in Nat /\ seg[o].rsiz \in Nat /\ seg[o].rsiz > 0
        /\ o + seg[o].rsiz \in DOMAIN seg \cup {fsiz}
        /\ \A p \in DOMAIN seg : p \in Nat /\ p < fsiz /\ (o < p => o + seg[o].rsiz <= p)
    BY <1>1, <1>2, WholeIs
  <2>2. n = seg[o].rsiz /\ x = o + n
    BY DEF Grows
  <2> HIDE DEF seg, fsiz
  <2> QED
    BY <2>1, <2>2
<1>4. Laid(seg, fsiz, o, x, Vs) /\ Beyond(seg, o, x) = {p \in DOMAIN seg : p < o \/ p >= x}
  <2> HIDE DEF seg, fsiz
  <2> QED
    BY <1>1, <1>2, <1>3, HoleMade
<1>5. Pooled(seg, fsiz, fsiz, fsiz, db.pool) /\ Len(db.pool) <= Room
  BY DEF Clean, Kept
<1>6. /\ db.pool \in Seq(Block)
      /\ \A i \in 1 .. Len(db.pool) : FreeIn(seg, fsiz, fsiz, fsiz, db.pool[i])
      /\ \A i, j \in 1 .. Len(db.pool) : i # j => Apart(db.pool[i], db.pool[j])
  BY <1>5 DEF Pooled
<1>7. ASSUME NEW b, FreeIn(seg, fsiz, fsiz, fsiz, b)
      PROVE  FreeIn(seg, fsiz, o, x, b)
  <2>1. Beyond(seg, fsiz, fsiz) = DOMAIN seg
    BY <1>1, NoHole DEF Whole
  <2>2. b \in Block /\ b.off \in Nat /\ b.rsiz \in Nat
    BY <1>7, BlockIs DEF FreeIn
  <2>3. b.off \in DOMAIN seg /\ ~(b.off <= o /\ o < b.off + b.rsiz)
    BY <1>2, <1>7, <2>1 DEF FreeIn
  <2>4. b.off + b.rsiz <= o \/ x <= b.off
    <3> HIDE DEF seg, fsiz
    <3> QED
      BY <1>3, <2>2, <2>3
  <2> HIDE DEF seg, fsiz
  <2> QED
    BY <1>1, <1>2, <1>3, <1>7, <2>4, FreeBeside
<1>8. Pooled(seg, fsiz, o, x, db.pool)
  BY <1>6, <1>7 DEF Pooled
<1>9. \A p \in DOMAIN seg : seg[p].rsiz \in Nat \ {0}
  BY DEF Clean, Kept
<1>10. Kept(db, o, x, Vs)
  BY <1>1, <1>3, <1>4, <1>5, <1>8, <1>9 DEF Kept
<1>11. Beyond(seg, o, x) = DOMAIN seg \ {o}
  <2> HIDE DEF seg, fsiz
  <2> QED
    BY <1>2, <1>3, <1>4
<1>12. Recs(seg, o, x) = DOMAIN T \ {o}
  BY <1>1, <1>11 DEF Recs
<1>13. Table(seg, o, x) = Without(T, o)
  <2>1. \A p \in DOMAIN T \ {o} : T[p] = seg[p]
    BY <1>1
  <2> QED
    BY <1>12, <2>1 DEF Table, Without
<1> QED
  BY <1>3, <1>10, <1>13

---------------------------------------------------------------------------
(* Pointers *)

\* The records of T are at loc.
Placed(T, D, loc) ==
  /\ loc \in [D -> DOMAIN T] /\ DOMAIN T \subseteq Nat \ {0}
  /\ \A o \in DOMAIN T : T[o].key \in D /\ loc[T[o].key] = o
  /\ \A k \in D : T[loc[k]].key = k

\* A function of the buckets.
OnBuckets(bucket) == bucket = [b \in Buckets |-> bucket[b]]

\* What a slot points to.
PointerOf(T, bucket, loc, s) ==
  IF s[1] = "bucket" THEN bucket[s[2]]
  ELSE IF s[1] = "left" THEN T[loc[s[2]]].left ELSE T[loc[s[2]]].right

PointsAs(T, bucket, D, at, loc) ==
  /\ OnBuckets(bucket)
  /\ \A s \in SlotsOf(D) : PointerOf(T, bucket, loc, s) = Addr(loc, at[s])

\* The pointer of a bucket, a left and a right child.
LEMMA PointerIs ==
  ASSUME NEW T, NEW bucket, NEW loc, NEW f, NEW r, NEW s, s = <<f, r>>
  PROVE  /\ f = "bucket" => PointerOf(T, bucket, loc, s) = bucket[r]
         /\ f = "left" => PointerOf(T, bucket, loc, s) = T[loc[r]].left
         /\ f = "right" => PointerOf(T, bucket, loc, s) = T[loc[r]].right
BY DEF PointerOf

\* What it means that records hang in trees.
LEMMA IndexedAs ==
  ASSUME NEW T, NEW bucket, NEW D, NEW at, NEW sub, NEW loc
  PROVE  Indexed(T, bucket, D, at, sub, loc)
           <=> Tree(D, at, sub) /\ Placed(T, D, loc) /\ PointsAs(T, bucket, D, at, loc)
<1>1. ASSUME Indexed(T, bucket, D, at, sub, loc)
      PROVE  PointsAs(T, bucket, D, at, loc)
  <2>1. bucket = [b \in Buckets |-> Addr(loc, at[<<"bucket", b>>])]
    BY <1>1 DEF Indexed
  <2>2. \A b \in Buckets : bucket[b] = Addr(loc, at[<<"bucket", b>>])
    BY <2>1
  <2>3. OnBuckets(bucket)
    BY <2>1 DEF OnBuckets
  <2>4. ASSUME NEW s \in SlotsOf(D)
        PROVE  PointerOf(T, bucket, loc, s) = Addr(loc, at[s])
    <3>1. ASSUME NEW b \in Buckets, s = <<"bucket", b>>
          PROVE  PointerOf(T, bucket, loc, s) = Addr(loc, at[s])
      BY <2>2, <3>1, PointerIs
    <3>2. ASSUME NEW f \in Sides, NEW r \in D, s = <<f, r>>
          PROVE  PointerOf(T, bucket, loc, s) = Addr(loc, at[s])
      <4>1. CASE f = "left"
        <5>1. T[loc[r]].left = Addr(loc, at[s])
          BY <1>1, <3>2, <4>1 DEF Indexed
        <5> QED
          BY <3>2, <4>1, <5>1, PointerIs
      <4>2. CASE f = "right"
        <5>1. T[loc[r]].right = Addr(loc, at[s])
          BY <1>1, <3>2, <4>2 DEF Indexed
        <5> QED
          BY <3>2, <4>2, <5>1, PointerIs
      <4> QED
        BY <4>1, <4>2, TwoSides
    <3> QED
      BY <3>1, <3>2, SlotKinds
  <2> QED
    BY <2>3, <2>4 DEF PointsAs
<1>2. ASSUME Tree(D, at, sub), Placed(T, D, loc), PointsAs(T, bucket, D, at, loc)
      PROVE  Indexed(T, bucket, D, at, sub, loc)
  <2>1. \A b \in Buckets : bucket[b] = Addr(loc, at[<<"bucket", b>>])
    <3> TAKE b \in Buckets
    <3>1. <<"bucket", b>> \in SlotsOf(D)
      BY SlotIn
    <3> QED
      BY <1>2, <3>1, PointerIs DEF PointsAs
  <2>2. bucket = [b \in Buckets |-> Addr(loc, at[<<"bucket", b>>])]
    <3>1. bucket = [b \in Buckets |-> bucket[b]]
      BY <1>2 DEF PointsAs, OnBuckets
    <3> QED
      BY <2>1, <3>1
  <2>3. ASSUME NEW k \in D
        PROVE  /\ T[loc[k]].left = Addr(loc, at[<<"left", k>>])
               /\ T[loc[k]].right = Addr(loc, at[<<"right", k>>])
    <3>1. <<"left", k>> \in SlotsOf(D) /\ <<"right", k>> \in SlotsOf(D)
      BY SlotIn, TwoSides
    <3> QED
      BY <1>2, <3>1, PointerIs DEF PointsAs
  <2> QED
    BY <1>2, <2>2, <2>3 DEF Indexed, Placed
<1>3. Indexed(T, bucket, D, at, sub, loc) => Tree(D, at, sub) /\ Placed(T, D, loc)
  BY DEF Indexed, Placed
<1> QED
  BY <1>1, <1>2, <1>3

\* All are records.
Records(T, Vs) == \A o \in DOMAIN T : IsRecord(T[o], Vs)

\* T and U have the same records but for their children.
SameButChildren(T, U) ==
  /\ DOMAIN U = DOMAIN T
  /\ \A o \in DOMAIN T : U[o].key = T[o].key /\ U[o].val = T[o].val

\* A slot is made to point to x.
LEMMA PointerMoves ==
  ASSUME NEW T, NEW Vs, Records(T, Vs), NEW bucket, OnBuckets(bucket),
         NEW D, NEW loc, Placed(T, D, loc), NEW s \in SlotsOf(D), NEW k \in Keys,
         s[1] = "bucket" => s = Home(k),
         NEW x \in Nat, NEW ent, ent = EntOf(loc, s),
         NEW U, U = Pointed(T, ent, x), NEW new, new = Headed(bucket, k, ent, x)
  PROVE  /\ SameButChildren(T, U) /\ Records(U, Vs) /\ Placed(U, D, loc)
         /\ OnBuckets(new)
         /\ \A t \in SlotsOf(D) : PointerOf(U, new, loc, t)
                                  = IF t = s THEN x ELSE PointerOf(T, bucket, loc, t)
<1>1. CASE s[1] = "bucket"
  <2>1. PICK b : b = BucketOf[k]
    OBVIOUS
  <2>2. s = <<"bucket", b>> /\ b \in Buckets
    BY <1>1, <2>1, KeysInBuckets DEF Home
  <2>3. ent.side = "bucket"
    BY <1>1 DEF EntOf, Root
  <2>4. U = T /\ new = [bucket EXCEPT ![b] = x]
    BY <2>1, <2>3 DEF Pointed, Headed
  <2>5. new = [c \in Buckets |-> new[c]] /\ \A c \in Buckets : new[c] = IF c = b THEN x ELSE bucket[c]
    BY <2>2, <2>4 DEF OnBuckets
  <2>6. ASSUME NEW t \in SlotsOf(D)
        PROVE  PointerOf(U, new, loc, t) = IF t = s THEN x ELSE PointerOf(T, bucket, loc, t)
    <3>1. ASSUME NEW c \in Buckets, t = <<"bucket", c>>
          PROVE  PointerOf(U, new, loc, t) = IF t = s THEN x ELSE PointerOf(T, bucket, loc, t)
      <4>1. t = s <=> c = b
        BY <2>2, <3>1
      <4>2. PointerOf(U, new, loc, t) = new[c] /\ PointerOf(T, bucket, loc, t) = bucket[c]
        BY <3>1, PointerIs
      <4> QED
        BY <2>5, <4>1, <4>2
    <3>2. ASSUME NEW f \in Sides, NEW r \in D, t = <<f, r>>
          PROVE  PointerOf(U, new, loc, t) = IF t = s THEN x ELSE PointerOf(T, bucket, loc, t)
      <4>1. t # s
        BY <2>2, <3>2, SlotIn
      <4>2. PointerOf(U, new, loc, t) = PointerOf(T, bucket, loc, t)
        BY <2>4, <3>2, TwoSides, PointerIs
      <4> QED
        BY <4>1, <4>2
    <3> QED
      BY <3>1, <3>2, SlotKinds
  <2> QED
    BY <2>4, <2>5, <2>6 DEF SameButChildren, OnBuckets
<1>2. CASE s[1] # "bucket"
  <2>1. PICK g \in Sides, p \in D : s = <<g, p>>
    BY <1>2, SlotKinds
  <2>2. PICK o : o = loc[p]
    OBVIOUS
  <2>3. o \in DOMAIN T /\ ent = [off |-> o, side |-> g] /\ ent.off = o /\ ent.side = g /\ g # "bucket"
    BY <2>1, <2>2 DEF Placed, EntOf, Child, Sides
  <2>4. IsEntry(ent, T)
    BY <2>1, <2>3 DEF IsEntry
  <2>5. /\ DOMAIN U = DOMAIN T
        /\ \A q \in DOMAIN T : q # o => U[q] = T[q]
        /\ g = "left" => U[o] = [T[o] EXCEPT !.left = x]
        /\ g = "right" => U[o] = [T[o] EXCEPT !.right = x]
    BY <2>3, <2>4, PointedIs
  <2>6. new = bucket
    BY <2>3 DEF Headed
  <2>7. IsRecord(T[o], Vs)
    BY <2>3 DEF Records
  <2>8. /\ IsRecord(U[o], Vs) /\ U[o].key = T[o].key /\ U[o].val = T[o].val
        /\ g = "left" => U[o].left = x /\ U[o].right = T[o].right
        /\ g = "right" => U[o].right = x /\ U[o].left = T[o].left
    <3>1. g = "left" \/ g = "right"
      BY <2>1, TwoSides
    <3>2. CASE g = "left"
      BY <2>5, <2>7, <3>2, ChildSet
    <3>3. CASE g = "right"
      BY <2>5, <2>7, <3>3, ChildSet
    <3> QED
      BY <3>1, <3>2, <3>3
  <2>9. SameButChildren(T, U) /\ Records(U, Vs)
    BY <2>5, <2>8 DEF SameButChildren, Records
  <2>10. Placed(U, D, loc)
    BY <2>9 DEF Placed, SameButChildren
  <2>11. ASSUME NEW t \in SlotsOf(D)
         PROVE  PointerOf(U, new, loc, t) = IF t = s THEN x ELSE PointerOf(T, bucket, loc, t)
    <3>1. ASSUME NEW c \in Buckets, t = <<"bucket", c>>
          PROVE  PointerOf(U, new, loc, t) = IF t = s THEN x ELSE PointerOf(T, bucket, loc, t)
      <4>1. t # s
        BY <2>1, <3>1, SlotIn
      <4> QED
        BY <2>6, <3>1, <4>1, PointerIs
    <3>2. ASSUME NEW f \in Sides, NEW r \in D, t = <<f, r>>
          PROVE  PointerOf(U, new, loc, t) = IF t = s THEN x ELSE PointerOf(T, bucket, loc, t)
      <4>1. loc[r] \in DOMAIN T /\ (loc[r] = o => r = p)
        BY <2>1, <2>2 DEF Placed
      <4>2. CASE r # p
        <5>1. U[loc[r]] = T[loc[r]] /\ t # s
          BY <2>1, <2>5, <3>2, <4>1, <4>2
        <5> QED
          BY <3>2, <5>1, TwoSides, PointerIs
      <4>3. CASE r = p /\ f = g
        <5>1. t = s /\ loc[r] = o
          BY <2>1, <2>2, <3>2, <4>3
        <5>2. CASE g = "left"
          BY <2>8, <3>2, <4>3, <5>1, <5>2, PointerIs
        <5>3. CASE g = "right"
          BY <2>8, <3>2, <4>3, <5>1, <5>3, PointerIs
        <5> QED
          BY <5>2, <5>3, <2>1, TwoSides
      <4>4. CASE r = p /\ f # g
        <5>1. t # s /\ loc[r] = o
          BY <2>1, <2>2, <3>2, <4>4
        <5>2. CASE g = "left"
          <6>1. f = "right"
            BY <3>2, <4>4, <5>2, TwoSides
          <6> QED
            BY <2>8, <3>2, <5>1, <5>2, <6>1, PointerIs
        <5>3. CASE g = "right"
          <6>1. f = "left"
            BY <3>2, <4>4, <5>3, TwoSides
          <6> QED
            BY <2>8, <3>2, <5>1, <5>3, <6>1, PointerIs
        <5> QED
          BY <5>2, <5>3, <2>1, TwoSides
      <4> QED
        BY <4>2, <4>3, <4>4
    <3> QED
      BY <3>1, <3>2, SlotKinds
  <2> QED
    BY <2>6, <2>9, <2>10, <2>11
<1> QED
  BY <1>1, <1>2

\* Another child makes no other records.
LEMMA PointedDomain ==
  ASSUME NEW T, NEW ent, NEW x, IsEntry(ent, T)
  PROVE  DOMAIN Pointed(T, ent, x) = DOMAIN T
BY PointedIs

\* The places of the records of E, and of k at o besides.
Within(loc, E) == [x \in E |-> loc[x]]
Moved(loc, E, k, o) == [x \in E |-> IF x = k THEN o ELSE loc[x]]

\* What is said of those places.
LEMMA WithinIs ==
  ASSUME NEW loc, NEW E
  PROVE  DOMAIN Within(loc, E) = E /\ \A x \in E : Within(loc, E)[x] = loc[x]
BY DEF Within

\* What is said of those places, and of the one that is new.
LEMMA MovedIs ==
  ASSUME NEW loc, NEW E, NEW k, NEW o
  PROVE  /\ DOMAIN Moved(loc, E, k, o) = E
         /\ \A x \in E : Moved(loc, E, k, o)[x] = IF x = k THEN o ELSE loc[x]
BY DEF Moved

\* The slots of E point to what they did, from the same entries.
PointersStay(T, loc, U, new, bucket, E) ==
  \A t \in SlotsOf(E) : /\ PointerOf(U, bucket, new, t) = PointerOf(T, bucket, loc, t)
                        /\ EntOf(new, t) = EntOf(loc, t)

\* The records but one, where they are.
LEMMA PlacedWithout ==
  ASSUME NEW T, NEW Vs, Records(T, Vs), NEW bucket, NEW D, NEW loc, Placed(T, D, loc), NEW k \in D,
         NEW E, E = D \ {k}, NEW U, U = Without(T, loc[k]), NEW new, new = Within(loc, E)
  PROVE  Placed(U, E, new) /\ Records(U, Vs) /\ PointersStay(T, loc, U, new, bucket, E)
<1>0. new = [x \in E |-> loc[x]]
  BY DEF Within
<1>1. DOMAIN U = DOMAIN T \ {loc[k]} /\ \A o \in DOMAIN U : U[o] = T[o]
  BY DEF Without
<1>2. /\ loc \in [D -> DOMAIN T] /\ DOMAIN T \subseteq Nat \ {0}
      /\ \A o \in DOMAIN T : T[o].key \in D /\ loc[T[o].key] = o
      /\ \A x \in D : T[loc[x]].key = x
  BY DEF Placed
<1>3. \A x \in E : loc[x] \in DOMAIN U /\ new[x] = loc[x] /\ U[new[x]] = T[loc[x]]
  <2> TAKE x \in E
  <2>1. x \in D /\ x # k /\ new[x] = loc[x]
    BY <1>0
  <2>2. loc[x] # loc[k] /\ loc[x] \in DOMAIN T
    BY <1>2, <2>1
  <2> QED
    BY <1>1, <2>1, <2>2
<1>4. \A o \in DOMAIN U : U[o].key \in E /\ new[U[o].key] = o
  <2> TAKE o \in DOMAIN U
  <2>1. o \in DOMAIN T /\ o # loc[k] /\ U[o] = T[o]
    BY <1>1
  <2>2. T[o].key \in D /\ loc[T[o].key] = o
    BY <1>2, <2>1
  <2>3. T[o].key \in E
    BY <2>1, <2>2
  <2> QED
    BY <1>3, <2>1, <2>2, <2>3
<1>5. Placed(U, E, new)
  <2>1. new \in [E -> DOMAIN U]
    BY <1>0, <1>3
  <2>2. \A x \in E : U[new[x]].key = x
    BY <1>2, <1>3
  <2> QED
    BY <1>1, <1>2, <1>4, <2>1, <2>2 DEF Placed
<1>6. Records(U, Vs)
  BY <1>1 DEF Records
<1>7. ASSUME NEW t \in SlotsOf(E)
      PROVE  PointerOf(U, bucket, new, t) = PointerOf(T, bucket, loc, t) /\ EntOf(new, t) = EntOf(loc, t)
  <2>1. ASSUME NEW b \in Buckets, t = <<"bucket", b>>
        PROVE  PointerOf(U, bucket, new, t) = PointerOf(T, bucket, loc, t) /\ EntOf(new, t) = EntOf(loc, t)
    <3>1. EntOf(new, t) = EntOf(loc, t)
      BY <2>1 DEF EntOf
    <3> QED
      BY <2>1, <3>1, PointerIs
  <2>2. ASSUME NEW f \in Sides, NEW r \in E, t = <<f, r>>
        PROVE  PointerOf(U, bucket, new, t) = PointerOf(T, bucket, loc, t) /\ EntOf(new, t) = EntOf(loc, t)
    <3>1. EntOf(new, t) = EntOf(loc, t)
      BY <1>3, <2>2 DEF EntOf
    <3>2. U[new[r]] = T[loc[r]]
      BY <1>3
    <3> QED
      BY <2>2, <3>1, <3>2, TwoSides, PointerIs
  <2>3. (\E b \in Buckets : t = <<"bucket", b>>) \/ \E f \in Sides, r \in E : t = <<f, r>>
    BY SlotKinds
  <2> QED
    BY <2>1, <2>2, <2>3
<1> QED
  BY <1>5, <1>6, <1>7 DEF PointersStay

\* What every slot points to once a record of k hangs in the slot s.
PointersAfter(T, bucket, loc, k, s, o, l, r, U, new, at2, E) ==
  \A t \in SlotsOf(E) : PointerOf(U, new, at2, t) =
     IF t = s THEN o
     ELSE IF t = <<"left", k>> THEN l
     ELSE IF t = <<"right", k>> THEN r ELSE PointerOf(T, bucket, loc, t)

\* One more record, in a slot.
LEMMA Hung ==
  ASSUME NEW T, NEW Vs, Records(T, Vs), NEW bucket, OnBuckets(bucket),
         NEW D, NEW loc, Placed(T, D, loc), NEW k \in Keys, k \notin D, NEW E, E = D \cup {k},
         NEW o \in Nat, o # 0, o \notin DOMAIN T, NEW n, NEW v, NEW l, NEW r,
         NEW rec, rec = Rec(n, k, v, l, r), IsRecord(rec, Vs),
         NEW s \in SlotsOf(D), s[1] = "bucket" => s = Home(k), NEW ent, ent = EntOf(loc, s),
         NEW at2, at2 = Moved(loc, E, k, o),
         NEW U, U = Pointed(Adding(T, o, rec), ent, o), NEW new, new = Headed(bucket, k, ent, o)
  PROVE  /\ Placed(U, E, at2) /\ Records(U, Vs) /\ OnBuckets(new)
         /\ PointersAfter(T, bucket, loc, k, s, o, l, r, U, new, at2, E)
<1>1. PICK A : A = Adding(T, o, rec)
  OBVIOUS
<1>2. DOMAIN A = DOMAIN T \cup {o} /\ A[o] = rec /\ \A p \in DOMAIN T : A[p] = T[p]
  BY <1>1 DEF Adding
<1>3. rec.key = k /\ rec.left = l /\ rec.right = r
  BY DEF Rec
<1>4. /\ loc \in [D -> DOMAIN T] /\ DOMAIN T \subseteq Nat \ {0}
      /\ \A p \in DOMAIN T : T[p].key \in D /\ loc[T[p].key] = p
      /\ \A x \in D : T[loc[x]].key = x
  BY DEF Placed
<1>5. Records(A, Vs)
  BY <1>2 DEF Records
<1>0. at2 = [x \in E |-> IF x = k THEN o ELSE loc[x]]
  BY DEF Moved
<1>6. at2[k] = o /\ \A x \in D : at2[x] = loc[x] /\ loc[x] \in DOMAIN T
  BY <1>0, <1>4
<1>7. Placed(A, E, at2)
  <2>1. at2 \in [E -> DOMAIN A]
    BY <1>0, <1>2, <1>4
  <2>2. ASSUME NEW p \in DOMAIN A
        PROVE  A[p].key \in E /\ at2[A[p].key] = p
    <3>1. CASE p = o
      BY <1>2, <1>3, <1>6, <3>1
    <3>2. CASE p # o
      <4>1. p \in DOMAIN T /\ A[p] = T[p]
        BY <1>2, <3>2
      <4>2. T[p].key \in D /\ loc[T[p].key] = p
        BY <1>4, <4>1
      <4> QED
        BY <1>6, <4>1, <4>2
    <3> QED
      BY <3>1, <3>2
  <2>3. ASSUME NEW x \in E
        PROVE  A[at2[x]].key = x
    <3>1. CASE x = k
      BY <1>2, <1>3, <1>6, <3>1
    <3>2. CASE x # k
      <4>1. x \in D /\ at2[x] = loc[x] /\ loc[x] \in DOMAIN T
        BY <1>6, <3>2
      <4> QED
        BY <1>2, <1>4, <4>1
    <3> QED
      BY <3>1, <3>2
  <2>4. DOMAIN A \subseteq Nat \ {0}
    BY <1>2, <1>4
  <2> QED
    BY <2>1, <2>2, <2>3, <2>4 DEF Placed
<1>8. \A t \in SlotsOf(D) : t \in SlotsOf(E)
  BY DEF SlotsOf
<1>9. EntOf(at2, s) = EntOf(loc, s)
  <2>1. ASSUME NEW b \in Buckets, s = <<"bucket", b>>
        PROVE  EntOf(at2, s) = EntOf(loc, s)
    BY <2>1 DEF EntOf
  <2>2. ASSUME NEW f \in Sides, NEW p \in D, s = <<f, p>>
        PROVE  EntOf(at2, s) = EntOf(loc, s)
    BY <1>6, <2>2 DEF EntOf
  <2>3. (\E b \in Buckets : s = <<"bucket", b>>) \/ \E f \in Sides, p \in D : s = <<f, p>>
    BY SlotKinds
  <2>4. CASE \E b \in Buckets : s = <<"bucket", b>>
    BY <2>1, <2>4
  <2> QED
    BY <2>2, <2>3, <2>4
<1>10. s \in SlotsOf(E) /\ ent = EntOf(at2, s) /\ U = Pointed(A, ent, o)
  BY <1>1, <1>8, <1>9
<1>11. /\ SameButChildren(A, U) /\ Records(U, Vs) /\ Placed(U, E, at2)
       /\ OnBuckets(new)
       /\ \A t \in SlotsOf(E) : PointerOf(U, new, at2, t)
                                = IF t = s THEN o ELSE PointerOf(A, bucket, at2, t)
  <2>1. PICK x, F, u : x = o /\ F = E /\ u = at2
    OBVIOUS
  <2>2. /\ Records(A, Vs) /\ Placed(A, F, u) /\ s \in SlotsOf(F) /\ ent = EntOf(u, s)
        /\ U = Pointed(A, ent, x) /\ new = Headed(bucket, k, ent, x) /\ x \in Nat
    BY <1>5, <1>7, <1>10, <2>1
  <2>3. /\ SameButChildren(A, U) /\ Records(U, Vs) /\ Placed(U, F, u)
        /\ OnBuckets(new)
        /\ \A t \in SlotsOf(F) : PointerOf(U, new, u, t)
                                 = IF t = s THEN x ELSE PointerOf(A, bucket, u, t)
    BY <2>2, PointerMoves
  <2> QED
    BY <2>1, <2>3
<1>12. ASSUME NEW t \in SlotsOf(E)
       PROVE  PointerOf(A, bucket, at2, t) =
                IF t = <<"left", k>> THEN l
                ELSE IF t = <<"right", k>> THEN r ELSE PointerOf(T, bucket, loc, t)
  <2>1. ASSUME NEW b \in Buckets, t = <<"bucket", b>>
        PROVE  PointerOf(A, bucket, at2, t) = PointerOf(T, bucket, loc, t)
               /\ t # <<"left", k>> /\ t # <<"right", k>>
    <3>1. PointerOf(A, bucket, at2, t) = PointerOf(T, bucket, loc, t)
      BY <2>1, PointerIs
    <3> QED
      BY <2>1, <3>1
  <2>2. ASSUME NEW f \in Sides, NEW p \in E, t = <<f, p>>
        PROVE  PointerOf(A, bucket, at2, t) =
                IF t = <<"left", k>> THEN l
                ELSE IF t = <<"right", k>> THEN r ELSE PointerOf(T, bucket, loc, t)
    <3>1. CASE p # k
      <4>1. A[at2[p]] = T[loc[p]]
        BY <1>2, <1>6, <3>1
      <4>2. PointerOf(A, bucket, at2, t) = PointerOf(T, bucket, loc, t)
        BY <2>2, <4>1, TwoSides, PointerIs
      <4>3. t # <<"left", k>> /\ t # <<"right", k>>
        BY <2>2, <3>1
      <4> QED
        BY <4>2, <4>3
    <3>2. CASE p = k
      <4>1. A[at2[p]].left = l /\ A[at2[p]].right = r
        BY <1>2, <1>3, <1>6, <3>2
      <4>2. CASE f = "left"
        <5>1. PointerOf(A, bucket, at2, t) = l
          BY <2>2, <4>1, <4>2, PointerIs
        <5> QED
          BY <2>2, <3>2, <4>2, <5>1
      <4>3. CASE f = "right"
        <5>1. PointerOf(A, bucket, at2, t) = r
          BY <2>2, <4>1, <4>3, PointerIs
        <5>2. t # <<"left", k>> /\ t = <<"right", k>>
          BY <2>2, <3>2, <4>3
        <5> QED
          BY <5>1, <5>2
      <4> QED
        BY <2>2, <4>2, <4>3, TwoSides
    <3> QED
      BY <3>1, <3>2
  <2>3. (\E b \in Buckets : t = <<"bucket", b>>) \/ \E f \in Sides, p \in E : t = <<f, p>>
    BY SlotKinds
  <2>4. CASE \E b \in Buckets : t = <<"bucket", b>>
    BY <2>1, <2>4
  <2> QED
    BY <2>2, <2>3, <2>4
<1> QED
  BY <1>11, <1>12 DEF PointersAfter

\* The slot in which a record hangs, if it is a bucket, is its bucket.
LEMMA HomeSlot ==
  ASSUME NEW D, NEW at, NEW sub, Tree(D, at, sub), NEW k \in D, NEW s \in SlotsOf(D), at[s] = k
  PROVE  s[1] = "bucket" => s = Home(k)
<1> SUFFICES ASSUME s[1] = "bucket"
             PROVE  s = Home(k)
  OBVIOUS
<1>1. PICK b \in Buckets : s = <<"bucket", b>>
  BY SlotKinds DEF Sides
<1>2. Below(sub, k) = {x \in D : BucketOf[x] = b}
  BY <1>1 DEF Tree
<1>3. k \in Below(sub, k)
  BY SelfBelow
<1> QED
  BY <1>1, <1>2, <1>3 DEF Home

---------------------------------------------------------------------------
(* What a file holds *)

\* The keys of records and their values.
Pairs(T) == {<<T[o].key, T[o].val>> : o \in DOMAIN T}
Contents(db) == Pairs(Index(db))

\* The pairs of other keys than k; those after k is given v.
Besides(C, k) == {p \in C : p[1] # k}
With(C, k, v) == Besides(C, k) \cup {<<k, v>>}

\* Children do not matter.
LEMMA PairsAlike ==
  ASSUME NEW T, NEW U, SameButChildren(T, U)
  PROVE  Pairs(U) = Pairs(T)
<1>1. DOMAIN U = DOMAIN T /\ \A o \in DOMAIN T : U[o].key = T[o].key /\ U[o].val = T[o].val
  BY DEF SameButChildren
<1>2. \A o \in DOMAIN T : <<U[o].key, U[o].val>> = <<T[o].key, T[o].val>>
  BY <1>1
<1> QED
  BY <1>1, <1>2 DEF Pairs

\* A record that is added adds its key and value,
LEMMA PairsAdded ==
  ASSUME NEW T, NEW o, o \notin DOMAIN T, NEW s
  PROVE  Pairs(Adding(T, o, s)) = Pairs(T) \cup {<<s.key, s.val>>}
<1>1. PICK A : A = Adding(T, o, s)
  OBVIOUS
<1>2. DOMAIN A = DOMAIN T \cup {o} /\ A[o] = s /\ \A p \in DOMAIN T : A[p] = T[p]
  BY <1>1 DEF Adding
<1>3. Pairs(A) = Pairs(T) \cup {<<s.key, s.val>>}
  BY <1>2 DEF Pairs
<1> QED
  BY <1>1, <1>3

\* ... and one that is removed takes them away.
LEMMA PairsWithout ==
  ASSUME NEW T, NEW D, NEW loc, Placed(T, D, loc), NEW k
  PROVE  /\ k \in D => Pairs(Without(T, loc[k])) = Besides(Pairs(T), k)
         /\ k \notin D => Besides(Pairs(T), k) = Pairs(T)
<1>1. /\ \A o \in DOMAIN T : T[o].key \in D /\ loc[T[o].key] = o
      /\ \A j \in D : loc[j] \in DOMAIN T /\ T[loc[j]].key = j
  BY DEF Placed
<1>2. ASSUME k \in D
      PROVE  Pairs(Without(T, loc[k])) = Besides(Pairs(T), k)
  <2>1. PICK l, U : l = loc[k] /\ U = Without(T, l)
    OBVIOUS
  <2>2. DOMAIN U = DOMAIN T \ {l} /\ \A o \in DOMAIN U : U[o] = T[o]
    BY <2>1 DEF Without
  <2>3. \A o \in DOMAIN T : o # l <=> T[o].key # k
    BY <1>1, <1>2, <2>1
  <2>4. ASSUME NEW p \in Pairs(U)
        PROVE  p \in Besides(Pairs(T), k)
    <3>1. PICK o \in DOMAIN U : p = <<U[o].key, U[o].val>>
      BY DEF Pairs
    <3>2. o \in DOMAIN T /\ o # l /\ U[o] = T[o]
      BY <2>2
    <3>3. p = <<T[o].key, T[o].val>> /\ p[1] # k
      BY <2>3, <3>1, <3>2
    <3> QED
      BY <3>2, <3>3 DEF Pairs, Besides
  <2>5. ASSUME NEW p \in Besides(Pairs(T), k)
        PROVE  p \in Pairs(U)
    <3>1. p[1] # k /\ \E o \in DOMAIN T : p = <<T[o].key, T[o].val>>
      BY DEF Pairs, Besides
    <3>2. PICK o \in DOMAIN T : p = <<T[o].key, T[o].val>>
      BY <3>1
    <3>3. o # l
      BY <2>3, <3>1, <3>2
    <3>4. o \in DOMAIN U /\ U[o] = T[o]
      BY <2>2, <3>3
    <3> QED
      BY <3>2, <3>4 DEF Pairs
  <2> QED
    BY <2>1, <2>4, <2>5
<1>3. ASSUME k \notin D
      PROVE  Besides(Pairs(T), k) = Pairs(T)
  BY <1>1, <1>3 DEF Pairs, Besides
<1> QED
  BY <1>2, <1>3

\* Every key is held once.
LEMMA PairsOnce ==
  ASSUME NEW T, NEW D, NEW loc, Placed(T, D, loc)
  PROVE  /\ \A p, q \in Pairs(T) : p[1] = q[1] => p = q
         /\ \A k \in D : <<k, T[loc[k]].val>> \in Pairs(T)
         /\ \A p \in Pairs(T) : p[1] \in D /\ p = <<p[1], T[loc[p[1]]].val>>
<1>1. /\ \A o \in DOMAIN T : T[o].key \in D /\ loc[T[o].key] = o
      /\ \A j \in D : loc[j] \in DOMAIN T /\ T[loc[j]].key = j
  BY DEF Placed
<1>2. \A k \in D : <<k, T[loc[k]].val>> \in Pairs(T)
  BY <1>1 DEF Pairs
<1>3. ASSUME NEW p \in Pairs(T)
      PROVE  p[1] \in D /\ p = <<p[1], T[loc[p[1]]].val>>
  <2>1. PICK o \in DOMAIN T : p = <<T[o].key, T[o].val>>
    BY DEF Pairs
  <2>2. p[1] = T[o].key /\ loc[p[1]] = o
    BY <1>1, <2>1
  <2> QED
    BY <1>1, <2>1, <2>2
<1>4. \A p, q \in Pairs(T) : p[1] = q[1] => p = q
  BY <1>3
<1> QED
  BY <1>2, <1>3, <1>4

\* Nor does what points to a record.
LEMMA PointedAlike ==
  ASSUME NEW T, NEW Vs, Records(T, Vs), NEW ent, IsEntry(ent, T), NEW x \in Nat
  PROVE  SameButChildren(T, Pointed(T, ent, x))
<1>1. PICK U : U = Pointed(T, ent, x)
  OBVIOUS
<1>2. /\ DOMAIN U = DOMAIN T
      /\ \A o \in DOMAIN T : o # ent.off \/ ent.side = "bucket" => U[o] = T[o]
      /\ ent.side = "left" => U[ent.off] = [T[ent.off] EXCEPT !.left = x]
      /\ ent.side = "right" => U[ent.off] = [T[ent.off] EXCEPT !.right = x]
      /\ \A o \in DOMAIN T : ent.side \in {"bucket", "left", "right"}
  BY <1>1, PointedIs
<1>3. ASSUME NEW o \in DOMAIN T
      PROVE  U[o].key = T[o].key /\ U[o].val = T[o].val
  <2>1. CASE o # ent.off \/ ent.side = "bucket"
    <3>1. U[o] = T[o]
      BY <1>2, <2>1
    <3> QED
      BY <3>1
  <2>2. CASE o = ent.off /\ ent.side # "bucket"
    <3>1. U[o] = [T[o] EXCEPT !.left = x] \/ U[o] = [T[o] EXCEPT !.right = x]
      <4>1. ent.side = "left" \/ ent.side = "right"
        BY <1>2, <2>2
      <4> QED
        BY <1>2, <2>2, <4>1
    <3>2. IsRecord(T[o], Vs)
      BY DEF Records
    <3> QED
      BY <3>1, <3>2, ChildSet
  <2> QED
    BY <2>1, <2>2
<1> QED
  BY <1>1, <1>2, <1>3 DEF SameButChildren

\* A record that is written is held.
LEMMA WrittenPairs ==
  ASSUME NEW T, NEW Vs, Records(T, Vs), NEW r, NEW ent, IsEntry(ent, T), NEW o \in Nat, o \notin DOMAIN T,
         IsRecord(r, Vs), NEW U, U = Pointed(Adding(T, o, r), ent, o)
  PROVE  Pairs(U) = Pairs(T) \cup {<<r.key, r.val>>}
<1>1. PICK A : A = Adding(T, o, r)
  OBVIOUS
<1>2. DOMAIN A = DOMAIN T \cup {o} /\ A[o] = r /\ \A p \in DOMAIN T : A[p] = T[p]
  BY <1>1 DEF Adding
<1>3. Records(A, Vs) /\ IsEntry(ent, A)
  BY <1>2 DEF Records, IsEntry
<1>4. SameButChildren(A, U)
  BY <1>1, <1>3, PointedAlike
<1>5. Pairs(A) = Pairs(T) \cup {<<r.key, r.val>>}
  BY <1>1, PairsAdded
<1> QED
  BY <1>4, <1>5, PairsAlike

---------------------------------------------------------------------------
(* tchdbput *)

\* ... and are counted.
Treed(db, Vs, D, at, sub, loc) == Rooted(db, Vs, D, at, sub, loc) /\ db.rnum = Cardinality(D)

Sound(db, Vs) == \E D, at, sub, loc : Treed(db, Vs, D, at, sub, loc)

\* The index of a file holds records.
LEMMA RecordsOf ==
  ASSUME NEW db, NEW Vs, Clean(db, Vs)
  PROVE  Records(Index(db), Vs)
BY IndexIs DEF Records

\* The header of the file counts.
LEMMA RnumSet ==
  ASSUME NEW db, NEW Vs, Clean(db, Vs), NEW n, NEW d, d = SetRnum(db, n)
  PROVE  Clean(d, Vs) /\ Index(d) = Index(db) /\ d.bucket = db.bucket /\ d.rnum = n
<1>1. IsDB(db)
  BY DEF Clean, Kept
<1>2. /\ IsDB(d) /\ d.seg = db.seg /\ d.bucket = db.bucket
      /\ d.rnum = n /\ d.fsiz = db.fsiz /\ d.pool = db.pool
  BY <1>1, SetRnumIs
<1> QED
  BY <1>2 DEF Clean, Kept, Index

\* A record is written over, in its place or another.
LEMMA OverwriteIs ==
  ASSUME NEW db, NEW Vs, Sizable(Vs), NEW D, NEW at, NEW sub, NEW loc, Treed(db, Vs, D, at, sub, loc),
         NEW k \in D, NEW v \in Vs, NEW s \in SlotsOf(D), at[s] = k, NEW ent, ent = EntOf(loc, s),
         NEW d, d = WriteRec(db, loc[k], db.seg[loc[k]].rsiz, [db.seg[loc[k]] EXCEPT !.val = v], ent)
  PROVE  /\ \E at2 : Treed(d, Vs, D, at, sub, at2)
         /\ Contents(d) = With(Contents(db), k, v)
<1>1. PICK T : T = Index(db)
  OBVIOUS
<1>2. /\ Clean(db, Vs) /\ Indexed(T, db.bucket, D, at, sub, loc) /\ Records(T, Vs)
      /\ Tree(D, at, sub) /\ Placed(T, D, loc) /\ PointsAs(T, db.bucket, D, at, loc)
  BY <1>1, RecordsOf, IndexedAs DEF Treed, Rooted
<1>3. PICK o, n, rec : o = loc[k] /\ n = db.seg[o].rsiz /\ rec = [db.seg[o] EXCEPT !.val = v]
  OBVIOUS
<1>4. PICK x : Grows(o, n, x)
  BY DEF Grows
<1>5. o \in DOMAIN T /\ T[o] = db.seg[o] /\ T[o].key = k /\ IsRecord(T[o], Vs)
  <2>1. o \in DOMAIN T /\ T[o].key = k
    BY <1>2, <1>3 DEF Placed
  <2>2. T[o] = db.seg[o]
    BY <1>1, <1>2, <2>1, IndexIs
  <2> QED
    BY <1>2, <2>1, <2>2 DEF Records
<1>6. PICK T1 : T1 = Without(T, o)
  OBVIOUS
<1>7. /\ Kept(db, o, x, Vs) /\ Table(db.seg, o, x) = T1
      /\ n \in Nat \ {0} /\ o \in Nat /\ o < x /\ x \in Nat /\ x = o + n
  BY <1>1, <1>2, <1>3, <1>4, <1>5, <1>6, RecordOut
<1>8. PICK l, r : l = T[o].left /\ r = T[o].right
  OBVIOUS
<1>9. /\ rec.key = k /\ rec.val = v /\ rec.left = l /\ rec.right = r /\ IsDraft(rec, Vs)
      /\ k \in Keys
  <2>1. /\ T[o] = Rec(T[o].rsiz, T[o].key, T[o].val, T[o].left, T[o].right)
        /\ T[o].key \in Keys /\ l \in Nat /\ r \in Nat
    BY <1>5, <1>8, SegIs DEF IsRecord
  <2>2. rec = Rec(T[o].rsiz, T[o].key, v, l, r)
    BY <1>3, <1>5, <1>8, <2>1 DEF Rec
  <2>3. rec.key = k /\ rec.val = v /\ rec.left = l /\ rec.right = r
    BY <1>5, <2>2 DEF Rec
  <2> QED
    BY <1>5, <2>1, <2>3 DEF IsDraft
<1>10. PICK E, at1 : E = D \ {k} /\ at1 = Within(loc, E)
  OBVIOUS
<1>11. /\ Placed(T1, E, at1) /\ Records(T1, Vs)
       /\ \A t \in SlotsOf(E) : /\ PointerOf(T1, db.bucket, at1, t) = PointerOf(T, db.bucket, loc, t)
                                /\ EntOf(at1, t) = EntOf(loc, t)
  <2>1. PICK heads : heads = db.bucket
    OBVIOUS
  <2>2. T1 = Without(T, loc[k])
    BY <1>3, <1>6
  <2>3. Placed(T1, E, at1) /\ Records(T1, Vs) /\ PointersStay(T, loc, T1, at1, heads, E)
    BY <1>2, <1>10, <2>2, PlacedWithout
  <2> QED
    BY <2>1, <2>3 DEF PointersStay
<1>12. s \in SlotsOf(E) /\ \A t \in SlotsOf(D) : at[t] = k => t = s
  BY <1>2, <1>10, SlotsWithout
<1>13. ent = EntOf(at1, s) /\ IsEntry(ent, T1)
  <2>1. ent = EntOf(at1, s)
    BY <1>11, <1>12
  <2>2. ASSUME NEW f \in Sides, NEW p \in E, s = <<f, p>>
        PROVE  IsEntry(ent, T1)
    <3>1. ent = [off |-> at1[p], side |-> f] /\ at1[p] \in DOMAIN T1
      BY <1>11, <2>1, <2>2 DEF EntOf, Child, Sides, Placed
    <3> QED
      BY <3>1 DEF IsEntry
  <2>3. ASSUME NEW b \in Buckets, s = <<"bucket", b>>
        PROVE  IsEntry(ent, T1)
    BY <2>1, <2>3 DEF EntOf, Root, IsEntry
  <2>4. (\E b \in Buckets : s = <<"bucket", b>>) \/ \E f \in Sides, p \in E : s = <<f, p>>
    BY <1>12, SlotKinds
  <2> QED
    BY <2>1, <2>2, <2>3, <2>4
<1>14. Written(T1, db, d, rec, ent, Vs)
  <2>1. d = WriteRec(db, o, n, rec, ent)
    BY <1>3
  <2>2. n # 0 /\ n \in Nat
    BY <1>7
  <2> QED
    BY <1>7, <1>9, <1>13, <2>1, <2>2, WriteRecIs
<1>15. PICK o2, m : WrittenAt(T1, db, d, rec, ent, o2, m, Vs)
  BY <1>14 DEF Written
<1>16. PICK new : new = Rec(m, k, v, l, r)
  OBVIOUS
<1>17. /\ o2 \in Nat /\ o2 \notin DOMAIN T1 /\ IsRecord(new, Vs)
       /\ Index(d) = Pointed(Adding(T1, o2, new), ent, o2)
       /\ d.bucket = Headed(db.bucket, k, ent, o2) /\ d.rnum = db.rnum /\ Clean(d, Vs)
  BY <1>9, <1>15, <1>16 DEF WrittenAt
<1>18. o2 # 0
  <2>1. IsEntry(ent, Adding(T1, o2, new))
    BY <1>13 DEF IsEntry, Adding
  <2>2. o2 \in DOMAIN Index(d)
    <3>1. PICK A : A = Adding(T1, o2, new)
      OBVIOUS
    <3>2. DOMAIN Pointed(A, ent, o2) = DOMAIN A
      BY <2>1, <3>1, PointedDomain
    <3>3. o2 \in DOMAIN A
      BY <3>1 DEF Adding
    <3> QED
      BY <1>17, <3>1, <3>2, <3>3
  <2> QED
    BY <1>17, <2>2, IndexIs
<1>19. PICK at2, U, heads : /\ at2 = Moved(at1, D, k, o2)
                            /\ U = Index(d) /\ heads = d.bucket
  OBVIOUS
<1>20. /\ Placed(U, D, at2) /\ Records(U, Vs) /\ OnBuckets(heads)
       /\ PointersAfter(T1, db.bucket, at1, k, s, o2, l, r, U, heads, at2, D)
  <2>1. D = E \cup {k} /\ k \notin E
    BY <1>10
  <2>2. s[1] = "bucket" => s = Home(k)
    BY <1>2, HomeSlot
  <2>3. OnBuckets(db.bucket)
    BY <1>2 DEF PointsAs
  <2> QED
    BY <1>9, <1>11, <1>12, <1>13, <1>16, <1>17, <1>18, <1>19, <2>1, <2>2, <2>3, Hung
<1>21. ASSUME NEW t \in SlotsOf(D)
       PROVE  PointerOf(U, heads, at2, t) = Addr(at2, at[t])
  <2>1. at[t] \in Ptr(D) /\ Nothing \notin D
    BY <1>2, KeysInBuckets DEF Tree
  <2>2. at[t] # k => Addr(at2, at[t]) = Addr(loc, at[t])
    <3>1. ASSUME at[t] \in D, at[t] # k
          PROVE  at2[at[t]] = loc[at[t]]
      <4>1. at[t] \in E /\ at1[at[t]] = loc[at[t]]
        BY <1>10, <3>1, WithinIs
      <4> QED
        BY <1>19, <3>1, <4>1, MovedIs
    <3> QED
      BY <2>1, <3>1 DEF Addr, Ptr
  <2>3. PointerOf(T, db.bucket, loc, t) = Addr(loc, at[t])
    BY <1>2 DEF PointsAs
  <2>4. PointerOf(U, heads, at2, t) =
          IF t = s THEN o2
          ELSE IF t = <<"left", k>> THEN l
          ELSE IF t = <<"right", k>> THEN r ELSE PointerOf(T1, db.bucket, at1, t)
    BY <1>20 DEF PointersAfter
  <2>5. CASE t = s
    <3>1. Addr(at2, k) = o2
      BY <1>19, <2>1, MovedIs DEF Addr
    <3> QED
      BY <2>4, <2>5, <3>1
  <2>6. CASE t # s /\ t = <<"left", k>>
    <3>1. PointerOf(T, db.bucket, loc, t) = l
      BY <1>3, <1>8, <2>6, PointerIs
    <3>2. at[t] # k
      BY <1>12, <2>6
    <3> QED
      BY <2>2, <2>3, <2>4, <2>6, <3>1, <3>2
  <2>7. CASE t # s /\ t = <<"right", k>>
    <3>1. PointerOf(T, db.bucket, loc, t) = r
      BY <1>3, <1>8, <2>7, PointerIs
    <3>2. at[t] # k /\ t # <<"left", k>>
      BY <1>12, <2>7
    <3> QED
      BY <2>2, <2>3, <2>4, <2>7, <3>1, <3>2
  <2>8. CASE t # s /\ t # <<"left", k>> /\ t # <<"right", k>>
    <3>1. t \in SlotsOf(E)
      <4>1. ASSUME NEW f \in Sides, NEW p \in D, t = <<f, p>>
            PROVE  t \in SlotsOf(E)
        <5>1. p # k
          BY <2>8, <4>1, TwoSides
        <5> QED
          BY <1>10, <4>1, <5>1, SlotIn
      <4>2. (\E b \in Buckets : t = <<"bucket", b>>) \/ \E f \in Sides, p \in D : t = <<f, p>>
        BY SlotKinds
      <4>3. CASE \E b \in Buckets : t = <<"bucket", b>>
        BY <4>3, SlotIn
      <4> QED
        BY <4>1, <4>2, <4>3
    <3>2. at[t] # k
      BY <1>12, <2>8
    <3> QED
      BY <1>11, <2>2, <2>3, <2>4, <2>8, <3>1, <3>2
  <2> QED
    BY <2>5, <2>6, <2>7, <2>8
<1>22. Indexed(U, heads, D, at, sub, at2)
  BY <1>2, <1>20, <1>21, IndexedAs DEF PointsAs
<1>23. Contents(d) = With(Contents(db), k, v)
  <2>1. Pairs(T1) = Besides(Pairs(T), k)
    BY <1>2, <1>3, <1>6, PairsWithout
  <2>2. new.key = k /\ new.val = v
    BY <1>16 DEF Rec
  <2>3. PICK V : V = Index(d)
    OBVIOUS
  <2>4. Pairs(V) = Pairs(T1) \cup {<<k, v>>}
    BY <1>11, <1>13, <1>17, <2>2, <2>3, WrittenPairs
  <2> QED
    BY <1>1, <2>1, <2>3, <2>4 DEF Contents, With
<1> QED
  BY <1>17, <1>19, <1>22, <1>23 DEF Treed, Rooted

\* A record is inserted.
LEMMA InsertedIs ==
  ASSUME NEW db, NEW Vs, Sizable(Vs), NEW D, NEW at, NEW sub, NEW loc, Treed(db, Vs, D, at, sub, loc),
         NEW k \in Keys, k \notin D, NEW v \in Vs, NEW f, Descends(D, at, k, f),
         NEW s, s = f[Home(k)], NEW ent, ent = EntOf(loc, s),
         NEW d, d = InsertIn(FbpSearch(db, HeadSize), k, v, ent)
  PROVE  Sound(d, Vs) /\ Contents(d) = With(Contents(db), k, v)
<1>1. PICK T : T = Index(db)
  OBVIOUS
<1>2. /\ Clean(db, Vs) /\ Indexed(T, db.bucket, D, at, sub, loc) /\ Records(T, Vs)
      /\ Tree(D, at, sub) /\ Placed(T, D, loc) /\ PointsAs(T, db.bucket, D, at, loc)
      /\ db.rnum = Cardinality(D) /\ k # Nothing /\ Nothing \notin D
  BY <1>1, RecordsOf, IndexedAs, KeysInBuckets DEF Treed, Rooted, Tree
<1>3. PICK g : g = FbpSearch(db, HeadSize)
  OBVIOUS
<1>4. Region(g, HeadSize, Vs) /\ Offers(db, db.fsiz, db.fsiz, g)
  BY <1>2, <1>3, SearchIs, LayoutSizes DEF Clean
<1>5. PICK a, n, x : a = g.off /\ n = g.rsiz /\ x = a + n
  OBVIOUS
<1>6. /\ n \in Nat /\ Kept(g.db, a, x, Vs) /\ (n = 0 => a = g.db.fsiz)
      /\ g.db.bucket = db.bucket /\ g.db.rnum = db.rnum /\ Table(g.db.seg, a, x) = T
  BY <1>1, <1>4, <1>5 DEF Region, Offers, Alike, Index
<1>7. PICK up : s \in SlotsOf(D) /\ at[s] = Nothing /\ Passed(D, at, k, s, up)
  BY <1>2, PathExists
<1>8. s[1] = "bucket" => s = Home(k)
  BY <1>7 DEF Passed, Sides
<1>9. PICK rec, w : rec = Rec(0, k, v, 0, 0) /\ w = WriteRec(g.db, a, n, rec, ent)
  OBVIOUS
<1>10. d = SetRnum(w, g.db.rnum + 1)
  BY <1>3, <1>5, <1>9 DEF InsertIn
<1>11. IsEntry(ent, T)
  BY <1>2, <1>7, AddrIs
<1>12. rec.key = k /\ rec.val = v /\ rec.left = 0 /\ rec.right = 0 /\ IsDraft(rec, Vs)
  BY <1>9 DEF IsDraft, Rec
<1>13. Written(T, g.db, w, rec, ent, Vs)
  <2>1. PICK d1 : d1 = g.db
    OBVIOUS
  <2>2. /\ Kept(d1, a, x, Vs) /\ (n = 0 => a = d1.fsiz) /\ T = Table(d1.seg, a, x)
        /\ w = WriteRec(d1, a, n, rec, ent)
    BY <1>6, <1>9, <2>1
  <2>3. Written(T, d1, w, rec, ent, Vs)
    BY <1>5, <1>6, <1>11, <1>12, <2>2, WriteRecIs
  <2> QED
    BY <2>1, <2>3
<1>14. PICK o, m : WrittenAt(T, g.db, w, rec, ent, o, m, Vs)
  BY <1>13 DEF Written
<1>15. PICK new : new = Rec(m, k, v, 0, 0)
  OBVIOUS
<1>16. /\ o \in Nat /\ o \notin DOMAIN T /\ IsRecord(new, Vs)
       /\ Index(w) = Pointed(Adding(T, o, new), ent, o)
       /\ w.bucket = Headed(db.bucket, k, ent, o) /\ w.rnum = db.rnum /\ Clean(w, Vs)
  BY <1>6, <1>12, <1>14, <1>15 DEF WrittenAt
<1>17. o # 0
  <2>1. PICK A : A = Adding(T, o, new)
    OBVIOUS
  <2>2. IsEntry(ent, A) /\ o \in DOMAIN A
    BY <1>11, <2>1 DEF IsEntry, Adding
  <2>3. o \in DOMAIN Index(w)
    BY <1>16, <2>1, <2>2, PointedDomain
  <2> QED
    BY <1>16, <2>3, IndexIs
<1>18. PICK E, loc2, U, heads : E = D \cup {k} /\ loc2 = Moved(loc, E, k, o) /\ U = Index(w) /\ heads = w.bucket
  OBVIOUS
<1>19. /\ Placed(U, E, loc2) /\ Records(U, Vs) /\ OnBuckets(heads)
       /\ PointersAfter(T, db.bucket, loc, k, s, o, 0, 0, U, heads, loc2, E)
  <2>1. OnBuckets(db.bucket)
    BY <1>2 DEF PointsAs
  <2> QED
    BY <1>2, <1>7, <1>8, <1>15, <1>16, <1>17, <1>18, <2>1, Hung
<1>20. PICK at2 : at2 = Planting(D, at, E, s, k)
  OBVIOUS
<1>21. PICK sub2 : Tree(E, at2, sub2)
  <2>1. PICK F : F = E
    OBVIOUS
  <2>2. F = D \cup {k} /\ at2 = Planting(D, at, F, s, k)
    BY <1>18, <1>20, <2>1
  <2>3. \E sub2 : Tree(F, at2, sub2)
    BY <1>2, <2>2, Planted
  <2> QED
    BY <2>1, <2>3
<1>22. ASSUME NEW t \in SlotsOf(E)
       PROVE  PointerOf(U, heads, loc2, t) = Addr(loc2, at2[t])
  <2>1. PointerOf(U, heads, loc2, t) =
          IF t = s THEN o
          ELSE IF t = <<"left", k>> THEN 0
          ELSE IF t = <<"right", k>> THEN 0 ELSE PointerOf(T, db.bucket, loc, t)
    BY <1>19 DEF PointersAfter
  <2>2. at2[t] = IF t = s THEN k ELSE IF t \in SlotsOf(D) THEN at[t] ELSE Nothing
    BY <1>20 DEF Planting
  <2>3. CASE t = s
    <3>1. at2[t] = k /\ loc2[k] = o
      BY <1>18, <2>2, <2>3, MovedIs
    <3> QED
      BY <1>2, <2>1, <2>3, <3>1 DEF Addr
  <2>4. ASSUME NEW h \in Sides, t # s, t = <<h, k>>
        PROVE  PointerOf(U, heads, loc2, t) = Addr(loc2, at2[t])
    <3>1. PointerOf(U, heads, loc2, t) = 0
      BY <2>1, <2>4, TwoSides
    <3>2. t \notin SlotsOf(D)
      BY <1>2, <2>4, TwoSides DEF SlotsOf
    <3> QED
      BY <2>2, <2>4, <3>1, <3>2 DEF Addr
  <2>5. CASE t # s /\ t # <<"left", k>> /\ t # <<"right", k>>
    <3>1. t \in SlotsOf(D)
      <4>1. ASSUME NEW h \in Sides, NEW p \in E, t = <<h, p>>
            PROVE  t \in SlotsOf(D)
        <5>1. p # k
          BY <2>5, <4>1, TwoSides
        <5> QED
          BY <1>18, <4>1, <5>1, SlotIn
      <4>2. (\E b \in Buckets : t = <<"bucket", b>>) \/ \E h \in Sides, p \in E : t = <<h, p>>
        BY SlotKinds
      <4>3. CASE \E b \in Buckets : t = <<"bucket", b>>
        BY <4>3, SlotIn
      <4> QED
        BY <4>1, <4>2, <4>3
    <3>2. PointerOf(T, db.bucket, loc, t) = Addr(loc, at[t])
      BY <1>2, <3>1 DEF PointsAs
    <3>3. at2[t] = at[t] /\ at[t] \in Ptr(D)
      BY <1>2, <2>2, <2>5, <3>1 DEF Tree
    <3>4. Addr(loc2, at[t]) = Addr(loc, at[t])
      <4>1. ASSUME at[t] \in D
            PROVE  loc2[at[t]] = loc[at[t]]
        <5>1. at[t] \in E /\ at[t] # k
          BY <1>18, <4>1
        <5> QED
          BY <1>18, <5>1, MovedIs
      <4> QED
        BY <3>3, <4>1 DEF Addr, Ptr
    <3> QED
      BY <2>1, <2>5, <3>2, <3>3, <3>4
  <2> QED
    BY <2>3, <2>4, <2>5, TwoSides
<1>23. Indexed(U, heads, E, at2, sub2, loc2)
  BY <1>19, <1>21, <1>22, IndexedAs DEF PointsAs
<1>24. Clean(d, Vs) /\ Index(d) = U /\ d.bucket = heads /\ d.rnum = db.rnum + 1
  BY <1>6, <1>10, <1>16, <1>18, RnumSet
<1>25. Cardinality(E) = Cardinality(D) + 1
  BY <1>2, <1>18, FS_AddElement DEF Tree
<1>26. Contents(d) = With(Contents(db), k, v)
  <2>1. Besides(Pairs(T), k) = Pairs(T)
    BY <1>2, PairsWithout
  <2>2. new.key = k /\ new.val = v
    BY <1>15 DEF Rec
  <2>3. Pairs(U) = Pairs(T) \cup {<<k, v>>}
    BY <1>2, <1>11, <1>16, <1>18, <2>2, WrittenPairs
  <2> QED
    BY <1>1, <1>24, <2>1, <2>3 DEF Contents, With
<1> QED
  BY <1>2, <1>23, <1>24, <1>25, <1>26 DEF Sound, Treed, Rooted

\* tchdbput keeps the file sound, and the key holds the value.
LEMMA PutIs ==
  ASSUME NEW db, NEW Vs, Sizable(Vs), Sound(db, Vs), NEW k \in Keys, NEW v \in Vs
  PROVE  /\ Sound(PutRec(db, Find(db, k), k, v), Vs)
         /\ Contents(PutRec(db, Find(db, k), k, v)) = With(Contents(db), k, v)
<1>1. PICK D, at, sub, loc : Treed(db, Vs, D, at, sub, loc)
  BY DEF Sound
<1>2. /\ Clean(db, Vs) /\ Indexed(Index(db), db.bucket, D, at, sub, loc) /\ Tree(D, at, sub)
      /\ Rooted(db, Vs, D, at, sub, loc)
  BY <1>1 DEF Treed, Rooted, Indexed
<1>3. PICK f : Descends(D, at, k, f)
  BY <1>2, DescentEnds
<1>4. PICK s : s = f[Home(k)]
  OBVIOUS
<1>5. PICK p : p = Find(db, k)
  OBVIOUS
<1>6. p = At(loc, at, s)
  <2>1. Find(db, k) = At(loc, at, f[Home(k)])
    BY <1>2, <1>3, FindIs
  <2> QED
    BY <1>4, <1>5, <2>1
<1>7. p.off = Addr(loc, at[s]) /\ p.ent = EntOf(loc, s)
  BY <1>6 DEF At
<1>8. k # Nothing
  BY KeysInBuckets
<1>9. CASE k \in D
  <2>1. at[s] = k /\ s \in SlotsOf(D)
    BY <1>2, <1>3, <1>4, <1>9, SlotUnique
  <2>2. loc[k] # 0
    BY <1>2, <1>9 DEF Indexed
  <2>3. p.off = loc[k] /\ p.off # 0
    BY <1>7, <1>8, <2>1, <2>2 DEF Addr
  <2>4. PICK d : d = PutRec(db, p, k, v)
    OBVIOUS
  <2>5. d = WriteRec(db, loc[k], db.seg[loc[k]].rsiz, [db.seg[loc[k]] EXCEPT !.val = v], EntOf(loc, s))
    BY <1>7, <2>3, <2>4 DEF PutRec, OverwriteRec
  <2>6. (\E at2 : Treed(d, Vs, D, at, sub, at2)) /\ Contents(d) = With(Contents(db), k, v)
    <3>1. PICK ent : ent = EntOf(loc, s)
      OBVIOUS
    <3>2. d = WriteRec(db, loc[k], db.seg[loc[k]].rsiz, [db.seg[loc[k]] EXCEPT !.val = v], ent)
      BY <2>5, <3>1
    <3>3. \E at2 : Treed(d, Vs, D, at, sub, at2)
      BY <1>1, <1>9, <2>1, <3>1, <3>2, OverwriteIs
    <3>4. Contents(d) = With(Contents(db), k, v)
      BY <1>1, <1>9, <2>1, <3>1, <3>2, OverwriteIs
    <3> QED
      BY <3>3, <3>4
  <2> QED
    BY <1>5, <2>4, <2>6 DEF Sound
<1>10. CASE k \notin D
  <2>1. s \in SlotsOf(D) /\ at[s] = Nothing
    BY <1>2, <1>3, <1>4, <1>10, PathExists
  <2>2. p.off = 0
    BY <1>7, <2>1 DEF Addr
  <2>3. PICK d : d = PutRec(db, p, k, v)
    OBVIOUS
  <2>4. d = InsertIn(FbpSearch(db, HeadSize), k, v, EntOf(loc, s))
    BY <1>7, <2>2, <2>3 DEF PutRec, InsertRec
  <2>5. Sound(d, Vs) /\ Contents(d) = With(Contents(db), k, v)
    BY <1>1, <1>3, <1>4, <1>10, <2>4, InsertedIs
  <2> QED
    BY <1>5, <2>3, <2>5
<1> QED
  BY <1>9, <1>10

---------------------------------------------------------------------------
(* tchdbout *)

\* A record becomes a free block.
LEMMA FreedIs ==
  ASSUME NEW db, NEW Vs, Clean(db, Vs), NEW T, T = Index(db), NEW o \in DOMAIN T,
         NEW f, f.off = o, NEW r, r = db.seg[o], NEW d, d = FreeFound(db, f, r)
  PROVE  /\ Clean(d, Vs) /\ Index(d) = Without(T, o) /\ d.bucket = db.bucket /\ d.rnum = db.rnum
<1>1. PICK n : n = db.seg[o].rsiz
  OBVIOUS
<1>2. PICK x : Grows(o, n, x)
  BY DEF Grows
<1>3. /\ Kept(db, o, x, Vs) /\ Table(db.seg, o, x) = Without(T, o)
      /\ n \in Nat \ {0} /\ o \in Nat /\ o < x /\ x \in Nat /\ x = o + n
  BY <1>1, <1>2, RecordOut
<1>4. d = FbpInsert(WriteFB(db, o, n), o, n)
  BY <1>1 DEF FreeFound
<1>5. Aligned(o)
  BY <1>3, KeptIs
<1>6. n = x - o /\ o <= o
  BY <1>3
<1>7. Kept(d, d.fsiz, d.fsiz, Vs) /\ Alike(db, o, x, d, d.fsiz, d.fsiz)
  BY <1>3, <1>4, <1>5, <1>6, GivenBack
<1> QED
  BY <1>3, <1>7 DEF Clean, Alike, Index

\* The walk to the last record of the left subtree.
LEMMA LastIs ==
  ASSUME NEW db, NEW Vs, Clean(db, Vs), NEW T, NEW heads, NEW D, NEW at, NEW sub, NEW loc,
         Indexed(T, heads, D, at, sub, loc), NEW k \in D, Index(db) = Without(T, loc[k]),
         NEW w, GoesRight(D, at, w), NEW l \in D, k \notin sub[l], NEW y, y # 0,
         NEW d, d = Join(db, k, loc[l], y)
  PROVE  d = SetEntry(db, k, Child(loc[w[l]], "right"), y)
<1> DEFINE IsLast(last) == last = [o \in Nat |-> IF ~IsRec(db, o) \/ db.seg[o].right = 0 THEN o
                                                 ELSE last[db.seg[o].right]]
<1> DEFINE stop == {o \in Nat : ~IsRec(db, o) \/ db.seg[o].right = 0}
<1> DEFINE nx == [o \in Nat |-> IF o \in stop THEN o ELSE db.seg[o].right]
<1>1. PICK T1 : T1 = Without(T, loc[k])
  OBVIOUS
<1>2. /\ \A o \in Nat : IsRec(db, o) => o \in DOMAIN T1 /\ T1[o] = db.seg[o]
      /\ \A o \in DOMAIN T1 : IsRec(db, o) /\ T1[o] = db.seg[o] /\ o \in Nat
  BY <1>1, IndexIs, Zenon DEF IsRec, IsFB
<1>3. \A o : o \in DOMAIN T1 <=> o \in DOMAIN T /\ o # loc[k]
  BY <1>1 DEF Without
<1>4. \A o \in DOMAIN T1 : T1[o] = T[o]
  BY <1>1 DEF Without
<1>5. PICK cnt \in [Nat -> Nat], n \in Nat :
           /\ \A o \in Nat : cnt[o] < n
           /\ \A o \in DOMAIN T : /\ T[o].left \in Nat /\ T[o].right \in Nat
                                  /\ cnt[T[o].left] < cnt[o] /\ cnt[T[o].right] < cnt[o]
  BY RecordSizes
<1>6. ASSUME NEW o \in Nat, o \notin stop
      PROVE  nx[o] = db.seg[o].right /\ nx[o] \in Nat /\ cnt[nx[o]] < cnt[o]
  <2>1. IsRec(db, o) /\ nx[o] = db.seg[o].right
    BY <1>6
  <2>2. o \in DOMAIN T /\ T[o] = db.seg[o]
    BY <1>2, <1>3, <1>4, <2>1
  <2> HIDE DEF nx, stop
  <2> QED
    BY <1>5, <2>1, <2>2
<1>7. Lessens(Nat, stop, nx, cnt, n)
  <2>1. nx \in [Nat -> Nat]
    <3>1. \A o \in Nat : nx[o] \in Nat
      <4>1. \A o \in stop : nx[o] = o
        OBVIOUS
      <4> HIDE DEF nx, stop
      <4> QED
        BY <1>6, <4>1
    <3>2. nx = [o \in Nat |-> nx[o]]
      OBVIOUS
    <3> HIDE DEF nx
    <3> QED
      BY <3>1, <3>2
  <2> HIDE DEF nx, stop
  <2> QED
    BY <1>5, <1>6, <2>1 DEF Lessens
<1>8. PICK g : Walks(Nat, stop, nx, g)
  <2> HIDE DEF nx, stop
  <2> QED
    BY <1>7, WalkEnds
<1>9. g \in [Nat -> Nat] /\ \A o \in Nat : g[o] = IF o \in stop THEN o ELSE g[nx[o]]
  <2> HIDE DEF nx, stop
  <2> QED
    BY <1>8 DEF Walks
<1>10. \A o \in Nat : g[o] = IF ~IsRec(db, o) \/ db.seg[o].right = 0 THEN o ELSE g[db.seg[o].right]
  BY <1>9
<1>11. IsLast(g)
  <2>1. g = [o \in Nat |-> g[o]]
    BY <1>9
  <2> QED
    BY <1>10, <2>1, Zenon
<1>12. PICK last : IsLast(last) /\ last = CHOOSE h : IsLast(h)
  <2> HIDE DEF IsLast
  <2> QED
    BY <1>11, Zenon
<1>13. \A o \in Nat : last[o] = IF ~IsRec(db, o) \/ db.seg[o].right = 0 THEN o ELSE last[db.seg[o].right]
  BY <1>12, Zenon
<1>14. loc[l] # 0 /\ Tree(D, at, sub)
  BY DEF Indexed
<1>15. d = SetEntry(db, k, Child(last[loc[l]], "right"), y)
  BY <1>12, <1>14 DEF Join
<1>16. ASSUME NEW x \in sub[l]
       PROVE  /\ x \in D /\ loc[x] \in DOMAIN T1 /\ loc[x] \in Nat
              /\ IsRec(db, loc[x]) /\ db.seg[loc[x]].right = Addr(loc, at[<<"right", x>>])
              /\ last[loc[x]] = IF db.seg[loc[x]].right = 0 THEN loc[x] ELSE last[db.seg[loc[x]].right]
  <2>1. x \in D /\ x # k
    BY <1>14 DEF Tree
  <2>2. loc[x] \in DOMAIN T /\ loc[x] # loc[k] /\ T[loc[x]].right = Addr(loc, at[<<"right", x>>])
    <3>1. \A z \in D : /\ loc[z] \in DOMAIN T /\ T[loc[z]].key = z
                      /\ T[loc[z]].right = Addr(loc, at[<<"right", z>>])
      BY DEF Indexed
    <3>2. PICK p : p = loc[x]
      OBVIOUS
    <3>3. p \in DOMAIN T /\ T[p].key = x /\ T[p].right = Addr(loc, at[<<"right", x>>])
      BY <2>1, <3>1, <3>2
    <3>4. T[loc[k]].key = k
      BY <3>1
    <3> HIDE DEF IsLast, nx, stop
    <3>5. p # loc[k]
      BY <2>1, <3>3, <3>4
    <3> QED
      BY <3>2, <3>3, <3>5
  <2>3. loc[x] \in DOMAIN T1
    BY <1>3, <2>2
  <2>4. loc[x] \in Nat /\ IsRec(db, loc[x]) /\ db.seg[loc[x]] = T[loc[x]]
    BY <1>2, <1>4, <2>3
  <2> HIDE DEF IsLast
  <2> QED
    BY <1>13, <2>1, <2>2, <2>3, <2>4
<1>17. ASSUME NEW x \in sub[l]
       PROVE  last[loc[x]] = loc[w[x]]
  <2> HIDE DEF IsLast, nx, stop
  <2>1. PICK R : R = {z \in sub[l] : last[loc[z]] # loc[w[z]]}
    OBVIOUS
  <2>2. SUFFICES ASSUME R # {}
                 PROVE  FALSE
    BY <2>1
  <2>3. R \subseteq D
    BY <1>16, <2>1
  <2>4. PICK z \in R : \A f \in Sides : at[<<f, z>>] \notin R
    BY <1>14, <2>2, <2>3, LowestRecord
  <2>5. z \in sub[l] /\ z \in D /\ last[loc[z]] # loc[w[z]]
    BY <2>1, <2>3
  <2>6. PICK c : c = at[<<"right", z>>]
    OBVIOUS
  <2>7. w[z] = IF c = Nothing THEN z ELSE w[c]
    BY <2>5, <2>6 DEF GoesRight
  <2>8. db.seg[loc[z]].right = Addr(loc, c)
    BY <1>16, <2>5, <2>6
  <2>9. CASE c = Nothing
    <3>1. last[loc[z]] = loc[z]
      BY <1>16, <2>5, <2>8, <2>9 DEF Addr
    <3> QED
      BY <2>5, <2>7, <2>9, <3>1
  <2>10. CASE c # Nothing
    <3>1. c \in D /\ c \in sub[c] /\ sub[c] \subseteq sub[z]
      BY <1>14, <2>5, <2>6, <2>10, TwoSides, ChildBelow
    <3>2. c \in sub[l]
      BY <1>14, <2>5, <3>1, BelowTrans
    <3>3. loc[c] # 0
      BY <3>1 DEF Indexed
    <3>4. last[loc[z]] = last[loc[c]]
      BY <1>16, <2>5, <2>8, <2>10, <3>3 DEF Addr
    <3>5. c \notin R
      BY <2>4, <2>6, TwoSides
    <3> QED
      BY <2>1, <2>5, <2>7, <2>10, <3>2, <3>4, <3>5
  <2> QED
    BY <2>9, <2>10
<1>18. l \in sub[l]
  BY <1>14, SelfBelow
<1> QED
  BY <1>15, <1>17, <1>18

\* c is in place of k, which has no other child.
Lifted(at, E, s, c) == [t \in SlotsOf(E) |-> IF t = s THEN c ELSE at[t]]
OnlyChild(at, k, c) == \/ at[<<"left", k>>] = Nothing /\ c = at[<<"right", k>>]
                       \/ at[<<"right", k>>] = Nothing /\ c = at[<<"left", k>>]

\* What is left is a tree.
LEMMA LiftedTree ==
  ASSUME NEW D, NEW at, NEW sub, Tree(D, at, sub), NEW k \in D,
         NEW s \in SlotsOf(D), at[s] = k, NEW E, E = D \ {k}, NEW c, OnlyChild(at, k, c),
         NEW new, new = Lifted(at, E, s, c)
  PROVE  \E sub2 : Tree(E, new, sub2)
<1>1. \/ at[<<"left", k>>] = Nothing /\ c = at[<<"right", k>>]
      \/ at[<<"right", k>>] = Nothing /\ c = at[<<"left", k>>]
  BY DEF OnlyChild
<1>2. new = [t \in SlotsOf(E) |-> IF t = s THEN c ELSE at[t]]
  BY DEF Lifted
<1> QED
  BY <1>1, <1>2, ChildLifted

\* What a removal leaves of the records: where they are, their keys and values.
Removed(db, d, o) == SameButChildren(Without(Index(db), o), Index(d))

\* The subtree of a record without two children takes its place.
LEMMA OneChildRemoved ==
  ASSUME NEW db, NEW Vs, NEW D, NEW at, NEW sub, NEW loc, Treed(db, Vs, D, at, sub, loc),
         NEW k \in D, NEW s \in SlotsOf(D), at[s] = k,
         NEW g \in Sides, NEW h \in Sides, g # h, at[<<h, k>>] = Nothing,
         NEW d1, Clean(d1, Vs), Index(d1) = Without(Index(db), loc[k]), d1.bucket = db.bucket,
         NEW x, x = Addr(loc, at[<<g, k>>]), NEW d, d = SetEntry(d1, k, EntOf(loc, s), x)
  PROVE  /\ \E at2, sub2, loc2 : Rooted(d, Vs, D \ {k}, at2, sub2, loc2)
         /\ Removed(db, d, loc[k]) /\ d.rnum = d1.rnum
<1>1. PICK T : T = Index(db)
  OBVIOUS
<1>2. /\ Clean(db, Vs) /\ Indexed(T, db.bucket, D, at, sub, loc) /\ Records(T, Vs)
      /\ Tree(D, at, sub) /\ Placed(T, D, loc) /\ PointsAs(T, db.bucket, D, at, loc)
      /\ OnBuckets(db.bucket)
  BY <1>1, RecordsOf, IndexedAs DEF Treed, Rooted, PointsAs
<1>3. PICK E, at1, T1, heads : /\ E = D \ {k} /\ at1 = Within(loc, E) /\ T1 = Without(T, loc[k])
                               /\ heads = db.bucket
  OBVIOUS
<1>4. Placed(T1, E, at1) /\ Records(T1, Vs) /\ PointersStay(T, loc, T1, at1, heads, E)
  BY <1>2, <1>3, PlacedWithout
<1>5. /\ s \in SlotsOf(E) /\ SlotsOf(E) \subseteq SlotsOf(D)
      /\ \A t \in SlotsOf(E) : t # s => at[t] \in Ptr(E)
  <2>1. PICK F : F = E
    OBVIOUS
  <2>2. F = D \ {k}
    BY <1>3, <2>1
  <2>3. /\ s \in SlotsOf(F) /\ SlotsOf(F) \subseteq SlotsOf(D)
        /\ \A t \in SlotsOf(F) : t # s => at[t] \in Ptr(F)
    BY <1>2, <2>2, SlotsWithout
  <2> QED
    BY <2>1, <2>3
<1>6. PICK c : c = at[<<g, k>>]
  OBVIOUS
<1>7. <<g, k>> \in SlotsOf(D) /\ c \in Ptr(E)
  <2>1. <<g, k>> \in SlotsOf(D)
    BY SlotIn
  <2>2. c \in Ptr(D)
    BY <1>2, <1>6, <2>1 DEF Tree
  <2>3. c # k
    <3>1. c # Nothing => c # k
      BY <1>2, <1>6, ChildBelow
    <3>2. k # Nothing
      BY <1>2, SelfBelow
    <3> QED
      BY <3>1, <3>2
  <2> QED
    BY <1>3, <2>1, <2>2, <2>3 DEF Ptr
<1>8. x \in Nat
  BY <1>2, <1>7, AddrIs
<1>9. k \in Keys /\ (s[1] = "bucket" => s = Home(k))
  BY <1>2, HomeSlot, SelfBelow
<1>10. PICK ent : ent = EntOf(loc, s)
  OBVIOUS
<1>11. ent = EntOf(at1, s)
  BY <1>4, <1>5, <1>10 DEF PointersStay
<1>12. PICK U, new : U = Pointed(T1, ent, x) /\ new = Headed(heads, k, ent, x)
  OBVIOUS
<1>13. /\ SameButChildren(T1, U) /\ Records(U, Vs) /\ Placed(U, E, at1) /\ OnBuckets(new)
       /\ \A t \in SlotsOf(E) : PointerOf(U, new, at1, t)
                                = IF t = s THEN x ELSE PointerOf(T1, heads, at1, t)
  <2>1. OnBuckets(heads)
    BY <1>2, <1>3
  <2> QED
    BY <1>4, <1>5, <1>8, <1>9, <1>11, <1>12, <2>1, PointerMoves
<1>14. PICK at2 : at2 = [t \in SlotsOf(E) |-> IF t = s THEN c ELSE at[t]]
  OBVIOUS
<1>15. PICK sub2 : Tree(E, at2, sub2)
  <2>1. PICK F : F = E
    OBVIOUS
  <2>2. F = D \ {k} /\ at2 = Lifted(at, F, s, c)
    BY <1>3, <1>14, <2>1 DEF Lifted
  <2>3. OnlyChild(at, k, c)
    BY <1>6, TwoSides DEF OnlyChild
  <2>4. \E sub2 : Tree(F, at2, sub2)
    BY <1>2, <2>2, <2>3, LiftedTree
  <2> QED
    BY <2>1, <2>4
<1>16. ASSUME NEW p \in Ptr(E)
       PROVE  Addr(at1, p) = Addr(loc, p)
  BY <1>3, <1>16, WithinIs DEF Addr, Ptr
<1>17. ASSUME NEW t \in SlotsOf(E)
       PROVE  PointerOf(U, new, at1, t) = Addr(at1, at2[t])
  <2>1. CASE t = s
    <3>1. Addr(at1, c) = x /\ at2[t] = c
      BY <1>6, <1>7, <1>14, <1>16, <2>1
    <3> QED
      BY <1>13, <2>1, <3>1
  <2>2. CASE t # s
    <3>1. PointerOf(T1, heads, at1, t) = PointerOf(T, heads, loc, t)
      BY <1>4 DEF PointersStay
    <3>2. PointerOf(T, heads, loc, t) = Addr(loc, at[t])
      BY <1>2, <1>3, <1>5 DEF PointsAs
    <3>3. Addr(at1, at[t]) = Addr(loc, at[t])
      BY <1>5, <1>16, <2>2
    <3>4. at2[t] = at[t]
      BY <1>14, <2>2
    <3> QED
      BY <1>13, <2>2, <3>1, <3>2, <3>3, <3>4
  <2> QED
    BY <2>1, <2>2
<1>18. Indexed(U, new, E, at2, sub2, at1)
  BY <1>13, <1>15, <1>17, IndexedAs DEF PointsAs
<1>19. Clean(d, Vs) /\ Index(d) = U /\ d.bucket = new /\ d.rnum = d1.rnum
  <2>1. Index(d1) = T1 /\ d1.bucket = heads /\ d = SetEntry(d1, k, ent, x)
    BY <1>1, <1>3, <1>10
  <2>2. IsEntry(ent, T1)
    <3>1. Addr(at1, at2[s]) = Addr(at1, at2[s]) /\ IsEntry(EntOf(at1, s), U)
      BY <1>5, <1>18, AddrIs
    <3> QED
      BY <1>11, <1>13, <3>1 DEF IsEntry, SameButChildren
  <2> QED
    BY <1>8, <1>12, <2>1, <2>2, EntrySet
<1>20. Removed(db, d, loc[k])
  BY <1>1, <1>3, <1>13, <1>19 DEF Removed
<1> QED
  BY <1>3, <1>18, <1>19, <1>20 DEF Rooted

\* The subtrees of a record with two children are joined.
LEMMA TwoChildrenRemoved ==
  ASSUME NEW db, NEW Vs, NEW D, NEW at, NEW sub, NEW loc, Treed(db, Vs, D, at, sub, loc),
         NEW k \in D, NEW s \in SlotsOf(D), at[s] = k,
         NEW l, l = at[<<"left", k>>], l # Nothing, NEW q, q = at[<<"right", k>>], q # Nothing,
         NEW d1, Clean(d1, Vs), Index(d1) = Without(Index(db), loc[k]), d1.bucket = db.bucket,
         NEW d2, d2 = Join(d1, k, loc[l], loc[q]),
         NEW d, d = SetEntry(d2, k, EntOf(loc, s), loc[l])
  PROVE  /\ \E at2, sub2, loc2 : Rooted(d, Vs, D \ {k}, at2, sub2, loc2)
         /\ Removed(db, d, loc[k]) /\ d.rnum = d1.rnum
<1>1. PICK T : T = Index(db)
  OBVIOUS
<1>2. /\ Clean(db, Vs) /\ Indexed(T, db.bucket, D, at, sub, loc) /\ Records(T, Vs)
      /\ Tree(D, at, sub) /\ Placed(T, D, loc) /\ PointsAs(T, db.bucket, D, at, loc)
      /\ OnBuckets(db.bucket)
  BY <1>1, RecordsOf, IndexedAs DEF Treed, Rooted, PointsAs
<1>3. PICK E, at1, T1, heads : /\ E = D \ {k} /\ at1 = Within(loc, E) /\ T1 = Without(T, loc[k])
                               /\ heads = db.bucket
  OBVIOUS
<1>4. Placed(T1, E, at1) /\ Records(T1, Vs) /\ PointersStay(T, loc, T1, at1, heads, E)
  BY <1>2, <1>3, PlacedWithout
<1>5. /\ s \in SlotsOf(E) /\ SlotsOf(E) \subseteq SlotsOf(D)
      /\ \A t \in SlotsOf(E) : t # s => at[t] \in Ptr(E)
  <2>1. PICK F : F = E
    OBVIOUS
  <2>2. F = D \ {k}
    BY <1>3, <2>1
  <2>3. /\ s \in SlotsOf(F) /\ SlotsOf(F) \subseteq SlotsOf(D)
        /\ \A t \in SlotsOf(F) : t # s => at[t] \in Ptr(F)
    BY <1>2, <2>2, SlotsWithout
  <2> QED
    BY <2>1, <2>3
<1>6. /\ l \in D /\ q \in D /\ l # k /\ q # k /\ k \notin sub[l]
  BY <1>2, TwoSides, ChildBelow
<1>7. PICK w : GoesRight(D, at, w)
  BY <1>2, RightEnds
<1>8. PICK e : e = w[l]
  OBVIOUS
<1>9. e \in sub[l] /\ at[<<"right", e>>] = Nothing
  BY <1>2, <1>6, <1>7, <1>8, RightFinds
<1>10. PICK at2 : at2 = Rejoined(at, E, s, l, e, q)
  OBVIOUS
<1>11. e \in E /\ \E sub2 : Tree(E, at2, sub2)
  <2>1. PICK F : F = E
    OBVIOUS
  <2>2. F = D \ {k} /\ at2 = Rejoined(at, F, s, l, e, q)
    BY <1>3, <1>10, <2>1
  <2>3. e \in F /\ \E sub2 : Tree(F, at2, sub2)
    BY <1>2, <1>7, <1>8, <2>2, ChildrenJoined
  <2> QED
    BY <2>1, <2>3
<1>12. PICK sub2 : Tree(E, at2, sub2)
  BY <1>11
<1>13. loc[l] \in Nat /\ loc[l] # 0 /\ loc[q] \in Nat /\ loc[q] # 0
  BY <1>2, <1>6 DEF Indexed
<1>14. PICK t1, ent1 : t1 = <<"right", e>> /\ ent1 = Child(loc[e], "right")
  OBVIOUS
<1>15. d2 = SetEntry(d1, k, ent1, loc[q])
  <2>1. d2 = SetEntry(d1, k, Child(loc[w[l]], "right"), loc[q])
    <3>1. PICK y : y = loc[q]
      OBVIOUS
    <3>2. y # 0 /\ d2 = Join(d1, k, loc[l], y) /\ Index(d1) = Without(T, loc[k])
      BY <1>1, <1>13, <3>1
    <3>3. d2 = SetEntry(d1, k, Child(loc[w[l]], "right"), y)
      BY <1>2, <1>6, <1>7, <3>2, LastIs, SMTT(30)
    <3> QED
      BY <3>1, <3>3
  <2> QED
    BY <1>8, <1>14, <2>1
<1>16. t1 \in SlotsOf(E) /\ t1 # s /\ ent1 = EntOf(at1, t1) /\ t1[1] # "bucket"
  <2>1. t1 \in SlotsOf(E)
    BY <1>11, <1>14, SlotIn, TwoSides
  <2>2. k # Nothing
    BY <1>2, SelfBelow
  <2>3. t1 # s
    BY <1>9, <1>14, <2>2
  <2>4. EntOf(loc, t1) = ent1
    BY <1>14 DEF EntOf
  <2> QED
    BY <1>4, <1>14, <2>1, <2>3, <2>4 DEF PointersStay
<1>17. k \in Keys /\ (s[1] = "bucket" => s = Home(k))
  BY <1>2, HomeSlot, SelfBelow
<1>18. PICK U1, heads1 : U1 = Pointed(T1, ent1, loc[q]) /\ heads1 = Headed(heads, k, ent1, loc[q])
  OBVIOUS
<1>19. /\ SameButChildren(T1, U1) /\ Records(U1, Vs) /\ Placed(U1, E, at1) /\ OnBuckets(heads1)
       /\ \A t \in SlotsOf(E) : PointerOf(U1, heads1, at1, t)
                                = IF t = t1 THEN loc[q] ELSE PointerOf(T1, heads, at1, t)
  <2>1. OnBuckets(heads) /\ (t1[1] = "bucket" => t1 = Home(k))
    BY <1>2, <1>3, <1>16
  <2>2. PICK y : y = loc[q]
    OBVIOUS
  <2>3. U1 = Pointed(T1, ent1, y) /\ heads1 = Headed(heads, k, ent1, y) /\ y \in Nat
    BY <1>13, <1>18, <2>2
  <2>4. /\ SameButChildren(T1, U1) /\ Records(U1, Vs) /\ Placed(U1, E, at1) /\ OnBuckets(heads1)
        /\ \A t \in SlotsOf(E) : PointerOf(U1, heads1, at1, t)
                                 = IF t = t1 THEN y ELSE PointerOf(T1, heads, at1, t)
    BY <1>4, <1>16, <1>17, <2>1, <2>3, PointerMoves
  <2> QED
    BY <2>2, <2>4
<1>20. PICK ent : ent = EntOf(loc, s)
  OBVIOUS
<1>21. ent = EntOf(at1, s)
  BY <1>4, <1>5, <1>20 DEF PointersStay
<1>22. PICK U, new : U = Pointed(U1, ent, loc[l]) /\ new = Headed(heads1, k, ent, loc[l])
  OBVIOUS
<1>23. /\ SameButChildren(U1, U) /\ Records(U, Vs) /\ Placed(U, E, at1) /\ OnBuckets(new)
       /\ \A t \in SlotsOf(E) : PointerOf(U, new, at1, t)
                                = IF t = s THEN loc[l] ELSE PointerOf(U1, heads1, at1, t)
  <2>1. PICK y : y = loc[l]
    OBVIOUS
  <2>2. U = Pointed(U1, ent, y) /\ new = Headed(heads1, k, ent, y) /\ y \in Nat
    BY <1>13, <1>22, <2>1
  <2>3. /\ SameButChildren(U1, U) /\ Records(U, Vs) /\ Placed(U, E, at1) /\ OnBuckets(new)
        /\ \A t \in SlotsOf(E) : PointerOf(U, new, at1, t)
                                 = IF t = s THEN y ELSE PointerOf(U1, heads1, at1, t)
    BY <1>5, <1>17, <1>19, <1>21, <2>2, PointerMoves
  <2> QED
    BY <2>1, <2>3
<1>24. ASSUME NEW p \in Ptr(E)
       PROVE  Addr(at1, p) = Addr(loc, p)
  BY <1>3, <1>24, WithinIs DEF Addr, Ptr
<1>25. l \in Ptr(E) /\ q \in Ptr(E)
  BY <1>3, <1>6 DEF Ptr
<1>26. ASSUME NEW t \in SlotsOf(E)
       PROVE  PointerOf(U, new, at1, t) = Addr(at1, at2[t])
  <2>1. at2[t] = IF t = s THEN l ELSE IF t = t1 THEN q ELSE at[t]
    BY <1>10, <1>14 DEF Rejoined
  <2>2. CASE t = s
    <3>1. Addr(at1, l) = loc[l]
      BY <1>24, <1>25 DEF Addr
    <3> QED
      BY <1>23, <2>1, <2>2, <3>1
  <2>3. CASE t # s /\ t = t1
    <3>1. Addr(at1, q) = loc[q]
      BY <1>24, <1>25 DEF Addr
    <3> QED
      BY <1>19, <1>23, <2>1, <2>3, <3>1
  <2>4. CASE t # s /\ t # t1
    <3>1. PointerOf(T1, heads, at1, t) = PointerOf(T, heads, loc, t)
      BY <1>4 DEF PointersStay
    <3>2. PointerOf(T, heads, loc, t) = Addr(loc, at[t])
      BY <1>2, <1>3, <1>5 DEF PointsAs
    <3>3. Addr(at1, at[t]) = Addr(loc, at[t])
      BY <1>5, <1>24, <2>4
    <3> QED
      BY <1>19, <1>23, <2>1, <2>4, <3>1, <3>2, <3>3
  <2> QED
    BY <2>2, <2>3, <2>4
<1>27. Indexed(U, new, E, at2, sub2, at1)
  BY <1>12, <1>23, <1>26, IndexedAs DEF PointsAs
<1>28. IsEntry(ent, U) /\ IsEntry(ent1, U)
  BY <1>5, <1>16, <1>21, <1>27, AddrIs
<1>29. Clean(d2, Vs) /\ Index(d2) = U1 /\ d2.bucket = heads1 /\ d2.rnum = d1.rnum
  <2>1. PICK y : y = loc[q]
    OBVIOUS
  <2>2. Index(d1) = T1 /\ d1.bucket = heads /\ d2 = SetEntry(d1, k, ent1, y) /\ y \in Nat
    BY <1>1, <1>3, <1>13, <1>15, <2>1
  <2>3. IsEntry(ent1, T1)
    BY <1>19, <1>23, <1>28 DEF IsEntry, SameButChildren
  <2> QED
    BY <1>18, <2>1, <2>2, <2>3, EntrySet
<1>30. Clean(d, Vs) /\ Index(d) = U /\ d.bucket = new /\ d.rnum = d1.rnum
  <2>1. PICK y : y = loc[l]
    OBVIOUS
  <2>2. d = SetEntry(d2, k, ent, y) /\ y \in Nat
    BY <1>13, <1>20, <2>1
  <2>3. IsEntry(ent, U1)
    BY <1>23, <1>28 DEF IsEntry, SameButChildren
  <2> QED
    BY <1>22, <1>29, <2>1, <2>2, <2>3, EntrySet
<1>31. Removed(db, d, loc[k])
  <2>1. SameButChildren(T1, U)
    BY <1>19, <1>23 DEF SameButChildren
  <2> QED
    BY <1>1, <1>3, <1>30, <2>1 DEF Removed
<1> QED
  BY <1>3, <1>27, <1>30, <1>31 DEF Rooted

\* tchdbout keeps the file sound, and all other records where they are.
LEMMA RemoveIs ==
  ASSUME NEW db, NEW Vs, NEW D, NEW at, NEW sub, NEW loc, Treed(db, Vs, D, at, sub, loc),
         NEW k \in D, NEW d, d = RemoveRec(db, Find(db, k))
  PROVE  /\ \E at2, sub2, loc2 : Treed(d, Vs, D \ {k}, at2, sub2, loc2)
         /\ Removed(db, d, loc[k])
<1>1. PICK T : T = Index(db)
  OBVIOUS
<1>2. /\ Clean(db, Vs) /\ Indexed(T, db.bucket, D, at, sub, loc) /\ Rooted(db, Vs, D, at, sub, loc)
      /\ Tree(D, at, sub) /\ k \in Keys /\ k # Nothing /\ db.rnum = Cardinality(D)
  BY <1>1, KeysInBuckets DEF Treed, Rooted, Indexed, Tree
<1>3. PICK f : Descends(D, at, k, f)
  BY <1>2, DescentEnds
<1>4. PICK s : s = f[Home(k)]
  OBVIOUS
<1>5. at[s] = k /\ s \in SlotsOf(D)
  BY <1>2, <1>3, <1>4, SlotUnique
<1>6. PICK p, o : p = Find(db, k) /\ o = loc[k]
  OBVIOUS
<1>7. p.off = o /\ p.ent = EntOf(loc, s)
  <2>1. Find(db, k) = At(loc, at, f[Home(k)])
    BY <1>2, <1>3, FindIs
  <2>2. p = At(loc, at, s)
    BY <1>4, <1>6, <2>1
  <2> QED
    BY <1>2, <1>5, <1>6, <2>2 DEF At, Addr
<1>8. PICK r : r = db.seg[o]
  OBVIOUS
<1>9. o \in DOMAIN T /\ T[o] = r
  <2>1. o \in DOMAIN T
    BY <1>2, <1>6 DEF Indexed
  <2> QED
    BY <1>1, <1>2, <1>8, <2>1, IndexIs
<1>10. PICK l, q : l = at[<<"left", k>>] /\ q = at[<<"right", k>>]
  OBVIOUS
<1>11. r.key = k /\ r.left = Addr(loc, l) /\ r.right = Addr(loc, q)
  BY <1>2, <1>6, <1>9, <1>10 DEF Indexed
<1>12. PICK d1 : d1 = FreeFound(db, p, r)
  OBVIOUS
<1>13. Clean(d1, Vs) /\ Index(d1) = Without(T, o) /\ d1.bucket = db.bucket /\ d1.rnum = db.rnum
  BY <1>1, <1>2, <1>7, <1>8, <1>9, <1>12, FreedIs
<1>14. PICK child, d2, d3 : /\ child = (IF r.left = 0 THEN r.right ELSE r.left)
                            /\ d2 = Join(d1, k, r.left, r.right) /\ d3 = SetEntry(d2, k, EntOf(loc, s), child)
  OBVIOUS
<1>15. d = SetRnum(d3, db.rnum - 1)
  BY <1>6, <1>7, <1>8, <1>11, <1>12, <1>14 DEF RemoveRec, RemoveFound
<1>16. /\ l # Nothing => l \in D /\ loc[l] # 0
       /\ q # Nothing => q \in D /\ loc[q] # 0
  <2>1. /\ l # Nothing => l \in D
        /\ q # Nothing => q \in D
    BY <1>2, <1>10, ChildBelow, TwoSides
  <2> QED
    BY <1>2, <2>1 DEF Indexed
<1>17. /\ \E at2, sub2, loc2 : Rooted(d3, Vs, D \ {k}, at2, sub2, loc2)
       /\ Removed(db, d3, o) /\ d3.rnum = d1.rnum
  <2>1. CASE l = Nothing
    <3>1. r.left = 0
      BY <1>11, <2>1 DEF Addr
    <3>2. d2 = d1 /\ child = r.right
      BY <1>14, <3>1 DEF Join
    <3>3. d3 = SetEntry(d1, k, EntOf(loc, s), child) /\ child = Addr(loc, at[<<"right", k>>])
      BY <1>10, <1>11, <1>14, <3>2
    <3>4. at[<<"left", k>>] = Nothing /\ "left" # "right"
      BY <1>10, <2>1
    <3> QED
      BY <1>1, <1>5, <1>6, <1>13, <3>3, <3>4, TwoSides, OneChildRemoved
  <2>2. CASE l # Nothing /\ q = Nothing
    <3>1. r.right = 0 /\ r.left # 0
      BY <1>11, <1>16, <2>2 DEF Addr
    <3>2. d2 = d1 /\ child = r.left
      BY <1>14, <3>1 DEF Join
    <3>3. d3 = SetEntry(d1, k, EntOf(loc, s), child) /\ child = Addr(loc, at[<<"left", k>>])
      BY <1>10, <1>11, <1>14, <3>2
    <3>4. at[<<"right", k>>] = Nothing /\ "left" # "right"
      BY <1>10, <2>2
    <3> QED
      BY <1>1, <1>5, <1>6, <1>13, <3>3, <3>4, TwoSides, OneChildRemoved
  <2>3. CASE l # Nothing /\ q # Nothing
    <3>1. r.left = loc[l] /\ r.right = loc[q] /\ r.left # 0
      BY <1>11, <1>16, <2>3 DEF Addr
    <3>2. d2 = Join(d1, k, loc[l], loc[q]) /\ d3 = SetEntry(d2, k, EntOf(loc, s), loc[l])
      BY <1>14, <3>1
    <3> QED
      BY <1>1, <1>5, <1>6, <1>10, <1>13, <2>3, <3>2, TwoChildrenRemoved
  <2> QED
    BY <2>1, <2>2, <2>3
<1>18. PICK at2, sub2, loc2 : Rooted(d3, Vs, D \ {k}, at2, sub2, loc2)
  BY <1>17
<1>19. Clean(d, Vs) /\ Index(d) = Index(d3) /\ d.bucket = d3.bucket /\ d.rnum = db.rnum - 1
  <2>1. Clean(d3, Vs)
    BY <1>18 DEF Rooted
  <2> QED
    BY <1>15, <2>1, RnumSet
<1>20. Rooted(d, Vs, D \ {k}, at2, sub2, loc2)
  BY <1>18, <1>19 DEF Rooted
<1>21. Cardinality(D \ {k}) = Cardinality(D) - 1
  BY <1>2, FS_RemoveElement DEF Tree
<1>22. d.rnum = Cardinality(D \ {k})
  BY <1>2, <1>19, <1>21
<1>23. Removed(db, d, o)
  BY <1>17, <1>19 DEF Removed
<1> QED
  BY <1>6, <1>20, <1>22, <1>23 DEF Treed

---------------------------------------------------------------------------
(* Sound files *)

\* What is said of a block of the pool.
LEMMA FreeIs ==
  ASSUME NEW db, NEW Vs, Clean(db, Vs), NEW i \in 1 .. Len(db.pool), NEW b, b = db.pool[i]
  PROVE  /\ b \in Block /\ b.off \in Nat /\ b.rsiz \in Nat
         /\ b.off \in DOMAIN db.seg /\ b.off + b.rsiz \in DOMAIN db.seg \cup {db.fsiz}
         /\ \A o \in DOMAIN db.seg : b.off <= o /\ o < b.off + b.rsiz => db.seg[o].magic = "fb"
<1>1. PICK seg, fsiz : seg = db.seg /\ fsiz = db.fsiz
  OBVIOUS
<1>2. Laid(seg, fsiz, fsiz, fsiz, Vs) /\ FreeIn(seg, fsiz, fsiz, fsiz, b)
  BY <1>1 DEF Clean, Kept, Pooled
<1>3. Beyond(seg, fsiz, fsiz) = DOMAIN seg
  BY <1>2, NoHole
<1>4. b \in Block
  BY <1>2 DEF FreeIn
<1> QED
  BY <1>1, <1>2, <1>3, <1>4, BlockIs DEF FreeIn

\* The pool of a file without a hole is sound.
LEMMA PoolIsSound ==
  ASSUME NEW db, NEW Vs, Clean(db, Vs)
  PROVE  PoolSound(db) /\ Tiled(db) /\ SegsOf(db) = DOMAIN db.seg /\ LiveRecs(db) = DOMAIN Index(db)
<1> DEFINE Cover(b) == {o \in SegsOf(db) : b.off <= o /\ o < b.off + b.rsiz}
<1>1. Whole(db.seg, db.fsiz, Vs)
  BY IndexIs
<1>2. Tiled(db) /\ SegsOf(db) = DOMAIN db.seg
  BY <1>1, WholeTiled, AllSegs
<1>3. LiveRecs(db) = DOMAIN Index(db)
  BY <1>2, IndexIs DEF LiveRecs, IsFB
<1>4. PICK pool : pool = db.pool
  OBVIOUS
<1>5. /\ pool \in Seq(Block) /\ Len(pool) <= Room /\ Len(pool) \in Nat /\ DOMAIN pool = 1 .. Len(pool)
      /\ \A i, j \in 1 .. Len(pool) : i # j => Apart(pool[i], pool[j])
  <2>1. /\ pool \in Seq(Block) /\ Len(pool) <= Room
        /\ \A i, j \in 1 .. Len(pool) : i # j => Apart(pool[i], pool[j])
    BY <1>4 DEF Clean, Kept, Pooled
  <2> QED
    BY <2>1
<1>6. ASSUME NEW i \in 1 .. Len(pool), NEW b, b = pool[i]
      PROVE  /\ {b.off, b.off + b.rsiz} \subseteq SegsOf(db) \cup {db.fsiz}
             /\ \A o \in Cover(b) : IsFB(db, o)
  <2>1. /\ b.off \in DOMAIN db.seg /\ b.off + b.rsiz \in DOMAIN db.seg \cup {db.fsiz}
        /\ \A o \in DOMAIN db.seg : b.off <= o /\ o < b.off + b.rsiz => db.seg[o].magic = "fb"
    BY <1>4, <1>6, FreeIs
  <2> QED
    BY <1>2, <2>1 DEF IsFB
<1>7. ASSUME NEW i \in 1 .. Len(pool), NEW j \in 1 .. Len(pool), i # j
      PROVE  Cover(pool[i]) \cap Cover(pool[j]) = {}
  <2>1. PICK b, c : b = pool[i] /\ c = pool[j]
    OBVIOUS
  <2>2. b.off \in Nat /\ b.rsiz \in Nat /\ c.off \in Nat /\ c.rsiz \in Nat
    BY <1>4, <2>1, FreeIs
  <2>3. Apart(b, c)
    BY <1>5, <1>7, <2>1
  <2>4. \A o \in SegsOf(db) : o \in Nat
    BY <1>1, <1>2, WholeIs
  <2>5. ASSUME NEW o \in Cover(b), o \in Cover(c)
        PROVE  FALSE
    BY <2>2, <2>3, <2>4, <2>5 DEF Apart
  <2> QED
    BY <2>1, <2>5
<1>8. PoolSound(db)
  <2>1. \A b \in Range(pool) : \E i \in 1 .. Len(pool) : b = pool[i]
    BY <1>5 DEF Range
  <2>2. \A b \in Range(pool) : /\ {b.off, b.off + b.rsiz} \subseteq SegsOf(db) \cup {db.fsiz}
                               /\ \A o \in Cover(b) : IsFB(db, o)
    BY <1>6, <2>1
  <2>3. Len(pool) <= FbpMax * AlwRat
    BY <1>5 DEF Room
  <2> QED
    BY <1>4, <1>5, <1>7, <2>2, <2>3 DEF PoolSound
<1> QED
  BY <1>2, <1>3, <1>8

\* The descent for a key finds its record, if there is one.
LEMMA FoundIs ==
  ASSUME NEW db, NEW Vs, NEW D, NEW at, NEW sub, NEW loc, Treed(db, Vs, D, at, sub, loc), NEW k \in Keys
  PROVE  /\ k \in D => Find(db, k).off = loc[k]
         /\ k \notin D => Find(db, k).off = 0
         /\ Has(db, k) <=> k \in D
<1>1. Rooted(db, Vs, D, at, sub, loc) /\ Tree(D, at, sub) /\ Indexed(Index(db), db.bucket, D, at, sub, loc)
  BY DEF Treed, Rooted, Indexed
<1>2. PICK f : Descends(D, at, k, f)
  BY <1>1, DescentEnds
<1>3. Find(db, k) = At(loc, at, f[Home(k)])
  BY <1>1, <1>2, FindIs
<1>4. Find(db, k).off = Addr(loc, at[f[Home(k)]])
  BY <1>3 DEF At
<1>5. CASE k \in D
  <2>1. at[f[Home(k)]] = k
    BY <1>1, <1>2, <1>5, SlotUnique
  <2>2. Addr(loc, k) = loc[k] /\ loc[k] > 0 /\ loc[k] \in Nat
    <3>1. PICK T, heads : T = Index(db) /\ heads = db.bucket
      OBVIOUS
    <3>2. loc \in [D -> DOMAIN T] /\ DOMAIN T \subseteq Nat \ {0}
      BY <1>1, <3>1 DEF Indexed
    <3>3. loc[k] \in Nat \ {0}
      BY <1>5, <3>2
    <3>4. k # Nothing
      BY KeysInBuckets
    <3> QED
      BY <3>3, <3>4 DEF Addr
  <2> QED
    BY <1>4, <1>5, <2>1, <2>2 DEF Has
<1>6. CASE k \notin D
  <2>1. at[f[Home(k)]] = Nothing
    BY <1>1, <1>2, <1>6, PathExists
  <2> QED
    BY <1>4, <1>6, <2>1 DEF Has, Addr
<1> QED
  BY <1>5, <1>6

\* As many records as keys.
LEMMA RecordsCounted ==
  ASSUME NEW T, NEW D, NEW loc, Placed(T, D, loc), IsFiniteSet(D)
  PROVE  Cardinality(DOMAIN T) = Cardinality(D)
<1>1. PICK S : S = DOMAIN T
  OBVIOUS
<1>2. /\ loc \in [D -> S] /\ \A o \in S : T[o].key \in D /\ loc[T[o].key] = o
      /\ \A k \in D : T[loc[k]].key = k
  BY <1>1 DEF Placed
<1>3. loc \in Bijection(D, S)
  BY <1>2 DEF Bijection, Injection, Surjection, IsInjective
<1> QED
  BY <1>1, <1>3, FS_Bijection DEF ExistsBijection

\* A sound file is one in which everything is found where it is.
LEMMA SoundIs ==
  ASSUME NEW db, NEW Vs, Sound(db, Vs)
  PROVE  /\ Tiled(db) /\ PoolSound(db) /\ Searchable(db)
         /\ LiveRecs(db) = DOMAIN Index(db) /\ Clean(db, Vs)
         /\ \A o \in LiveRecs(db) : IsRecord(db.seg[o], Vs)
<1>1. PICK D, at, sub, loc : Treed(db, Vs, D, at, sub, loc)
  BY DEF Sound
<1>2. /\ Clean(db, Vs) /\ db.rnum = Cardinality(D)
      /\ Indexed(Index(db), db.bucket, D, at, sub, loc) /\ Tree(D, at, sub)
  BY <1>1 DEF Treed, Rooted, Indexed
<1>3. PoolSound(db) /\ Tiled(db) /\ LiveRecs(db) = DOMAIN Index(db)
  BY <1>2, PoolIsSound
<1>4. PICK T : T = Index(db)
  OBVIOUS
<1>5. /\ Placed(T, D, loc) /\ IsFiniteSet(D) /\ D \subseteq Keys
  BY <1>2, <1>4, IndexedAs DEF Tree
<1>6. \A o \in DOMAIN T : T[o] = db.seg[o] /\ IsRecord(db.seg[o], Vs)
  BY <1>2, <1>4, IndexIs
<1>7. Searchable(db)
  <2>1. ASSUME NEW o \in LiveRecs(db)
        PROVE  Find(db, db.seg[o].key).off = o
    <3>1. PICK k : k = db.seg[o].key
      OBVIOUS
    <3>2. o \in DOMAIN T /\ k = T[o].key
      BY <1>3, <1>4, <1>6, <3>1
    <3>3. k \in D /\ loc[k] = o /\ k \in Keys
      BY <1>5, <3>2 DEF Placed
    <3> QED
      BY <1>1, <3>1, <3>3, FoundIs
  <2>2. ASSUME NEW k \in Keys
        PROVE  Find(db, k).off \in LiveRecs(db) \cup {0}
    <3>1. k \in D => loc[k] \in DOMAIN T
      BY <1>5 DEF Placed
    <3> QED
      BY <1>1, <1>3, <1>4, <3>1, FoundIs
  <2>3. Cardinality(DOMAIN T) = Cardinality(D)
    BY <1>5, RecordsCounted
  <2> QED
    BY <1>2, <1>3, <1>4, <2>1, <2>2, <2>3 DEF Searchable
<1> QED
  BY <1>2, <1>3, <1>4, <1>6, <1>7

---------------------------------------------------------------------------
(* tchdboptimize *)

\* A new file is sound.
LEMMA EmptySound ==
  ASSUME NEW Vs
  PROVE  Sound(EmptyDB, Vs)
<1>1. PICK d : d = EmptyDB
  OBVIOUS
<1>2. /\ d.seg = <<>> /\ d.bucket = [b \in Buckets |-> 0] /\ d.rnum = 0 /\ d.fsiz = Frec
      /\ d.pool = <<>> /\ IsDB(d)
  BY <1>1 DEF EmptyDB, IsDB, Fields
<1>3. PICK seg : seg = d.seg
  OBVIOUS
<1>4. DOMAIN seg = {} /\ Beyond(seg, Frec, Frec) = {}
  BY <1>2, <1>3 DEF Beyond
<1>5. Laid(seg, Frec, Frec, Frec, Vs)
  BY <1>4, LayoutSizes DEF Laid
<1>6. Clean(d, Vs)
  <2>1. Pooled(seg, Frec, Frec, Frec, d.pool) /\ Len(d.pool) <= Room
    <3>1. d.pool \in Seq(Block) /\ Len(d.pool) = 0
      BY <1>2
    <3>2. 1 .. Len(d.pool) = {}
      BY <3>1
    <3> QED
      BY <3>1, <3>2, RoomIs DEF Pooled
  <2> QED
    BY <1>2, <1>3, <1>4, <1>5, <2>1 DEF Clean, Kept
<1>7. PICK T : T = Index(d)
  OBVIOUS
<1>8. DOMAIN T = {}
  BY <1>3, <1>4, <1>6, <1>7, IndexIs
<1>9. PICK D, at, sub, loc :
        /\ D = {} /\ at = [s \in SlotsOf({}) |-> Nothing]
        /\ sub = [x \in {} |-> {}] /\ loc = [x \in {} |-> 0]
  OBVIOUS
<1>10. Tree(D, at, sub)
  <2>1. \A b \in Buckets : at[<<"bucket", b>>] = Nothing
    BY <1>9, SlotIn
  <2>2. at \in [SlotsOf(D) -> Ptr(D)] /\ sub \in [D -> SUBSET D]
    BY <1>9 DEF Ptr
  <2>3. IsFiniteSet(D)
    BY <1>9, FS_EmptySet
  <2> QED
    BY <1>9, <2>1, <2>2, <2>3 DEF Tree, Below
<1>11. Placed(T, D, loc)
  BY <1>8, <1>9 DEF Placed
<1>12. PointsAs(T, d.bucket, D, at, loc)
  <2>1. OnBuckets(d.bucket)
    <3>1. \A b \in Buckets : d.bucket[b] = 0
      BY <1>2
    <3> QED
      BY <1>2, <3>1 DEF OnBuckets
  <2>2. ASSUME NEW s \in SlotsOf(D)
        PROVE  PointerOf(T, d.bucket, loc, s) = Addr(loc, at[s])
    <3>1. PICK b \in Buckets : s = <<"bucket", b>>
      BY <1>9, <2>2, SlotKinds
    <3>2. at[s] = Nothing
      BY <1>9, <2>2
    <3>3. PointerOf(T, d.bucket, loc, s) = 0
      BY <1>2, <3>1 DEF PointerOf
    <3> QED
      BY <3>2, <3>3 DEF Addr
  <2> QED
    BY <2>1, <2>2 DEF PointsAs
<1>13. Indexed(T, d.bucket, D, at, sub, loc)
  BY <1>10, <1>11, <1>12, IndexedAs
<1>14. Treed(d, Vs, D, at, sub, loc)
  BY <1>2, <1>6, <1>7, <1>9, <1>13, FS_EmptySet DEF Treed, Rooted
<1> QED
  BY <1>1, <1>14 DEF Sound

\* s lists records of the file, none twice.
ListsRecords(db, s) ==
  /\ s \in Seq(Nat) /\ \A i \in 1 .. Len(s) : s[i] \in DOMAIN Index(db)
  /\ \A o \in DOMAIN Index(db) : \E i \in 1 .. Len(s) : s[i] = o
  /\ \A i, j \in 1 .. Len(s) : i # j => s[i] # s[j]

\* The records in the order of the file.
LEMMA RecOffsetsIs ==
  ASSUME NEW db, NEW Vs, Clean(db, Vs)
  PROVE  ListsRecords(db, RecOffsets(db))
<1>1. PICK seg, fsiz : seg = db.seg /\ fsiz = db.fsiz
  OBVIOUS
<1>2. PICK all : all = Offsets(db)
  OBVIOUS
<1>3. PICK S : S = {o \in DOMAIN db.seg : ~IsFB(db, o)}
  OBVIOUS
<1>4. PICK s : s = Selected(all, S)
  OBVIOUS
<1>5. s = RecOffsets(db)
  BY <1>2, <1>3, <1>4 DEF RecOffsets
<1>6. S = DOMAIN Index(db) /\ Whole(seg, fsiz, Vs)
  BY <1>1, <1>3, IndexIs DEF IsFB
<1>7. Lines(seg, fsiz, Frec, all)
  BY <1>1, <1>2, <1>6, AllSegs
<1>8. all \in Seq(Nat) /\ \A i, j \in 1 .. Len(all) : i < j => all[i] < all[j]
  <2>1. DOMAIN seg \subseteq Nat
    BY <1>6, WholeIs
  <2>2. all \in Seq(DOMAIN seg) /\ \A i, j \in 1 .. Len(all) : i < j => all[i] < all[j]
    BY <1>7 DEF Lines
  <2> QED
    BY <2>1, <2>2
<1>9. /\ s \in Seq(Nat) /\ Drawn(all, s)
      /\ \A i \in 1 .. Len(s) : s[i] \in S
      /\ \A j \in 1 .. Len(all) : all[j] \in S => \E i \in 1 .. Len(s) : s[i] = all[j]
  BY <1>4, <1>8, SelectedDrawn
<1>10. ASSUME NEW i \in 1 .. Len(s), NEW j \in 1 .. Len(s), i # j
       PROVE  s[i] # s[j]
  <2>1. PICK p \in [1 .. Len(s) -> 1 .. Len(all)] :
          /\ \A x, y \in 1 .. Len(s) : x # y => p[x] # p[y]
          /\ \A x \in 1 .. Len(s) : s[x] = all[p[x]]
    BY <1>9 DEF Drawn
  <2>2. PICK a \in 1 .. Len(all), b \in 1 .. Len(all) : a # b /\ s[i] = all[a] /\ s[j] = all[b]
    BY <1>10, <2>1
  <2>3. a < b \/ b < a
    BY <1>8, <2>2
  <2>4. all[a] \in Nat /\ all[b] \in Nat
    BY <1>8
  <2> QED
    BY <1>8, <2>2, <2>3, <2>4
<1>11. ASSUME NEW o \in S
        PROVE  \E i \in 1 .. Len(s) : s[i] = o
  <2>1. o \in DOMAIN seg /\ o >= Frec
    BY <1>1, <1>3, <1>6, WholeIs
  <2>2. PICK j \in 1 .. Len(all) : all[j] = o
    BY <1>7, <2>1 DEF Lines
  <2> QED
    BY <1>9, <2>2
<1> QED
  BY <1>5, <1>6, <1>9, <1>10, <1>11 DEF ListsRecords

\* put is what putting the records s of a file into another one makes of it, up
\* to the n-th.
PutsBack(seg, s, new, n, put) ==
  put = [i \in 0 .. n |-> IF i = 0 THEN new ELSE PutBack(put[i - 1], seg[s[i]])]

\* One after the other.
PutInTurn(seg, s, new, n, put) ==
  put[0] = new /\ \A i \in 1 .. n : put[i] = PutBack(put[i - 1], seg[s[i]])

\* Such a function puts one record after the other.
LEMMA PutsBackIs ==
  ASSUME NEW seg, NEW s, NEW new, NEW n \in Nat, NEW put, PutsBack(seg, s, new, n, put)
  PROVE  PutInTurn(seg, s, new, n, put)
<1>1. \A i \in 0 .. n : put[i] = IF i = 0 THEN new ELSE PutBack(put[i - 1], seg[s[i]])
  BY Zenon DEF PutsBack
<1>2. \A i \in 1 .. n : i # 0 /\ i \in 0 .. n
  OBVIOUS
<1>3. 0 \in 0 .. n
  OBVIOUS
<1>4. put[0] = new /\ \A i \in 1 .. n : put[i] = PutBack(put[i - 1], seg[s[i]])
  BY <1>1, <1>2, <1>3, Zenon
<1> QED
  BY <1>4 DEF PutInTurn

\* It goes on to the next record.
LEMMA PutsBackOn ==
  ASSUME NEW seg, NEW s, NEW new, NEW n \in Nat \ {0}, NEW put, PutsBack(seg, s, new, n - 1, put)
  PROVE  \E f : PutsBack(seg, s, new, n, f)
<1>1. PICK x : x = PutBack(put[n - 1], seg[s[n]])
  OBVIOUS
<1>2. PICK f : f = [i \in 0 .. n |-> IF i = n THEN x ELSE put[i]]
  OBVIOUS
<1>3. put[0] = new /\ \A i \in 1 .. n - 1 : put[i] = PutBack(put[i - 1], seg[s[i]])
  BY PutsBackIs DEF PutInTurn
<1>4. \A i \in 0 .. n - 1 : f[i] = put[i]
  BY <1>2
<1>5. f[n] = x
  BY <1>2
<1>6. ASSUME NEW i \in 0 .. n
      PROVE  f[i] = IF i = 0 THEN new ELSE PutBack(f[i - 1], seg[s[i]])
  <2>1. CASE i = 0
    BY <1>3, <1>4, <2>1
  <2>2. CASE i = n
    <3>1. f[i - 1] = put[n - 1]
      BY <1>4, <2>2
    <3> QED
      BY <1>1, <1>5, <2>2, <3>1
  <2>3. CASE i # 0 /\ i # n
    <3>1. i \in 1 .. n - 1 /\ f[i] = put[i] /\ f[i - 1] = put[i - 1]
      BY <1>4, <2>3
    <3> QED
      BY <1>3, <2>3, <3>1
  <2> QED
    BY <2>1, <2>2, <2>3
<1>7. f = [i \in 0 .. n |-> f[i]]
  BY <1>2
<1>8. f = [i \in 0 .. n |-> IF i = 0 THEN new ELSE PutBack(f[i - 1], seg[s[i]])]
  BY <1>6, <1>7, Zenon
<1> QED
  BY <1>8 DEF PutsBack

\* There is one, however many records there are.
LEMMA PutsBackExists ==
  ASSUME NEW seg, NEW s, NEW new, NEW n \in Nat
  PROVE  \E put : PutsBack(seg, s, new, n, put)
<1> DEFINE P == {i \in 0 .. n : \E put : PutsBack(seg, s, new, i, put)}
<1>1. 0 \in P
  <2>1. PICK f : f = [i \in 0 .. 0 |-> new]
    OBVIOUS
  <2>2. f = [i \in 0 .. 0 |-> IF i = 0 THEN new ELSE PutBack(f[i - 1], seg[s[i]])]
    <3>1. \A i \in 0 .. 0 : i = 0
      OBVIOUS
    <3> QED
      BY <2>1, <3>1
  <2> QED
    BY <2>2 DEF PutsBack
<1>2. ASSUME NEW i \in 1 .. n, i - 1 \in P
      PROVE  i \in P
  <2>1. PICK put : PutsBack(seg, s, new, i - 1, put)
    BY <1>2
  <2> QED
    BY <2>1, PutsBackOn
<1>3. \A i \in 0 .. n : i \in P
  <2> HIDE DEF P
  <2> QED
    BY <1>1, <1>2, Reached
<1> QED
  BY <1>3

\* A record is put back.
LEMMA PutBackIs ==
  ASSUME NEW d, NEW Vs, Sizable(Vs), Sound(d, Vs), NEW r, IsRecord(r, Vs)
  PROVE  Sound(PutBack(d, r), Vs) /\ Contents(PutBack(d, r)) = With(Contents(d), r.key, r.val)
<1>1. r.key \in Keys /\ r.val \in Vs
  BY SegIs DEF IsRecord
<1> QED
  BY <1>1, PutIs DEF PutBack

\* PutAll puts one record after the other.
LEMMA PutAllTurns ==
  ASSUME NEW db, NEW Vs, Clean(db, Vs), NEW new, NEW s, s = RecOffsets(db), NEW n, n = Len(s)
  PROVE  \E put : PutInTurn(db.seg, s, new, n, put) /\ PutAll(db, new) = put[n]
<1>1. ListsRecords(db, s) /\ n \in Nat
  BY RecOffsetsIs DEF ListsRecords
<1> DEFINE IsPut(f) == PutsBack(db.seg, s, new, n, f)
<1>2. \E f : IsPut(f)
  BY <1>1, PutsBackExists
<1>3. PICK put : IsPut(put) /\ put = CHOOSE h : IsPut(h)
  <2> HIDE DEF IsPut
  <2> QED
    BY <1>2, Zenon
<1>4. PutAll(db, new) = put[n]
  <2>1. put = CHOOSE h : h = [i \in 0 .. n |-> IF i = 0 THEN new ELSE PutBack(h[i - 1], db.seg[s[i]])]
    BY <1>3 DEF PutsBack
  <2> QED
    BY <2>1, Zenon DEF PutAll
<1>5. PutInTurn(db.seg, s, new, n, put)
  <2>1. PICK seg : seg = db.seg
    OBVIOUS
  <2>2. PutsBack(seg, s, new, n, put)
    BY <1>3, <2>1
  <2>3. PutInTurn(seg, s, new, n, put)
    <3> HIDE DEF IsPut
    <3> QED
      BY <1>1, <2>2, PutsBackIs
  <2> QED
    BY <2>1, <2>3
<1> QED
  BY <1>4, <1>5

\* All records of a file are put into another.
LEMMA PutAllIs ==
  ASSUME NEW db, NEW Vs, Sizable(Vs), Clean(db, Vs), NEW new, Sound(new, Vs)
  PROVE  Sound(PutAll(db, new), Vs)
<1>1. PICK s, n : s = RecOffsets(db) /\ n = Len(s)
  OBVIOUS
<1>2. ListsRecords(db, s) /\ n \in Nat
  <2>1. ListsRecords(db, s)
    BY <1>1, RecOffsetsIs
  <2> QED
    BY <1>1, <2>1 DEF ListsRecords
<1>3. PICK put : PutInTurn(db.seg, s, new, n, put) /\ PutAll(db, new) = put[n]
  BY <1>1, PutAllTurns
<1>4. put[0] = new /\ \A i \in 1 .. n : put[i] = PutBack(put[i - 1], db.seg[s[i]])
  BY <1>3 DEF PutInTurn
<1> DEFINE P == {i \in 0 .. n : Sound(put[i], Vs)}
<1>5. 0 \in P
  BY <1>2, <1>4
<1>6. ASSUME NEW i \in 1 .. n, i - 1 \in P
      PROVE  i \in P
  <2>1. Sound(put[i - 1], Vs)
    BY <1>6
  <2>2. IsRecord(db.seg[s[i]], Vs)
    BY <1>1, <1>2, <1>6, IndexIs DEF ListsRecords
  <2>3. PICK d, r : d = put[i - 1] /\ r = db.seg[s[i]]
    OBVIOUS
  <2>4. Sound(PutBack(d, r), Vs)
    BY <2>1, <2>2, <2>3, PutBackIs
  <2>5. Sound(put[i], Vs)
    BY <1>4, <1>6, <2>3, <2>4
  <2> QED
    BY <2>5
<1>7. \A i \in 0 .. n : i \in P
  <2> HIDE DEF P
  <2> QED
    BY <1>2, <1>5, <1>6, Reached
<1> QED
  BY <1>2, <1>3, <1>7

\* tchdboptimize leaves a sound file.
LEMMA OptimizeIs ==
  ASSUME NEW db, NEW Vs, Sizable(Vs), Sound(db, Vs)
  PROVE  Sound(Optimize(db), Vs)
<1>1. Clean(db, Vs)
  BY SoundIs
<1> QED
  BY <1>1, EmptySound, PutAllIs DEF Optimize

\* What the first i records of T hold.
Listed(T, s, i) == {<<T[s[j]].key, T[s[j]].val>> : j \in 1 .. i}

\* One more record, of a new key.
LEMMA ListedOn ==
  ASSUME NEW T, NEW D, NEW loc, Placed(T, D, loc), NEW s, NEW i \in Nat \ {0},
         \A j \in 1 .. i : s[j] \in DOMAIN T, \A j \in 1 .. i - 1 : s[j] # s[i],
         NEW r, r = T[s[i]]
  PROVE  Listed(T, s, i) = With(Listed(T, s, i - 1), r.key, r.val)
<1>1. PICK C : C = Listed(T, s, i - 1)
  OBVIOUS
<1>2. \A j \in 1 .. i : j = i \/ j \in 1 .. i - 1
  OBVIOUS
<1>3. Listed(T, s, i) = C \cup {<<r.key, r.val>>}
  <2>1. \A j \in 1 .. i - 1 : j \in 1 .. i
    OBVIOUS
  <2>2. i \in 1 .. i
    OBVIOUS
  <2> QED
    BY <1>1, <1>2, <2>1, <2>2 DEF Listed
<1>4. ASSUME NEW j \in 1 .. i - 1
      PROVE  T[s[j]].key # r.key
  <2>1. j \in 1 .. i /\ i \in 1 .. i
    OBVIOUS
  <2>2. loc[T[s[j]].key] = s[j] /\ loc[r.key] = s[i]
    BY <2>1 DEF Placed
  <2> QED
    BY <2>2
<1>5. Besides(C, r.key) = C
  BY <1>1, <1>4 DEF Besides, Listed
<1> QED
  BY <1>1, <1>3, <1>5 DEF With

\* All records of a file are put into a new one, which then holds the same.
LEMMA PutAllHolds ==
  ASSUME NEW db, NEW Vs, Sizable(Vs), Sound(db, Vs)
  PROVE  Contents(PutAll(db, EmptyDB)) = Contents(db)
<1>1. PICK s, n, new, T : s = RecOffsets(db) /\ n = Len(s) /\ new = EmptyDB /\ T = Index(db)
  OBVIOUS
<1>2. Clean(db, Vs) /\ Sound(new, Vs)
  BY <1>1, SoundIs, EmptySound
<1>3. PICK D, loc : Placed(T, D, loc)
  <2>1. PICK D, at, sub, loc : Treed(db, Vs, D, at, sub, loc)
    BY DEF Sound
  <2>2. Indexed(T, db.bucket, D, at, sub, loc)
    BY <1>1, <2>1 DEF Treed, Rooted
  <2> QED
    BY <2>2, IndexedAs
<1>4. /\ n \in Nat /\ \A i \in 1 .. n : s[i] \in DOMAIN T
      /\ \A o \in DOMAIN T : \E i \in 1 .. n : s[i] = o
      /\ \A i, j \in 1 .. n : i # j => s[i] # s[j]
  BY <1>1, <1>2, RecOffsetsIs DEF ListsRecords
<1>5. PICK put : PutInTurn(db.seg, s, new, n, put) /\ PutAll(db, new) = put[n]
  BY <1>1, <1>2, PutAllTurns
<1>6. put[0] = new /\ \A i \in 1 .. n : put[i] = PutBack(put[i - 1], db.seg[s[i]])
  BY <1>5 DEF PutInTurn
<1> DEFINE P == {i \in 0 .. n : Sound(put[i], Vs) /\ Contents(put[i]) = Listed(T, s, i)}
<1>7. 0 \in P
  <2>1. Contents(new) = {}
    <3>1. DOMAIN Index(new) = {}
      <4>1. Clean(new, Vs) /\ DOMAIN new.seg = {}
        BY <1>1, <1>2, SoundIs DEF EmptyDB
      <4> QED
        BY <4>1, IndexIs
    <3> QED
      BY <3>1 DEF Contents, Pairs
  <2>2. Listed(T, s, 0) = {}
    BY DEF Listed
  <2> QED
    BY <1>2, <1>4, <1>6, <2>1, <2>2
<1>8. ASSUME NEW i \in 1 .. n, i - 1 \in P
      PROVE  i \in P
  <2>1. PICK d, r : d = put[i - 1] /\ r = db.seg[s[i]]
    OBVIOUS
  <2>2. Sound(d, Vs) /\ Contents(d) = Listed(T, s, i - 1)
    BY <1>8, <2>1
  <2>3. IsRecord(r, Vs) /\ r = T[s[i]]
    <3>1. PICK o : o = s[i] /\ o \in DOMAIN Index(db)
      BY <1>1, <1>4
    <3> QED
      BY <1>1, <1>2, <2>1, <3>1, IndexIs
  <2>4. Sound(PutBack(d, r), Vs) /\ Contents(PutBack(d, r)) = With(Contents(d), r.key, r.val)
    BY <2>2, <2>3, PutBackIs
  <2>5. Listed(T, s, i) = With(Listed(T, s, i - 1), r.key, r.val)
    <3>1. i \in Nat \ {0} /\ \A j \in 1 .. i : j \in 1 .. n
      BY <1>4
    <3>2. \A j \in 1 .. i - 1 : s[j] # s[i]
      BY <1>4
    <3> QED
      BY <1>3, <1>4, <2>3, <3>1, <3>2, ListedOn
  <2>6. put[i] = PutBack(d, r) /\ i \in 0 .. n
    BY <1>4, <1>6, <2>1
  <2> QED
    BY <2>2, <2>4, <2>5, <2>6
<1>9. n \in P
  <2>1. \A i \in 0 .. n : i \in P
    <3> HIDE DEF P
    <3> QED
      BY <1>4, <1>7, <1>8, Reached
  <2> QED
    BY <1>4, <2>1
<1>10. Listed(T, s, n) = Pairs(T)
  BY <1>4 DEF Listed, Pairs
<1> QED
  BY <1>1, <1>5, <1>9, <1>10 DEF Contents

\* tchdboptimize keeps what a file holds.
LEMMA OptimizeHolds ==
  ASSUME NEW db, NEW Vs, Sizable(Vs), Sound(db, Vs)
  PROVE  Contents(Optimize(db)) = Contents(db)
BY PutAllHolds DEF Optimize

\* A reader finds just what the file holds.
LEMMA HoldsIs ==
  ASSUME NEW db, NEW Vs, Sound(db, Vs)
  PROVE  /\ \A p, q \in Contents(db) : p[1] = q[1] => p = q
         /\ \A p \in Contents(db) : p[1] \in Keys /\ p[2] \in Vs /\ p = <<p[1], p[2]>>
         /\ \A k \in Keys : Has(db, k) <=> \E p \in Contents(db) : p[1] = k
         /\ \A k \in Keys : Has(db, k) => <<k, db.seg[Find(db, k).off].val>> \in Contents(db)
<1>1. PICK D, at, sub, loc : Treed(db, Vs, D, at, sub, loc)
  BY DEF Sound
<1>2. PICK T : T = Index(db)
  OBVIOUS
<1>3. Placed(T, D, loc) /\ Clean(db, Vs)
  <2>1. Indexed(T, db.bucket, D, at, sub, loc) /\ Clean(db, Vs)
    BY <1>1, <1>2 DEF Treed, Rooted
  <2> QED
    BY <2>1, IndexedAs
<1>4. /\ \A p, q \in Pairs(T) : p[1] = q[1] => p = q
      /\ \A k \in D : <<k, T[loc[k]].val>> \in Pairs(T)
      /\ \A p \in Pairs(T) : p[1] \in D /\ p = <<p[1], T[loc[p[1]]].val>>
  BY <1>3, PairsOnce
<1>5. ASSUME NEW p \in Pairs(T)
      PROVE  p[1] \in Keys /\ p[2] \in Vs /\ p = <<p[1], p[2]>>
  <2>1. PICK o \in DOMAIN T : p = <<T[o].key, T[o].val>>
    BY DEF Pairs
  <2>2. IsRecord(T[o], Vs)
    BY <1>2, <1>3, IndexIs
  <2>3. T[o].key \in Keys /\ T[o].val \in Vs
    BY <2>2, SegIs DEF IsRecord
  <2> QED
    BY <2>1, <2>3
<1>6. ASSUME NEW k \in Keys
      PROVE  /\ Has(db, k) <=> \E p \in Pairs(T) : p[1] = k
             /\ Has(db, k) => <<k, db.seg[Find(db, k).off].val>> \in Pairs(T)
  <2>1. (k \in D => Find(db, k).off = loc[k]) /\ (Has(db, k) <=> k \in D)
    BY <1>1, FoundIs
  <2>2. CASE k \in D
    <3>1. loc[k] \in DOMAIN T
      BY <1>3, <2>2 DEF Placed
    <3>2. T[loc[k]] = db.seg[loc[k]]
      BY <1>2, <1>3, <3>1, IndexIs
    <3>3. <<k, db.seg[loc[k]].val>> \in Pairs(T)
      BY <1>4, <2>2, <3>2
    <3> QED
      BY <2>1, <2>2, <3>3
  <2>3. CASE k \notin D
    BY <1>4, <2>1, <2>3
  <2> QED
    BY <2>2, <2>3
<1> QED
  BY <1>2, <1>4, <1>5, <1>6 DEF Contents

\* What only lives in memory changes.
LEMMA RepooledSound ==
  ASSUME NEW db, NEW Vs, Sound(db, Vs), NEW d, Repooled(db, d),
         Pooled(db.seg, db.fsiz, db.fsiz, db.fsiz, d.pool), Len(d.pool) <= Room
  PROVE  Sound(d, Vs)
<1>1. PICK D, at, sub, loc : Treed(db, Vs, D, at, sub, loc)
  BY DEF Sound
<1>2. Clean(db, Vs) /\ Indexed(Index(db), db.bucket, D, at, sub, loc) /\ db.rnum = Cardinality(D)
  BY <1>1 DEF Treed, Rooted
<1>3. PICK n : n = db.fsiz
  OBVIOUS
<1>4. Kept(d, n, n, Vs)
  BY <1>2, <1>3, RepooledKept DEF Clean
<1>5. /\ d.fsiz = n /\ d.seg = db.seg /\ d.bucket = db.bucket /\ d.rnum = db.rnum
  BY <1>3 DEF Repooled
<1>6. Clean(d, Vs) /\ Index(d) = Index(db)
  BY <1>3, <1>4, <1>5 DEF Clean, Index
<1>7. Treed(d, Vs, D, at, sub, loc)
  BY <1>2, <1>5, <1>6 DEF Treed, Rooted
<1> QED
  BY <1>7 DEF Sound

\* A closed object has the same file.
LEMMA VolatileIs ==
  ASSUME NEW db, IsDB(db), NEW d, d = Volatile(db)
  PROVE  Repooled(db, d) /\ d.pool = db.pool
BY DEF Volatile, IsDB, Fields, Repooled

\* A process dies, closes the file, opens it.
LEMMA ClosedIs ==
  ASSUME NEW db, NEW Vs, Sound(db, Vs)
  PROVE  /\ Sound(Volatile(db), Vs) /\ Sound(Closed(db), Vs)
         /\ \A marked \in BOOLEAN : Sound(Opened(db, marked), Vs)
<1>1. Clean(db, Vs)
  BY SoundIs
<1>2. PICK seg, n, pool : seg = db.seg /\ n = db.fsiz /\ pool = db.pool
  OBVIOUS
<1>3. Pooled(seg, n, n, n, pool) /\ Len(pool) <= Room /\ IsDB(db) /\ Kept(db, n, n, Vs)
  BY <1>1, <1>2 DEF Clean, Kept
<1>4. /\ Pooled(seg, n, n, n, SortByOff(pool)) /\ Len(SortByOff(pool)) = Len(pool)
      /\ Pooled(seg, n, n, n, SortByRsiz(pool)) /\ Len(SortByRsiz(pool)) = Len(pool)
  BY <1>3, PoolSorted
<1>5. Pooled(seg, n, n, n, <<>>) /\ Len(<<>>) <= Room
  <2>1. 1 .. Len(<<>>) = {} /\ <<>> \in Seq(Block)
    OBVIOUS
  <2> QED
    BY <2>1, RoomIs DEF Pooled
<1>6. Pooled(seg, n, n, n, FbpMerge(db).pool) /\ Len(FbpMerge(db).pool) <= Room
  <2>1. PICK m : m = FbpMerge(db)
    OBVIOUS
  <2>2. Pooled(db.seg, db.fsiz, n, n, m.pool) /\ Len(m.pool) <= Room
    BY <1>3, <2>1, MergeIs
  <2> QED
    BY <1>2, <2>1, <2>2
<1>7. ASSUME NEW new, Pooled(seg, n, n, n, new), Len(new) <= Room
      PROVE  Sound(Volatile([db EXCEPT !.pool = new]), Vs)
  <2>1. PICK e : e = [db EXCEPT !.pool = new]
    OBVIOUS
  <2>2. Repooled(db, e) /\ e.pool = new
    BY <1>3, <2>1 DEF IsDB, Fields, Repooled
  <2>3. PICK d : d = Volatile(e)
    OBVIOUS
  <2>4. Repooled(e, d) /\ d.pool = new
    <3>1. IsDB(e)
      BY <2>2 DEF Repooled
    <3> QED
      BY <2>2, <2>3, <3>1, VolatileIs
  <2>5. Repooled(db, d)
    BY <2>2, <2>4 DEF Repooled
  <2>6. Sound(d, Vs)
    BY <1>2, <1>7, <2>4, <2>5, RepooledSound
  <2> QED
    BY <2>1, <2>3, <2>6
<1>8. Sound(Volatile(db), Vs)
  <2>1. PICK d : d = Volatile(db)
    OBVIOUS
  <2>2. Repooled(db, d) /\ d.pool = pool
    BY <1>2, <1>3, <2>1, VolatileIs
  <2> QED
    BY <1>2, <1>3, <2>1, <2>2, RepooledSound
<1>9. Sound(Closed(db), Vs)
  <2>1. PICK all : all = IF Len(pool) > FbpMax THEN FbpMerge(db).pool ELSE SortByOff(pool)
    OBVIOUS
  <2>2. Pooled(seg, n, n, n, all) /\ Len(all) <= Room
    BY <1>3, <1>4, <1>6, <2>1
  <2>3. PICK new : new = SubSeq(all, 1, Lesser(SaveMax, Len(all)))
    OBVIOUS
  <2>4. Pooled(seg, n, n, n, new) /\ Len(new) <= Room
    <3>1. all \in Seq(Block) /\ Len(all) \in Nat
      BY <2>2 DEF Pooled
    <3>2. PICK m : m = Lesser(SaveMax, Len(all))
      OBVIOUS
    <3>3. m \in Nat /\ m <= Len(all)
      BY <3>1, <3>2, LayoutAssumption DEF Lesser
    <3>4. /\ new \in Seq(Block) /\ Len(new) = m - 1 + 1 /\ Drawn(all, new)
      <4>1. 1 \in 1 .. Len(all) + 1 /\ m \in 1 - 1 .. Len(all) /\ new = SubSeq(all, 1, m)
        BY <2>3, <3>1, <3>2, <3>3
      <4>2. \A to \in 1 - 1 .. Len(all) :
              SubSeq(all, 1, to) \in Seq(Block) /\ Len(SubSeq(all, 1, to)) = to - 1 + 1
              /\ Drawn(all, SubSeq(all, 1, to))
        BY <3>1, <4>1, SubSeqDrawn
      <4> QED
        BY <4>1, <4>2
    <3>5. Len(new) <= Room
      BY <2>2, <3>1, <3>3, <3>4, RoomIs
    <3> QED
      BY <2>2, <3>4, <3>5, PoolDrawn
  <2>5. Closed(db) = Volatile([db EXCEPT !.pool = new])
    BY <1>2, <2>1, <2>3 DEF Closed, Saved
  <2> QED
    BY <1>7, <2>4, <2>5
<1>10. ASSUME NEW marked \in BOOLEAN
       PROVE  Sound(Opened(db, marked), Vs)
  <2>1. PICK new : new = IF marked THEN <<>> ELSE SortByRsiz(pool)
    OBVIOUS
  <2>2. Pooled(seg, n, n, n, new) /\ Len(new) <= Room
    BY <1>3, <1>4, <1>5, <2>1
  <2>3. Opened(db, marked) = Volatile([db EXCEPT !.pool = new])
    BY <1>2, <2>1 DEF Opened
  <2> QED
    BY <1>7, <2>2, <2>3
<1> QED
  BY <1>8, <1>9, <1>10

\* The record at o goes, the others stay where they are.
LEMMA DroppedIs ==
  ASSUME NEW db, NEW Vs, Sound(db, Vs), NEW o \in DOMAIN Index(db),
         NEW k, k = db.seg[o].key, NEW d, d = RemoveRec(db, Find(db, k))
  PROVE  Sound(d, Vs) /\ SameButChildren(Without(Index(db), o), Index(d))
<1>1. PICK D, at, sub, loc : Treed(db, Vs, D, at, sub, loc)
  BY DEF Sound
<1>2. PICK T : T = Index(db)
  OBVIOUS
<1>3. Clean(db, Vs) /\ Indexed(T, db.bucket, D, at, sub, loc)
  BY <1>1, <1>2 DEF Treed, Rooted
<1>4. T[o] = db.seg[o]
  BY <1>2, <1>3, IndexIs
<1>5. k \in D /\ loc[k] = o
  <2>1. T[o].key \in D /\ loc[T[o].key] = o
    BY <1>2, <1>3 DEF Indexed
  <2> QED
    BY <1>4, <2>1
<1>6. /\ \E at2, sub2, loc2 : Treed(d, Vs, D \ {k}, at2, sub2, loc2)
      /\ Removed(db, d, loc[k])
  BY <1>1, <1>5, RemoveIs
<1>7. SameButChildren(Without(Index(db), o), Index(d))
  BY <1>5, <1>6 DEF Removed
<1> QED
  BY <1>6, <1>7 DEF Sound

\* The record of a key goes.
LEMMA DeletedIs ==
  ASSUME NEW db, NEW Vs, Sound(db, Vs), NEW k \in Keys, Has(db, k), NEW d, d = RemoveRec(db, Find(db, k))
  PROVE  Sound(d, Vs) /\ Contents(d) = Besides(Contents(db), k)
<1>1. PICK D, at, sub, loc : Treed(db, Vs, D, at, sub, loc)
  BY DEF Sound
<1>2. k \in D
  BY <1>1, FoundIs
<1>3. /\ \E at2, sub2, loc2 : Treed(d, Vs, D \ {k}, at2, sub2, loc2)
      /\ Removed(db, d, loc[k])
  BY <1>1, <1>2, RemoveIs
<1>4. PICK T, U : T = Index(db) /\ U = Index(d)
  OBVIOUS
<1>5. Placed(T, D, loc)
  <2>1. Indexed(T, db.bucket, D, at, sub, loc)
    BY <1>1, <1>4 DEF Treed, Rooted
  <2> QED
    BY <2>1, IndexedAs
<1>6. Pairs(U) = Besides(Pairs(T), k)
  <2>1. PICK W : W = Without(T, loc[k])
    OBVIOUS
  <2>2. SameButChildren(W, U)
    BY <1>3, <1>4, <2>1 DEF Removed
  <2>3. Pairs(U) = Pairs(W)
    BY <2>2, PairsAlike
  <2>4. Pairs(W) = Besides(Pairs(T), k)
    BY <1>2, <1>5, <2>1, PairsWithout
  <2> QED
    BY <2>3, <2>4
<1> QED
  BY <1>3, <1>4, <1>6 DEF Sound, Contents

\* The keys of records.
KeysOf(db) == {k \in Keys : Has(db, k)}

\* The header counts them.
LEMMA KeysOfIs ==
  ASSUME NEW db, NEW Vs, Sound(db, Vs)
  PROVE  IsFiniteSet(KeysOf(db)) /\ db.rnum = Cardinality(KeysOf(db))
<1>1. PICK D, at, sub, loc : Treed(db, Vs, D, at, sub, loc)
  BY DEF Sound
<1>2. Tree(D, at, sub) /\ db.rnum = Cardinality(D)
  BY <1>1 DEF Treed, Rooted, Indexed
<1>3. D \subseteq Keys /\ IsFiniteSet(D)
  BY <1>2 DEF Tree
<1>4. KeysOf(db) = D
  BY <1>1, <1>3, FoundIs DEF KeysOf
<1> QED
  BY <1>2, <1>3, <1>4

---------------------------------------------------------------------------
(* How far the file grows *)

\* d is an object of a file as long as db's.
SameEnd(db, d) == IsDB(d) /\ d.fsiz = db.fsiz

\* The ends of a file of f bytes that is written a record of n bytes: it is
\* put in a free block, or behind the others and padded.
Grown(f, n, x) == x = f \/ x = f + (n + PadSize(f + n))

\* A free block enters the pool.
LEMMA InsertEnds ==
  ASSUME NEW db, IsDB(db), NEW off, NEW n, NEW d, d = FbpInsert(db, off, n)
  PROVE  SameEnd(db, d)
<1>1. PICK m : m = FbpMerge(db)
  OBVIOUS
<1>2. SameEnd(db, m)
  BY <1>1 DEF FbpMerge, WithPool, SameEnd, IsDB, Fields
<1>3. PICK r : r = IF Len(db.pool) < FbpMax * AlwRat THEN db ELSE Shrunk(m)
  OBVIOUS
<1>4. SameEnd(db, r)
  BY <1>2, <1>3 DEF Shrunk, SameEnd, IsDB, Fields
<1>5. d = Enter(r, off, n)
  BY <1>1, <1>3 DEF FbpInsert
<1>6. SameEnd(r, d)
  BY <1>4, <1>5 DEF Enter, SameEnd, IsDB, Fields
<1> QED
  BY <1>4, <1>6 DEF SameEnd

\* A region becomes a free block.
LEMMA FreeingEnds ==
  ASSUME NEW db, IsDB(db), NEW off, NEW n, NEW d, d = FbpInsert(WriteFB(db, off, n), off, n)
  PROVE  SameEnd(db, d)
<1>1. PICK w : w = WriteFB(db, off, n)
  OBVIOUS
<1>2. SameEnd(db, w)
  BY <1>1, WriteFBIs DEF SameEnd
<1>3. SameEnd(w, d)
  BY <1>1, <1>2, InsertEnds DEF SameEnd
<1> QED
  BY <1>2, <1>3 DEF SameEnd

\* The file ends behind a record that is written at its end, and else where it
\* did.
LEMMA FillEnds ==
  ASSUME NEW g, IsDB(g.db), NEW size, NEW r, NEW ent, NEW d, d = Fill(g, size, r, ent)
  PROVE  IsDB(d) /\ d.fsiz = IF g.rsiz = 0 THEN g.off + size ELSE g.db.fsiz
<1>1. PICK cut : cut = IF g.rsiz = 0 \/ g.rsiz - size = 0 THEN g.db
                       ELSE FbpInsert(WriteFB(g.db, g.off + size, g.rsiz - size), g.off + size, g.rsiz - size)
  OBVIOUS
<1>2. SameEnd(g.db, cut)
  <2>1. CASE g.rsiz = 0 \/ g.rsiz - size = 0
    BY <1>1, <2>1 DEF SameEnd
  <2>2. CASE ~(g.rsiz = 0 \/ g.rsiz - size = 0)
    <3>1. PICK db, m, n : db = g.db /\ m = g.off + size /\ n = g.rsiz - size
      OBVIOUS
    <3>2. cut = FbpInsert(WriteFB(db, m, n), m, n) /\ IsDB(db)
      BY <1>1, <2>2, <3>1
    <3>3. SameEnd(db, cut)
      BY <3>2, FreeingEnds
    <3> QED
      BY <3>1, <3>3
  <2> QED
    BY <2>1, <2>2
<1>3. PICK s, o : s = Rec(size, r.key, r.val, r.left, r.right) /\ o = g.off
  OBVIOUS
<1>4. s.rsiz = size
  BY <1>3 DEF Rec
<1>5. PICK w, u : w = WriteSeg(cut, o, size, s) /\ u = IF g.rsiz = 0 THEN SetFsiz(w, o + size) ELSE w
  OBVIOUS
<1>6. SameEnd(cut, w)
  BY <1>2, <1>5, WriteSegIs DEF SameEnd
<1>7. IsDB(u) /\ u.fsiz = IF g.rsiz = 0 THEN o + size ELSE w.fsiz
  <2>1. CASE g.rsiz = 0
    <3>1. PICK x : x = o + size
      OBVIOUS
    <3>2. u = SetFsiz(w, x) /\ IsDB(w)
      BY <1>5, <1>6, <2>1, <3>1 DEF SameEnd
    <3> QED
      BY <2>1, <3>1, <3>2, SetFsizIs
  <2>2. CASE g.rsiz # 0
    BY <1>5, <1>6, <2>2 DEF SameEnd
  <2> QED
    BY <2>1, <2>2
<1>8. d = SetEntry(u, r.key, ent, o)
  BY <1>1, <1>3, <1>4, <1>5 DEF Fill, StoreAt
<1>9. IsDB(d) /\ d.fsiz = u.fsiz
  BY <1>7, <1>8, SetEntryIs
<1> QED
  BY <1>2, <1>3, <1>6, <1>7, <1>9 DEF SameEnd

\* A record is put into a region that suits it.
LEMMA PlaceRecGrows ==
  ASSUME NEW Vs, NEW r, NEW n, n = RecSize(r.val), NEW g, Region(g, n, Vs), NEW ent,
         NEW d, d = PlaceRec(g, r, ent)
  PROVE  IsDB(d) /\ Grown(g.db.fsiz, n, d.fsiz)
<1>1. /\ IsDB(g.db) /\ (g.rsiz = 0 => g.off = g.db.fsiz)
  BY DEF Region, Kept
<1>2. PICK size : size = IF g.rsiz = 0 \/ g.rsiz - n > MaxPad THEN n + PadSize(g.off + n) ELSE g.rsiz
  OBVIOUS
<1>3. d = Fill(g, size, r, ent)
  BY <1>2 DEF PlaceRec
<1>4. IsDB(d) /\ d.fsiz = IF g.rsiz = 0 THEN g.off + size ELSE g.db.fsiz
  BY <1>1, <1>3, FillEnds
<1>5. CASE g.rsiz = 0
  BY <1>1, <1>2, <1>4, <1>5 DEF Grown
<1>6. CASE g.rsiz # 0
  BY <1>4, <1>6 DEF Grown
<1> QED
  BY <1>4, <1>5, <1>6

\* tchdbwriterec.
LEMMA WriteRecGrows ==
  ASSUME NEW db, NEW a, NEW r \in Nat, NEW e, e = a + r, NEW Vs, Kept(db, a, e, Vs),
         r = 0 => a = db.fsiz, NEW rec, NEW n \in Nat \ {0}, n = RecSize(rec.val), NEW ent,
         NEW d, d = WriteRec(db, a, r, rec, ent)
  PROVE  IsDB(d) /\ Grown(db.fsiz, n, d.fsiz)
<1>1. PICK g : g = Suited(db, a, r, n)
  OBVIOUS
<1>2. d = PlaceRec(g, rec, ent)
  BY <1>1 DEF WriteRec, Suited
<1>3. Region(g, n, Vs) /\ Offers(db, a, e, g)
  BY <1>1, SuitedIs
<1>4. IsDB(d) /\ Grown(g.db.fsiz, n, d.fsiz)
  BY <1>2, <1>3, PlaceRecGrows
<1> QED
  BY <1>3, <1>4 DEF Offers, Alike

\* The size of a record of a value.
LEMMA RecSizeIs ==
  ASSUME NEW Vs, Sizable(Vs), NEW v \in Vs
  PROVE  RecSize(v) \in Nat \ {0}
BY LayoutSizes DEF RecSize, Sizable

\* A record is written over.
LEMMA OverwriteGrows ==
  ASSUME NEW db, NEW Vs, Sizable(Vs), Clean(db, Vs), NEW o \in DOMAIN Index(db), NEW v \in Vs, NEW ent,
         NEW d, d = WriteRec(db, o, db.seg[o].rsiz, [db.seg[o] EXCEPT !.val = v], ent)
  PROVE  Grown(db.fsiz, RecSize(v), d.fsiz)
<1>1. PICK T, n : T = Index(db) /\ n = db.seg[o].rsiz
  OBVIOUS
<1>2. PICK x : Grows(o, n, x)
  BY DEF Grows
<1>3. Kept(db, o, x, Vs) /\ n \in Nat \ {0} /\ o \in Nat /\ x = o + n
  <2>1. /\ Kept(db, o, x, Vs) /\ Table(db.seg, o, x) = Without(T, o)
        /\ n \in Nat \ {0} /\ o \in Nat /\ o < x /\ x \in Nat
    BY <1>1, <1>2, RecordOut
  <2> QED
    BY <1>2, <2>1 DEF Grows
<1>4. PICK rec : rec = [db.seg[o] EXCEPT !.val = v]
  OBVIOUS
<1>5. rec.val = v
  <2>1. IsRecord(db.seg[o], Vs)
    BY IndexIs
  <2>2. PICK s : s = db.seg[o]
    OBVIOUS
  <2>3. s = Rec(s.rsiz, s.key, s.val, s.left, s.right)
    BY <2>1, <2>2, SegIs DEF IsRecord
  <2> QED
    BY <1>4, <2>2, <2>3 DEF Rec
<1>6. RecSize(v) \in Nat \ {0}
  BY RecSizeIs
<1>7. d = WriteRec(db, o, n, rec, ent)
  BY <1>1, <1>4
<1> QED
  BY <1>3, <1>5, <1>6, <1>7, WriteRecGrows

\* A new record is written.
LEMMA InsertGrows ==
  ASSUME NEW db, NEW Vs, Sizable(Vs), Clean(db, Vs), NEW k, NEW v \in Vs, NEW ent,
         NEW d, d = InsertIn(FbpSearch(db, HeadSize), k, v, ent)
  PROVE  Grown(db.fsiz, RecSize(v), d.fsiz)
<1>1. PICK g : g = FbpSearch(db, HeadSize)
  OBVIOUS
<1>2. Region(g, HeadSize, Vs) /\ Offers(db, db.fsiz, db.fsiz, g)
  BY <1>1, SearchIs, LayoutSizes DEF Clean
<1>3. PICK b, a, n, x : b = g.db /\ a = g.off /\ n = g.rsiz /\ x = a + n
  OBVIOUS
<1>4. n \in Nat /\ Kept(b, a, x, Vs) /\ (n = 0 => a = b.fsiz) /\ b.fsiz = db.fsiz
  BY <1>2, <1>3 DEF Region, Offers, Alike
<1>5. PICK rec, w : rec = Rec(0, k, v, 0, 0) /\ w = WriteRec(b, a, n, rec, ent)
  OBVIOUS
<1>6. d = SetRnum(w, g.db.rnum + 1)
  BY <1>1, <1>3, <1>5 DEF InsertIn
<1>7. rec.val = v /\ RecSize(v) \in Nat \ {0}
  BY <1>5, RecSizeIs DEF Rec
<1>8. IsDB(w) /\ Grown(b.fsiz, RecSize(v), w.fsiz)
  BY <1>3, <1>4, <1>5, <1>7, WriteRecGrows
<1>9. d.fsiz = w.fsiz
  BY <1>6, <1>8, SetRnumIs
<1> QED
  BY <1>4, <1>8, <1>9

\* tchdbput lets the file grow by the record at most, and its padding.
LEMMA PutGrows ==
  ASSUME NEW db, NEW Vs, Sizable(Vs), Sound(db, Vs), NEW k \in Keys, NEW v \in Vs,
         NEW d, d = PutRec(db, Find(db, k), k, v)
  PROVE  Grown(db.fsiz, RecSize(v), d.fsiz)
<1>1. PICK D, at, sub, loc : Treed(db, Vs, D, at, sub, loc)
  BY DEF Sound
<1>2. Clean(db, Vs) /\ Indexed(Index(db), db.bucket, D, at, sub, loc) /\ Tree(D, at, sub)
  BY <1>1 DEF Treed, Rooted, Indexed
<1>3. PICK f : Descends(D, at, k, f)
  BY <1>2, DescentEnds
<1>4. PICK s : s = f[Home(k)]
  OBVIOUS
<1>5. PICK p : p = Find(db, k)
  OBVIOUS
<1>6. p.off = Addr(loc, at[s])
  <2>1. Find(db, k) = At(loc, at, f[Home(k)])
    <3>1. Rooted(db, Vs, D, at, sub, loc)
      BY <1>1 DEF Treed
    <3> QED
      BY <1>2, <1>3, <3>1, FindIs
  <2> QED
    BY <1>4, <1>5, <2>1 DEF At
<1>7. CASE p.off = 0
  <2>1. d = InsertIn(FbpSearch(db, HeadSize), k, v, p.ent)
    BY <1>5, <1>7 DEF PutRec, InsertRec
  <2>2. PICK ent : ent = p.ent
    OBVIOUS
  <2> QED
    BY <1>2, <2>1, <2>2, InsertGrows
<1>8. CASE p.off # 0
  <2>1. PICK o, ent : o = p.off /\ ent = p.ent
    OBVIOUS
  <2>2. d = WriteRec(db, o, db.seg[o].rsiz, [db.seg[o] EXCEPT !.val = v], ent)
    BY <1>5, <1>8, <2>1 DEF PutRec, OverwriteRec
  <2>3. o \in DOMAIN Index(db)
    <3>1. s \in SlotsOf(D)
      <4>1. CASE k \in D
        BY <1>2, <1>3, <1>4, <4>1, SlotUnique
      <4>2. CASE k \notin D
        BY <1>2, <1>3, <1>4, <4>2, PathExists
      <4> QED
        BY <4>1, <4>2
    <3>2. Addr(loc, at[s]) \in DOMAIN Index(db) \cup {0}
      <4>1. PICK T, heads : T = Index(db) /\ heads = db.bucket
        OBVIOUS
      <4>2. Indexed(T, heads, D, at, sub, loc)
        BY <1>2, <4>1
      <4>3. Addr(loc, at[s]) \in DOMAIN T \cup {0}
        BY <3>1, <4>2, AddrIs
      <4> QED
        BY <4>1, <4>3
    <3> QED
      BY <1>6, <1>8, <2>1, <3>2
  <2> QED
    BY <1>2, <2>2, <2>3, OverwriteGrows
<1> QED
  BY <1>7, <1>8

\* tchdbout leaves the file as long as it was.
LEMMA RemoveEnds ==
  ASSUME NEW db, IsDB(db), NEW f, NEW d, d = RemoveRec(db, f)
  PROVE  SameEnd(db, d)
<1>1. PICK r : r = db.seg[f.off]
  OBVIOUS
<1>2. PICK e : e = FreeFound(db, f, r)
  OBVIOUS
<1>3. SameEnd(db, e)
  <2>1. PICK o, n : o = f.off /\ n = r.rsiz
    OBVIOUS
  <2>2. e = FbpInsert(WriteFB(db, o, n), o, n)
    BY <1>2, <2>1 DEF FreeFound
  <2> QED
    BY <2>2, FreeingEnds
<1>4. PICK j : j = Join(e, r.key, r.left, r.right)
  OBVIOUS
<1>5. SameEnd(e, j)
  <2>1. PICK ent : j = e \/ j = SetEntry(e, r.key, ent, r.right)
    BY <1>4 DEF Join
  <2>2. CASE j = e
    BY <1>3, <2>2 DEF SameEnd
  <2>3. CASE j = SetEntry(e, r.key, ent, r.right)
    <3>1. PICK k, x : k = r.key /\ x = r.right
      OBVIOUS
    <3>2. j = SetEntry(e, k, ent, x) /\ IsDB(e)
      BY <1>3, <2>3, <3>1 DEF SameEnd
    <3> QED
      BY <3>2, SetEntryIs DEF SameEnd
  <2> QED
    BY <2>1, <2>2, <2>3
<1>6. PICK k, ent, x, u : /\ k = r.key /\ ent = f.ent /\ x = (IF r.left = 0 THEN r.right ELSE r.left)
                          /\ u = SetEntry(j, k, ent, x)
  OBVIOUS
<1>7. SameEnd(j, u)
  BY <1>5, <1>6, SetEntryIs DEF SameEnd
<1>8. PICK n : n = db.rnum - 1
  OBVIOUS
<1>9. d = SetRnum(u, n)
  BY <1>1, <1>2, <1>4, <1>6, <1>8 DEF RemoveRec, RemoveFound
<1>10. SameEnd(u, d)
  BY <1>7, <1>9, SetRnumIs DEF SameEnd
<1> QED
  BY <1>3, <1>5, <1>7, <1>10 DEF SameEnd

\* Multiples of a number are as far apart as it is.
LEMMA NextMultiple ==
  ASSUME NEW n \in Nat \ {0}, NEW x \in Nat, NEW y \in Nat, x % n = 0, y % n = 0, x < y
  PROVE  x + n <= y
<1>1. PICK p, q : p = x \div n /\ q = y \div n
  OBVIOUS
<1>2. p \in Nat /\ q \in Nat /\ x = n * p /\ y = n * q
  BY <1>1
<1>3. p + 1 <= q
  BY <1>2
<1>4. n * (p + 1) <= n * q
  BY <1>2, <1>3
<1> QED
  BY <1>2, <1>4

\* What is padded ends at the next boundary.
LEMMA PaddedWithin ==
  ASSUME NEW y \in Nat, NEW e \in Nat, y <= e, Aligned(e)
  PROVE  y + PadSize(y) <= e
<1>1. PICK n : n = PadSize(y)
  OBVIOUS
<1>2. n \in 0 .. Align - 1 /\ Aligned(y + n) /\ Align \in Nat \ {0}
  BY <1>1, Padded, LayoutSizes
<1>3. PICK x : x = y + n
  OBVIOUS
<1>4. x \in Nat /\ x % Align = 0 /\ e % Align = 0
  BY <1>2, <1>3 DEF Aligned
<1>5. ASSUME e < x
      PROVE  FALSE
  <2>1. e + Align <= x
    BY <1>2, <1>4, <1>5, NextMultiple
  <2> QED
    BY <1>2, <1>3, <2>1
<1>6. x <= e
  BY <1>4, <1>5
<1> QED
  BY <1>1, <1>3, <1>6

\* A record that is written to a file no longer than where another lies ends
\* no later than that one.
LEMMA GrownWithin ==
  ASSUME NEW f \in Nat, NEW o \in Nat, f <= o, NEW n \in Nat, NEW r \in Nat, n <= r, NEW e, e = o + r,
         Aligned(e), NEW x, Grown(f, n, x)
  PROVE  x <= e
<1>1. PICK y : y = f + n
  OBVIOUS
<1>2. y \in Nat /\ e \in Nat /\ y <= e /\ f <= e
  BY <1>1
<1>3. y + PadSize(y) <= e /\ PadSize(y) \in Nat
  BY <1>2, PaddedWithin, Padded, LayoutSizes
<1>4. x = f \/ x = y + PadSize(y)
  BY <1>1, <1>3 DEF Grown
<1> QED
  BY <1>2, <1>3, <1>4

\* The records of a file are listed in its order.
LEMMA RecOffsetsAscend ==
  ASSUME NEW db, NEW Vs, Clean(db, Vs), NEW s, s = RecOffsets(db)
  PROVE  \A i, j \in 1 .. Len(s) : i < j => s[i] < s[j]
<1>1. PICK seg, fsiz : seg = db.seg /\ fsiz = db.fsiz
  OBVIOUS
<1>2. PICK all, S : all = Offsets(db) /\ S = {o \in DOMAIN db.seg : ~IsFB(db, o)}
  OBVIOUS
<1>3. s = Selected(all, S)
  BY <1>2 DEF RecOffsets
<1>4. Whole(seg, fsiz, Vs)
  BY <1>1, IndexIs
<1>5. Lines(seg, fsiz, Frec, all)
  BY <1>1, <1>2, <1>4, AllSegs
<1>6. all \in Seq(DOMAIN seg) /\ \A i, j \in 1 .. Len(all) : i < j => all[i] < all[j]
  BY <1>5 DEF Lines
<1>7. InOrder(all, s)
  BY <1>3, <1>6, SelectedDrawn
<1> QED
  BY <1>6, <1>7 DEF InOrder

\* The end of the segment at o.
EndAt(seg, o) == o + seg[o].rsiz

\* The records of a file, put into a new one, need no more room than they had.
LEMMA PutsWithin ==
  ASSUME NEW db, NEW Vs, Sizable(Vs), Clean(db, Vs), NEW s, s = RecOffsets(db), NEW n, n = Len(s),
         NEW put, PutInTurn(db.seg, s, EmptyDB, n, put)
  PROVE  put[n].fsiz <= db.fsiz
<1>1. PICK seg, fsiz : seg = db.seg /\ fsiz = db.fsiz
  OBVIOUS
<1>2. /\ n \in Nat /\ \A i \in 1 .. n : s[i] \in DOMAIN Index(db)
      /\ \A i, j \in 1 .. n : i < j => s[i] < s[j]
  <2>1. ListsRecords(db, s) /\ \A i, j \in 1 .. n : i < j => s[i] < s[j]
    BY RecOffsetsIs, RecOffsetsAscend
  <2>2. n \in Nat
    BY <2>1 DEF ListsRecords
  <2>3. \A i \in 1 .. n : s[i] \in DOMAIN Index(db)
    BY <2>1 DEF ListsRecords
  <2> QED
    BY <2>1, <2>2, <2>3
<1>3. Whole(seg, fsiz, Vs) /\ DOMAIN Index(db) \subseteq DOMAIN seg
  BY <1>1, IndexIs
<1>4. /\ fsiz \in Nat /\ Frec <= fsiz /\ Aligned(fsiz)
      /\ \A o \in DOMAIN seg :
           /\ o \in Nat /\ Frec <= o /\ seg[o].rsiz \in Nat
           /\ EndAt(seg, o) \in DOMAIN seg \cup {fsiz} /\ EndAt(seg, o) <= fsiz
           /\ Aligned(o)
      /\ \A o, p \in DOMAIN seg : o < p => EndAt(seg, o) <= p
  BY <1>3, WholeIs DEF EndAt
<1> DEFINE Within1(i) ==
      /\ Sound(put[i], Vs) /\ put[i].fsiz \in Nat
      /\ put[i].fsiz <= IF i = 0 THEN Frec ELSE EndAt(seg, s[i])
<1> DEFINE P == {i \in 0 .. n : Within1(i)}
<1>5. 0 \in P
  <2>1. put[0] = EmptyDB
    BY DEF PutInTurn
  <2>2. put[0].fsiz = Frec
    BY <2>1 DEF EmptyDB
  <2>3. Sound(put[0], Vs)
    BY <2>1, EmptySound
  <2> QED
    BY <1>2, <2>2, <2>3, LayoutSizes
<1>6. ASSUME NEW i \in 1 .. n, i - 1 \in P
      PROVE  i \in P
  <2>1. PICK d, e, o, r : d = put[i - 1] /\ e = put[i] /\ o = s[i] /\ r = seg[s[i]]
    OBVIOUS
  <2>2. e = PutBack(d, r)
    BY <1>1, <2>1 DEF PutInTurn
  <2>3. o \in DOMAIN seg /\ r = seg[o] /\ IsRecord(r, Vs)
    BY <1>1, <1>2, <1>3, <2>1, IndexIs
  <2>4. r.key \in Keys /\ r.val \in Vs /\ r.rsiz \in Nat /\ RecSize(r.val) <= r.rsiz
    BY <2>3, SegIs DEF IsRecord
  <2>5. Sound(d, Vs) /\ d.fsiz \in Nat
    BY <1>6, <2>1
  <2>6. d.fsiz <= o
    <3>1. CASE i = 1
      <4>1. d.fsiz <= Frec
        BY <1>6, <2>1, <3>1
      <4> QED
        BY <1>4, <2>3, <2>5, <4>1, LayoutSizes
    <3>2. CASE i # 1
      <4>1. i - 1 \in 1 .. n /\ i - 1 < i
        BY <1>2, <3>2
      <4>2. PICK p : p = s[i - 1]
        OBVIOUS
      <4>3. p \in DOMAIN seg /\ p < o
        BY <1>2, <1>3, <2>1, <4>1, <4>2
      <4>4. d.fsiz <= EndAt(seg, p)
        BY <1>6, <2>1, <4>1, <4>2
      <4>5. EndAt(seg, p) <= o /\ EndAt(seg, p) \in Int /\ o \in Int
        BY <1>4, <2>3, <4>3
      <4> QED
        BY <2>5, <4>4, <4>5
    <3> QED
      BY <3>1, <3>2
  <2>7. PICK x : x = EndAt(seg, o)
    OBVIOUS
  <2>8. o \in Nat /\ x = o + r.rsiz /\ Aligned(x)
    BY <1>4, <2>3, <2>7 DEF EndAt
  <2>9. PICK k, v : k = r.key /\ v = r.val
    OBVIOUS
  <2>10. e = PutRec(d, Find(d, k), k, v)
    BY <2>2, <2>9 DEF PutBack
  <2>11. Sound(e, Vs) /\ Grown(d.fsiz, RecSize(v), e.fsiz)
    BY <2>4, <2>5, <2>9, <2>10, PutIs, PutGrows
  <2>12. PICK m : m = RecSize(v)
    OBVIOUS
  <2>13. m \in Nat
    BY <2>4, <2>9, <2>12, RecSizeIs
  <2>14. e.fsiz <= x
    <3>1. PICK f, z : f = d.fsiz /\ z = e.fsiz
      OBVIOUS
    <3>2. f \in Nat /\ f <= o /\ Grown(f, m, z) /\ m <= r.rsiz
      BY <2>4, <2>5, <2>6, <2>9, <2>11, <2>12, <3>1
    <3>3. z <= x
      BY <2>4, <2>8, <2>13, <3>2, GrownWithin
    <3> QED
      BY <3>1, <3>3
  <2>15. e.fsiz \in Nat
    <3>1. Clean(e, Vs)
      BY <2>11, SoundIs
    <3> QED
      BY <3>1, IndexIs
  <2>16. i \in 0 .. n /\ i # 0
    BY <1>2
  <2> QED
    BY <2>1, <2>7, <2>11, <2>14, <2>15, <2>16
<1>7. \A i \in 0 .. n : i \in P
  <2> HIDE DEF P
  <2> QED
    BY <1>2, <1>5, <1>6, Reached
<1>8. Within1(n) /\ (n = 0 \/ n \in 1 .. n)
  BY <1>2, <1>7
<1>9. CASE n = 0
  BY <1>1, <1>4, <1>8, <1>9, LayoutSizes
<1>10. CASE n \in 1 .. n
  <2>1. s[n] \in DOMAIN seg /\ n # 0
    BY <1>2, <1>3, <1>10
  <2>2. EndAt(seg, s[n]) <= fsiz /\ EndAt(seg, s[n]) \in Int
    BY <1>4, <2>1
  <2> QED
    BY <1>1, <1>4, <1>8, <2>1, <2>2
<1> QED
  BY <1>8, <1>9, <1>10

\* tchdboptimize never makes a file longer.
LEMMA OptimizeEnds ==
  ASSUME NEW db, NEW Vs, Sizable(Vs), Sound(db, Vs)
  PROVE  Optimize(db).fsiz <= db.fsiz
<1>1. Clean(db, Vs)
  BY SoundIs
<1>2. PICK s, n, new : s = RecOffsets(db) /\ n = Len(s) /\ new = EmptyDB
  OBVIOUS
<1>3. PICK put : PutInTurn(db.seg, s, new, n, put) /\ PutAll(db, new) = put[n]
  BY <1>1, <1>2, PutAllTurns
<1>4. put[n].fsiz <= db.fsiz
  BY <1>1, <1>2, <1>3, PutsWithin
<1> QED
  BY <1>2, <1>3, <1>4 DEF Optimize

\* An object of the same file, which holds the same.
SameFile(db, d) == d.fsiz = db.fsiz /\ Contents(d) = Contents(db)

LEMMA VolatileEnds ==
  ASSUME NEW db, IsDB(db), NEW pool, NEW d, d = Volatile([db EXCEPT !.pool = pool])
  PROVE  SameFile(db, d)
<1>1. PICK e : e = [db EXCEPT !.pool = pool]
  OBVIOUS
<1>2. IsDB(e) /\ e.fsiz = db.fsiz /\ e.seg = db.seg
  BY <1>1 DEF IsDB, Fields
<1>3. d.fsiz = db.fsiz /\ d.seg = db.seg
  <2>1. Repooled(e, d)
    BY <1>1, <1>2, VolatileIs
  <2> QED
    BY <1>2, <2>1 DEF Repooled
<1>4. Index(d) = Index(db)
  BY <1>3 DEF Index
<1> QED
  BY <1>3, <1>4 DEF SameFile, Contents

\* Nor does closing it, or the death of its process,
LEMMA ClosedEnds ==
  ASSUME NEW db, IsDB(db)
  PROVE  SameFile(db, Volatile(db)) /\ SameFile(db, Closed(db))
<1>1. PICK pool : pool = Saved(db)
  OBVIOUS
<1>2. Closed(db) = Volatile([db EXCEPT !.pool = pool])
  BY <1>1 DEF Closed
<1>3. SameFile(db, Closed(db))
  BY <1>2, VolatileEnds
<1>4. SameFile(db, Volatile(db))
  <2>1. PICK d : d = Volatile(db)
    OBVIOUS
  <2>2. d.fsiz = db.fsiz /\ d.seg = db.seg
    BY <2>1, VolatileIs DEF Repooled
  <2>3. Index(d) = Index(db)
    BY <2>2 DEF Index
  <2> QED
    BY <2>1, <2>2, <2>3 DEF SameFile, Contents
<1> QED
  BY <1>3, <1>4

\* ... or opening it.
LEMMA OpenedEnds ==
  ASSUME NEW db, IsDB(db), NEW marked
  PROVE  SameFile(db, Opened(db, marked))
<1>1. PICK pool : pool = IF marked THEN <<>> ELSE SortByRsiz(db.pool)
  OBVIOUS
<1>2. Opened(db, marked) = Volatile([db EXCEPT !.pool = pool])
  BY <1>1 DEF Opened
<1> QED
  BY <1>2, VolatileEnds
=================================================================================
