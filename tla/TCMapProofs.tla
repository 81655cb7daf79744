------------------------------ MODULE TCMapProofs ------------------------------
(***************************************************************************)
(* What the operators of TCMap do to the hash map of jni/cpp/tcutil.c, for *)
(* every set of keys and buckets and every pair of hash functions: each    *)
(* keeps the trees of the buckets, the list of all records and the         *)
(* iterator in order, has the effect on the keys, their order and their    *)
(* values that its name says, and takes from what the iterator has still   *)
(* to return nothing but what it removes.                                  *)
(*                                                                         *)
(* A tree is described by the set `sub' of what hangs below each record,   *)
(* the list by the sequence `ks' of its keys; neither is in the code. With *)
(* them the recursive walks of TCMap (Seek, Rightmost, Order) are shown to *)
(* end, and where.                                                         *)
(***************************************************************************)
EXTENDS TCMap, FiniteSetTheorems, WellFoundedInduction, SequenceTheorems, TLAPS

---------------------------------------------------------------------------
(* The trees *)

\* A nonempty set of numbers has a smallest one.
LEMMA LeastOne ==
  ASSUME NEW S \in SUBSET Nat, S # {}
  PROVE  \E m \in S : \A k \in S : m <= k
<1>1. PICK m \in S : \A k \in S : <<k, m>> \notin OpToRel(<, Nat)
  BY NatLessThanWellFounded, WFMin
<1>2. \A k \in S : ~(k < m)
  BY <1>1 DEF OpToRel
<1> QED
  BY <1>2

Sides == {"left", "right"}

SlotsOf(D) == ({"bucket"} \X Buckets) \cup (Sides \X D)

\* The side of the record r on which the key x is sought.
Side(r, x) == IF Left(x, r) THEN "left" ELSE "right"

Ptr(D) == D \cup {None}

Below(sub, x) == IF x = None THEN {} ELSE sub[x]

\* sub is what hangs below each record of D, where at says what is in each slot.
Tree(D, at, sub) ==
  /\ D \subseteq Keys /\ IsFiniteSet(D)
  /\ at \in [SlotsOf(D) -> Ptr(D)]
  /\ sub \in [D -> SUBSET D]
  /\ \A r \in D :
       sub[r] = {r} \cup Below(sub, at[<<"left", r>>]) \cup Below(sub, at[<<"right", r>>])
  /\ \A r \in D, f \in Sides : \A x \in Below(sub, at[<<f, r>>]) : x # r /\ Side(r, x) = f
  /\ \A b \in Buckets : Below(sub, at[<<"bucket", b>>]) = {x \in D : BucketOf[x] = b}

\* A slot is a bucket or a side of a record.
LEMMA SlotKinds ==
  ASSUME NEW D, NEW s \in SlotsOf(D)
  PROVE  \/ \E b \in Buckets : s = <<"bucket", b>>
         \/ \E f \in Sides, r \in D : s = <<f, r>>
BY DEF SlotsOf, Sides

\* Buckets and sides of records are slots, and different ones.
LEMMA SlotIn ==
  ASSUME NEW D
  PROVE  /\ \A b \in Buckets : <<"bucket", b>> \in SlotsOf(D)
         /\ \A f \in Sides, r \in D : <<f, r>> \in SlotsOf(D)
         /\ \A b, f, r, g, q : f \in Sides => <<"bucket", b>> # <<f, r>>
BY DEF SlotsOf, Sides

\* Of a child less hangs than of its parent.
LEMMA ChildBelow ==
  ASSUME NEW D, NEW at, NEW sub, Tree(D, at, sub), NEW r \in D, NEW f \in Sides,
         NEW c, c = at[<<f, r>>], c # None
  PROVE  /\ c \in D /\ c \in sub[c] /\ sub[c] \subseteq sub[r] /\ r \notin sub[c]
         /\ \A x \in sub[c] : Side(r, x) = f
         /\ r \in sub[r] /\ c \in sub[r] /\ c # r
<1>1. c \in D
  BY SlotIn DEF Tree, Ptr
<1>2. Below(sub, c) = sub[c]
  BY DEF Below
<1>3. \A x \in sub[c] : x # r /\ Side(r, x) = f
  BY <1>2 DEF Tree
<1>4. sub[r] = {r} \cup Below(sub, at[<<"left", r>>]) \cup Below(sub, at[<<"right", r>>])
  BY DEF Tree
<1>5. sub[c] \subseteq sub[r]
  BY <1>2, <1>4 DEF Sides
<1>6. c \in sub[c]
  BY <1>1, ZenonT(40) DEF Tree
<1> QED
  BY <1>1, <1>3, <1>4, <1>5, <1>6

\* There are two sides.
LEMMA TwoSides ==
  "left" \in Sides /\ "right" \in Sides /\ \A g \in Sides : g = "left" \/ g = "right"
BY DEF Sides

\* A record counts as below itself.
LEMMA SelfBelow ==
  ASSUME NEW D, NEW at, NEW sub, Tree(D, at, sub), NEW r \in D
  PROVE  r \in sub[r] /\ r # None /\ Below(sub, r) = sub[r] /\ sub[r] \subseteq D /\ r \in Keys
<1>1. r \in sub[r] /\ sub[r] \subseteq D /\ r \in Keys
  BY DEF Tree
<1> QED
  BY <1>1, MapAssumption DEF Below

\* What is below a record is the record or below a child of it.
LEMMA BelowSplit ==
  ASSUME NEW D, NEW at, NEW sub, Tree(D, at, sub), NEW r \in D, NEW x \in sub[r], x # r
  PROVE  /\ at[<<Side(r, x), r>>] # None /\ at[<<Side(r, x), r>>] \in D
         /\ x \in sub[at[<<Side(r, x), r>>]] /\ Side(r, x) \in Sides
<1>1. sub[r] = {r} \cup Below(sub, at[<<"left", r>>]) \cup Below(sub, at[<<"right", r>>])
  BY DEF Tree
<1>2. PICK f \in Sides : x \in Below(sub, at[<<f, r>>])
  BY <1>1 DEF Sides
<1>3. Side(r, x) = f
  BY <1>2 DEF Tree
<1>4. at[<<f, r>>] # None /\ x \in sub[at[<<f, r>>]]
  BY <1>2 DEF Below
<1> QED
  BY <1>2, <1>3, <1>4, ChildBelow

\* A set of records has one of which no child is in the set.
LEMMA LowestRecord ==
  ASSUME NEW D, NEW at, NEW sub, Tree(D, at, sub),
         NEW R, R \subseteq D, R # {}
  PROVE  \E r \in R : \A f \in Sides : at[<<f, r>>] \notin R
<1>1. \A x \in D : IsFiniteSet(sub[x])
  BY FS_Subset DEF Tree
<1>2. PICK N : N = {Cardinality(sub[r]) : r \in R}
  OBVIOUS
<1>3. \A r \in R : Cardinality(sub[r]) \in Nat
  BY <1>1, FS_CardinalityType
<1>4. N \in SUBSET Nat /\ N # {}
  BY <1>2, <1>3
<1>5. PICK n \in N : \A k \in N : n <= k
  BY <1>4, LeastOne
<1>6. PICK r \in R : n = Cardinality(sub[r])
  BY <1>2
<1>7. ASSUME NEW f \in Sides, at[<<f, r>>] \in R
      PROVE  FALSE
  <2>1. PICK c : c = at[<<f, r>>]
    OBVIOUS
  <2>2. c # None
    BY <1>7, <2>1, MapAssumption DEF Tree
  <2>3. sub[c] \subseteq sub[r] /\ r \in sub[r] \ sub[c]
    BY <2>1, <2>2, ChildBelow
  <2>4. Cardinality(sub[c]) <= Cardinality(sub[r]) /\ Cardinality(sub[c]) # Cardinality(sub[r])
    BY <1>1, <2>3, FS_Subset
  <2>5. n <= Cardinality(sub[c])
    BY <1>2, <1>5, <1>7, <2>1
  <2> QED
    BY <1>3, <1>6, <1>7, <2>1, <2>4, <2>5
<1> QED
  BY <1>7

\* A set of slots has one from which no child's slot is in the set.
LEMMA LowestSlot ==
  ASSUME NEW D, NEW at, NEW sub, Tree(D, at, sub),
         NEW S, S \subseteq SlotsOf(D), S # {}
  PROVE  \E s \in S : at[s] # None => \A f \in Sides : <<f, at[s]>> \notin S
<1>1. PICK R : R = {at[s] : s \in {t \in S : at[t] # None}}
  OBVIOUS
<1>2. CASE R = {}
  BY <1>1, <1>2
<1>3. CASE R # {}
  <2>1. R \subseteq D
    BY <1>1 DEF Tree, Ptr
  <2>2. PICK r \in R : \A f \in Sides : at[<<f, r>>] \notin R
    BY <1>3, <2>1, LowestRecord
  <2>3. PICK s \in S : at[s] = r /\ r # None
    BY <1>1
  <2>4. CASE \E f \in Sides : <<f, r>> \in S
    BY <1>1, <2>2, <2>4
  <2> QED
    BY <2>3, <2>4
<1> QED
  BY <1>2, <1>3

\* What hangs below a record hangs below all that the record hangs below.
LEMMA BelowTrans ==
  ASSUME NEW D, NEW at, NEW sub, Tree(D, at, sub), NEW r \in D, NEW p \in sub[r]
  PROVE  sub[p] \subseteq sub[r] /\ p \in D
<1> DEFINE R == {x \in D : ~ \A y \in sub[x] : sub[y] \subseteq sub[x]}
<1>1. ASSUME R # {}
      PROVE  FALSE
  <2>1. PICK x \in R : \A f \in Sides : at[<<f, x>>] \notin R
    <3>1. R \subseteq D
      OBVIOUS
    <3> HIDE DEF R
    <3> QED
      BY <1>1, <3>1, LowestRecord
  <2>2. PICK y \in sub[x] : ~(sub[y] \subseteq sub[x])
    OBVIOUS
  <2>3. y # x
    BY <2>2
  <2>4. PICK f, c : f = Side(x, y) /\ c = at[<<f, x>>]
    OBVIOUS
  <2>5. c # None /\ c \in D /\ y \in sub[c] /\ f \in Sides
    BY <2>3, <2>4, BelowSplit
  <2>6. c \notin R
    BY <2>1, <2>4, <2>5
  <2>7. sub[y] \subseteq sub[c]
    BY <2>5, <2>6
  <2>8. sub[c] \subseteq sub[x]
    BY <2>4, <2>5, ChildBelow
  <2> QED
    BY <2>2, <2>7, <2>8
<1>2. sub[r] \subseteq D
  BY DEF Tree
<1> QED
  BY <1>1, <1>2

\* Two records do not hang below each other.
LEMMA BelowAnti ==
  ASSUME NEW D, NEW at, NEW sub, Tree(D, at, sub), NEW r \in D, NEW p \in D,
         p \in sub[r], r \in sub[p]
  PROVE  p = r
<1>1. ASSUME p # r
      PROVE  FALSE
  <2>1. PICK f, c : f = Side(r, p) /\ c = at[<<f, r>>]
    OBVIOUS
  <2>2. c # None /\ c \in D /\ p \in sub[c] /\ f \in Sides
    BY <1>1, <2>1, BelowSplit
  <2>3. sub[p] \subseteq sub[c]
    BY <2>2, BelowTrans
  <2>4. r \notin sub[c]
    BY <2>1, <2>2, ChildBelow
  <2> QED
    BY <2>3, <2>4
<1> QED
  BY <1>1

\* What is below a record is in its bucket.
LEMMA BelowInBucket ==
  ASSUME NEW D, NEW at, NEW sub, Tree(D, at, sub), NEW r \in D, NEW p \in sub[r]
  PROVE  BucketOf[p] = BucketOf[r]
<1>1. PICK b, t : b = BucketOf[r] /\ t = at[<<"bucket", b>>]
  OBVIOUS
<1>2. b \in Buckets
  BY <1>1, MapAssumption DEF Tree
<1>3. Below(sub, t) = {x \in D : BucketOf[x] = b}
  BY <1>1, <1>2 DEF Tree
<1>4. r \in Below(sub, t)
  BY <1>1, <1>3
<1>5. t # None /\ r \in sub[t] /\ sub[t] = Below(sub, t)
  BY <1>4 DEF Below
<1>6. t \in D
  BY <1>1, <1>2, <1>5, SlotIn DEF Tree, Ptr
<1>7. p \in sub[t]
  BY <1>5, <1>6, BelowTrans
<1> QED
  BY <1>1, <1>3, <1>5, <1>7

\* A property of 0 that goes on from each number to the next up to h.
LEMMA Reached ==
  ASSUME NEW h \in Nat, NEW P, 0 \in P, \A i \in 1 .. h : i - 1 \in P => i \in P
  PROVE  \A i \in 0 .. h : i \in P
<1> DEFINE bad == {i \in 0 .. h : i \notin P}
<1>1. ASSUME bad # {}
      PROVE  FALSE
  <2>1. bad \in SUBSET Nat
    OBVIOUS
  <2>2. PICK m \in bad : \A k \in bad : m <= k
    <3> HIDE DEF bad
    <3> QED
      BY <1>1, <2>1, LeastOne
  <2>3. m \in 1 .. h /\ m - 1 \in 0 .. h /\ ~(m <= m - 1)
    BY <2>2
  <2>4. m - 1 \in P
    BY <2>2, <2>3
  <2> QED
    BY <2>2, <2>3, <2>4
<1> QED
  BY <1>1

\* A walk each step of which makes something smaller has an end.
Shrinks(S, stop, nx, size, n) ==
  /\ nx \in [S -> S] /\ size \in [S -> Nat] /\ n \in Nat
  /\ \A s \in S : size[s] < n
  /\ \A s \in S : s \notin stop => size[nx[s]] < size[s]

Walks(S, stop, nx, f) ==
  /\ f \in [S -> S]
  /\ \A s \in S : f[s] = IF s \in stop THEN s ELSE f[nx[s]]

\* By the smaller sizes: the end of a walk is a function of its start.
LEMMA WalkEnds ==
  ASSUME NEW S, NEW stop, NEW nx, NEW size, NEW n, Shrinks(S, stop, nx, size, n)
  PROVE  \E f : Walks(S, stop, nx, f)
<1> USE DEF Shrinks
<1> DEFINE Steps(f, s) == f[s] = IF s \in stop THEN s ELSE f[nx[s]]
<1> DEFINE P == {i \in Nat : \E f \in [S -> S] : \A s \in S : size[s] < i => Steps(f, s)}
<1>1. 0 \in P
  <2>1. \A s \in S : ~(size[s] < 0)
    OBVIOUS
  <2>2. [s \in S |-> s] \in [S -> S]
    OBVIOUS
  <2> QED
    BY <2>1, <2>2
<1>2. ASSUME NEW i \in 1 .. n, i - 1 \in P
      PROVE  i \in P
  <2>1. PICK f \in [S -> S] : \A s \in S : size[s] < i - 1 => Steps(f, s)
    BY <1>2
  <2>2. PICK g : g = [s \in S |-> IF size[s] < i - 1 THEN f[s] ELSE IF s \in stop THEN s ELSE f[nx[s]]]
    OBVIOUS
  <2>3. g \in [S -> S]
    BY <2>2
  <2>4. ASSUME NEW s \in S, size[s] < i
        PROVE  Steps(g, s)
    <3>1. CASE s \in stop
      BY <2>1, <2>2, <3>1
    <3>2. CASE s \notin stop
      <4>1. nx[s] \in S /\ size[nx[s]] < i - 1
        BY <2>4, <3>2
      <4>2. g[nx[s]] = f[nx[s]]
        BY <2>2, <4>1
      <4>3. g[s] = f[nx[s]]
        BY <2>1, <2>2, <3>2
      <4> QED
        BY <3>2, <4>2, <4>3
    <3> QED
      BY <3>1, <3>2
  <2>5. i \in Nat
    OBVIOUS
  <2> QED
    BY <2>3, <2>4, <2>5
<1>3. n \in P
  <2> HIDE DEF P
  <2>1. \A i \in 0 .. n : i \in P
    BY <1>1, <1>2, Reached
  <2> QED
    BY <2>1
<1>4. PICK f \in [S -> S] : \A s \in S : Steps(f, s)
  BY <1>3
<1> QED
  BY <1>4 DEF Walks

\* The sizes of the subtrees.
LEMMA SubtreeSizes ==
  ASSUME NEW D, NEW at, NEW sub, Tree(D, at, sub)
  PROVE  \E size \in [SlotsOf(D) -> Nat], n \in Nat :
           /\ \A s \in SlotsOf(D) : size[s] < n
           /\ \A s \in SlotsOf(D), f \in Sides : at[s] # None => size[<<f, at[s]>>] < size[s]
           /\ \A s \in SlotsOf(D), t \in SlotsOf(D) : at[s] = at[t] => size[s] = size[t]
<1>1. PICK size : size = [s \in SlotsOf(D) |-> Cardinality(Below(sub, at[s]))]
  OBVIOUS
<1>2. \A s \in SlotsOf(D) : Below(sub, at[s]) \subseteq D
  <2>1. \A s \in SlotsOf(D) : at[s] \in Ptr(D)
    BY DEF Tree
  <2> QED
    BY <2>1 DEF Tree, Below, Ptr
<1>3. \A s \in SlotsOf(D) : IsFiniteSet(Below(sub, at[s])) /\ size[s] <= Cardinality(D)
  BY <1>1, <1>2, FS_Subset DEF Tree
<1>4. Cardinality(D) \in Nat
  BY FS_CardinalityType DEF Tree
<1>5. \A s \in SlotsOf(D) : size[s] \in Nat
  BY <1>1, <1>3, FS_CardinalityType
<1>6. size \in [SlotsOf(D) -> Nat]
  BY <1>1, <1>5
<1>7. ASSUME NEW s \in SlotsOf(D), NEW f \in Sides, at[s] # None
      PROVE  size[<<f, at[s]>>] < size[s]
  <2>1. PICK r, c : r = at[s] /\ c = at[<<f, r>>]
    OBVIOUS
  <2>2. r \in D /\ <<f, r>> \in SlotsOf(D)
    BY <1>7, <2>1, SlotIn DEF Tree, Ptr
  <2>3. Below(sub, r) = sub[r] /\ r \in sub[r]
    BY <1>7, <2>1, <2>2 DEF Below, Tree
  <2>4. Below(sub, c) \subseteq sub[r] /\ r \notin Below(sub, c)
    <3>1. CASE c = None
      BY <3>1 DEF Below
    <3>2. CASE c # None
      <4>1. sub[c] \subseteq sub[r] /\ r \notin sub[c]
        BY <2>1, <2>2, <3>2, ChildBelow
      <4> QED
        BY <3>2, <4>1 DEF Below
    <3> QED
      BY <3>1, <3>2
  <2>5. IsFiniteSet(sub[r])
    BY <1>3, <2>1, <2>3
  <2>6. Cardinality(Below(sub, c)) <= Cardinality(sub[r]) /\ Cardinality(Below(sub, c)) # Cardinality(sub[r])
    BY <2>3, <2>4, <2>5, FS_Subset
  <2>7. size[<<f, r>>] = Cardinality(Below(sub, c)) /\ size[s] = Cardinality(sub[r])
    BY <1>1, <2>1, <2>2, <2>3
  <2> QED
    BY <1>5, <2>1, <2>2, <2>6, <2>7
<1>8. \A s \in SlotsOf(D), t \in SlotsOf(D) : at[s] = at[t] => size[s] = size[t]
  BY <1>1
<1> QED
  <2>1. \A s \in SlotsOf(D) : size[s] < Cardinality(D) + 1
    BY <1>3, <1>4, <1>5
  <2>2. Cardinality(D) + 1 \in Nat
    BY <1>4
  <2> QED
    BY <1>6, <1>7, <1>8, <2>1, <2>2

\* The descent for k: where it goes from each slot.
Descends(D, at, k, f) ==
  /\ f \in [SlotsOf(D) -> SlotsOf(D)]
  /\ \A s \in SlotsOf(D) :
       f[s] = IF at[s] \in {None, k} THEN s ELSE f[<<Side(at[s], k), at[s]>>]

\* The descent for a key ends, wherever it starts.
LEMMA DescentEnds ==
  ASSUME NEW D, NEW at, NEW sub, Tree(D, at, sub), NEW k
  PROVE  \E f : Descends(D, at, k, f)
<1>1. PICK size \in [SlotsOf(D) -> Nat], n \in Nat :
           /\ \A s \in SlotsOf(D) : size[s] < n
           /\ \A s \in SlotsOf(D), f \in Sides : at[s] # None => size[<<f, at[s]>>] < size[s]
  BY SubtreeSizes
<1>2. PICK S : S = SlotsOf(D)
  OBVIOUS
<1>3. PICK stop : stop = {s \in S : at[s] \in {None, k}}
  OBVIOUS
<1>4. PICK nx : nx = [s \in S |-> IF s \in stop THEN s ELSE <<Side(at[s], k), at[s]>>]
  OBVIOUS
<1>5. \A s \in S \ stop : at[s] # None /\ at[s] \in D /\ Side(at[s], k) \in Sides
  BY <1>2, <1>3 DEF Tree, Ptr, Side, Sides
<1>6. nx \in [S -> S]
  BY <1>2, <1>4, <1>5, SlotIn
<1>7. \A s \in S \ stop : size[nx[s]] < size[s]
  BY <1>1, <1>2, <1>4, <1>5
<1>8. PICK f : Walks(S, stop, nx, f)
  <2>1. Shrinks(S, stop, nx, size, n)
    BY <1>1, <1>2, <1>6, <1>7 DEF Shrinks
  <2> QED
    BY <2>1, WalkEnds
<1>9. ASSUME NEW s \in S
      PROVE  (IF s \in stop THEN s ELSE f[nx[s]]) = IF at[s] \in {None, k} THEN s ELSE f[<<Side(at[s], k), at[s]>>]
  BY <1>3, <1>4, <1>9
<1>10. \A s \in S : f[s] = IF at[s] \in {None, k} THEN s ELSE f[<<Side(at[s], k), at[s]>>]
  BY <1>8, <1>9 DEF Walks
<1> QED
  BY <1>2, <1>8, <1>10 DEF Descends, Walks

\* The slot where the descent for k ends.
Home(k) == <<"bucket", BucketOf[k]>>

\* The descent comes to the record if it is below, and else to an empty slot.
LEMMA DescentFinds ==
  ASSUME NEW D, NEW at, NEW sub, Tree(D, at, sub), NEW k, NEW f, Descends(D, at, k, f),
         k # None, NEW s \in SlotsOf(D)
  PROVE  /\ k \in Below(sub, at[s]) => at[f[s]] = k
         /\ k \notin Below(sub, at[s]) => at[f[s]] = None
         /\ f[s] \in SlotsOf(D)
<1> DEFINE Good(t) == /\ k \in Below(sub, at[t]) => at[f[t]] = k
                      /\ k \notin Below(sub, at[t]) => at[f[t]] = None
<1> DEFINE S == {t \in SlotsOf(D) : ~Good(t)}
<1>1. ASSUME S # {}
      PROVE  FALSE
  <2>1. PICK t \in S : at[t] # None => \A g \in Sides : <<g, at[t]>> \notin S
    <3>1. S \subseteq SlotsOf(D)
      OBVIOUS
    <3> HIDE DEF S
    <3> QED
      BY <1>1, <3>1, LowestSlot
  <2>2. t \in SlotsOf(D) /\ ~Good(t)
    OBVIOUS
  <2>3. CASE at[t] = None
    BY <2>2, <2>3 DEF Below, Descends
  <2>4. CASE at[t] = k
    <3>1. at[t] \in D
      BY <2>2, <2>4 DEF Tree, Ptr
    <3>2. k \in Below(sub, at[t])
      BY <2>4, <3>1 DEF Tree, Below
    <3> QED
      BY <2>2, <2>4, <3>2 DEF Descends
  <2>5. CASE at[t] # None /\ at[t] # k
    <3>1. PICK r, g, u : r = at[t] /\ g = Side(r, k) /\ u = <<g, r>>
      OBVIOUS
    <3>2. r \in D /\ g \in Sides /\ u \in SlotsOf(D)
      BY <2>2, <2>5, <3>1, SlotIn DEF Tree, Ptr, Side, Sides
    <3>3. Good(u)
      BY <2>1, <2>5, <3>1, <3>2
    <3>4. f[t] = f[u]
      BY <2>2, <2>5, <3>1 DEF Descends
    <3>5. k \in Below(sub, r) <=> k \in Below(sub, at[u])
      <4>1. Below(sub, r) = sub[r]
        BY <2>5, <3>1 DEF Below
      <4>2. ASSUME k \in sub[r]
            PROVE  k \in Below(sub, at[u])
        BY <2>5, <3>1, <3>2, <4>2, BelowSplit DEF Below
      <4>3. ASSUME k \in Below(sub, at[u])
            PROVE  k \in sub[r]
        <5>1. at[u] # None /\ k \in sub[at[u]]
          BY <4>3 DEF Below
        <5> QED
          BY <3>1, <3>2, <5>1, ChildBelow
      <4> QED
        BY <4>1, <4>2, <4>3
    <3> QED
      BY <2>2, <3>1, <3>3, <3>4, <3>5
  <2> QED
    BY <2>3, <2>4, <2>5
<1> QED
  BY <1>1 DEF Descends

\* From a slot above p, the descent for what is in a slot of p comes to it.
LEMMA DescentToChild ==
  ASSUME NEW D, NEW at, NEW sub, Tree(D, at, sub), NEW k \in D, NEW f, Descends(D, at, k, f),
         NEW g \in Sides, NEW p \in D, at[<<g, p>>] = k,
         NEW s \in SlotsOf(D), p \in Below(sub, at[s])
  PROVE  f[s] = <<g, p>>
<1> DEFINE S == {t \in SlotsOf(D) : p \in Below(sub, at[t]) /\ f[t] # <<g, p>>}
<1>0. /\ k \in sub[p] /\ k # p /\ Side(p, k) = g /\ k # None /\ k \in sub[k] /\ p \notin sub[k]
      /\ <<g, p>> \in SlotsOf(D) /\ p # None
  BY ChildBelow, SlotIn, MapAssumption DEF Tree
<1>1. ASSUME S # {}
      PROVE  FALSE
  <2>1. PICK t \in S : at[t] # None => \A h \in Sides : <<h, at[t]>> \notin S
    <3>1. S \subseteq SlotsOf(D)
      OBVIOUS
    <3> HIDE DEF S
    <3> QED
      BY <1>1, <3>1, LowestSlot
  <2>2. t \in SlotsOf(D) /\ p \in Below(sub, at[t]) /\ f[t] # <<g, p>>
    OBVIOUS
  <2>3. PICK r : r = at[t]
    OBVIOUS
  <2>4. r # None /\ r \in D /\ p \in sub[r]
    BY <2>2, <2>3 DEF Below, Tree, Ptr
  <2>5. r # k
    BY <1>0, <2>4
  <2>6. PICK h, u : h = Side(r, k) /\ u = <<h, r>>
    OBVIOUS
  <2>7. h \in Sides /\ u \in SlotsOf(D) /\ f[t] = f[u]
    BY <2>2, <2>3, <2>4, <2>5, <2>6, SlotIn DEF Descends, Side, Sides
  <2>8. CASE r = p
    BY <1>0, <2>2, <2>6, <2>7, <2>8 DEF Descends
  <2>9. CASE r # p
    <3>1. PICK e, c : e = Side(r, p) /\ c = at[<<e, r>>]
      OBVIOUS
    <3>2. c # None /\ c \in D /\ p \in sub[c] /\ e \in Sides
      BY <2>4, <2>9, <3>1, BelowSplit
    <3>3. k \in sub[c]
      BY <1>0, <3>2, BelowTrans
    <3>4. Side(r, k) = e
      BY <2>4, <3>1, <3>2, <3>3, ChildBelow
    <3>5. p \in Below(sub, at[u])
      BY <2>6, <3>1, <3>2, <3>4 DEF Below
    <3>6. u \notin S
      BY <2>1, <2>3, <2>4, <2>6, <2>7
    <3> QED
      BY <2>2, <2>7, <3>5, <3>6
  <2> QED
    BY <2>8, <2>9
<1> QED
  BY <1>1

\* The only slot of a record is the one that the descent for it comes to.
LEMMA SlotUnique ==
  ASSUME NEW D, NEW at, NEW sub, Tree(D, at, sub), NEW k \in D, NEW f, Descends(D, at, k, f)
  PROVE  /\ at[f[Home(k)]] = k /\ f[Home(k)] \in SlotsOf(D) /\ Home(k) \in SlotsOf(D)
         /\ \A t \in SlotsOf(D) : at[t] = k => t = f[Home(k)]
<1>1. BucketOf[k] \in Buckets /\ k # None /\ k \in Keys
  BY MapAssumption DEF Tree
<1>2. Home(k) \in SlotsOf(D)
  BY <1>1, SlotIn DEF Home
<1>3. Below(sub, at[Home(k)]) = {x \in D : BucketOf[x] = BucketOf[k]}
  BY <1>1 DEF Home, Tree
<1>4. at[f[Home(k)]] = k /\ f[Home(k)] \in SlotsOf(D)
  BY <1>1, <1>2, <1>3, DescentFinds
<1>5. ASSUME NEW t \in SlotsOf(D), at[t] = k
      PROVE  t = f[Home(k)]
  <2>1. CASE \E b \in Buckets : t = <<"bucket", b>>
    <3>1. PICK b \in Buckets : t = <<"bucket", b>>
      BY <2>1
    <3>2. k \in Below(sub, at[t])
      <4>1. k \in sub[k]
        BY DEF Tree
      <4> QED
        BY <1>1, <1>5, <4>1 DEF Below
    <3>3. Below(sub, at[<<"bucket", b>>]) = {x \in D : BucketOf[x] = b}
      BY DEF Tree
    <3>4. BucketOf[k] = b
      BY <3>1, <3>2, <3>3
    <3>5. t = Home(k)
      BY <3>1, <3>4 DEF Home
    <3> QED
      BY <1>2, <1>5, <3>5 DEF Descends
  <2>2. CASE \E g \in Sides, p \in D : t = <<g, p>>
    <3>1. PICK g \in Sides, p \in D : t = <<g, p>>
      BY <2>2
    <3>2. k \in sub[p]
      BY <1>1, <1>5, <3>1, ChildBelow
    <3>3. BucketOf[p] = BucketOf[k]
      BY <3>2, BelowInBucket
    <3>4. p \in Below(sub, at[Home(k)])
      BY <1>3, <3>3
    <3> QED
      BY <1>2, <1>5, <3>1, <3>4, DescentToChild
  <2> QED
    BY <2>1, <2>2, SlotKinds
<1> QED
  BY <1>2, <1>4, <1>5

\* Every record above p has the key k on the side where p is, and so has p.
LeadsTo(at, sub, k, x, p) ==
  /\ p \in Below(sub, x)
  /\ \A a \in Below(sub, x), h \in Sides : p \in Below(sub, at[<<h, a>>]) => Side(a, k) = h

\* The empty slot to which the descent for a new key leads.
LEMMA DescentPath ==
  ASSUME NEW D, NEW at, NEW sub, Tree(D, at, sub), NEW k, k \notin D, k # None,
         NEW f, Descends(D, at, k, f), NEW s \in SlotsOf(D)
  PROVE  f[s] # s => \E p \in D : f[s] = <<Side(p, k), p>> /\ LeadsTo(at, sub, k, at[s], p)
<1> DEFINE Good(t) == f[t] # t => \E p \in D : f[t] = <<Side(p, k), p>> /\ LeadsTo(at, sub, k, at[t], p)
<1> DEFINE S == {t \in SlotsOf(D) : ~Good(t)}
<1>1. ASSUME S # {}
      PROVE  FALSE
  <2>1. PICK t \in S : at[t] # None => \A h \in Sides : <<h, at[t]>> \notin S
    <3>1. S \subseteq SlotsOf(D)
      OBVIOUS
    <3> HIDE DEF S
    <3> QED
      BY <1>1, <3>1, LowestSlot
  <2>2. t \in SlotsOf(D) /\ ~Good(t)
    OBVIOUS
  <2>3. f[t] # t
    BY <2>2
  <2>4. PICK r : r = at[t]
    OBVIOUS
  <2>5. r # None /\ r # k /\ r \in D
    BY <2>2, <2>3, <2>4 DEF Descends, Tree, Ptr
  <2>6. PICK h, u : h = Side(r, k) /\ u = <<h, r>>
    OBVIOUS
  <2>7. h \in Sides /\ u \in SlotsOf(D) /\ f[t] = f[u]
    BY <2>2, <2>4, <2>5, <2>6, SlotIn DEF Descends, Side, Sides
  <2>8. Good(u)
    BY <2>1, <2>4, <2>5, <2>6, <2>7
  <2>9. Below(sub, r) = sub[r] /\ r \in sub[r]
    BY <2>5, SelfBelow
  <2>10. CASE f[u] = u
    <3>1. ASSUME NEW a \in sub[r], NEW e \in Sides, r \in Below(sub, at[<<e, a>>])
          PROVE  FALSE
      <4>1. a \in D
        BY <2>5 DEF Tree
      <4>2. PICK c : c = at[<<e, a>>]
        OBVIOUS
      <4>3. c # None /\ r \in sub[c]
        BY <3>1, <4>2 DEF Below
      <4>4. c \in D /\ a \notin sub[c] /\ sub[c] \subseteq D
        BY <4>1, <4>2, <4>3, ChildBelow DEF Tree
      <4>5. a \in sub[c]
        BY <4>3, <4>4, BelowTrans
      <4> QED
        BY <4>4, <4>5
    <3>2. LeadsTo(at, sub, k, r, r)
      BY <2>9, <3>1 DEF LeadsTo
    <3> QED
      BY <2>2, <2>4, <2>5, <2>6, <2>7, <2>10, <3>2
  <2>11. CASE f[u] # u
    <3>1. PICK p \in D : f[u] = <<Side(p, k), p>> /\ LeadsTo(at, sub, k, at[u], p)
      BY <2>8, <2>11
    <3>2. PICK c : c = at[u]
      OBVIOUS
    <3>3. c # None /\ p \in sub[c] /\ Below(sub, c) = sub[c]
      BY <3>1, <3>2 DEF LeadsTo, Below
    <3>4. c \in D /\ sub[c] \subseteq sub[r] /\ \A x \in sub[c] : Side(r, x) = h
      BY <2>5, <2>6, <2>7, <3>2, <3>3, ChildBelow
    <3>5. ASSUME NEW a \in sub[r], NEW e \in Sides, p \in Below(sub, at[<<e, a>>])
          PROVE  Side(a, k) = e
      <4>1. a \in D
        BY <2>5 DEF Tree
      <4>2. PICK d : d = at[<<e, a>>]
        OBVIOUS
      <4>3. d # None /\ p \in sub[d]
        BY <3>5, <4>2 DEF Below
      <4>4. Side(a, p) = e /\ d \in D /\ p \in sub[a]
        BY <4>1, <4>2, <4>3, ChildBelow
      <4>5. CASE a = r
        BY <2>6, <3>3, <3>4, <4>4, <4>5
      <4>6. CASE a # r
        <5>1. Side(r, a) \in Sides /\ at[<<Side(r, a), r>>] # None /\ a \in sub[at[<<Side(r, a), r>>]]
              /\ at[<<Side(r, a), r>>] \in D
          BY <2>5, <4>6, BelowSplit
        <5>2. p \in sub[at[<<Side(r, a), r>>]]
          BY <4>4, <5>1, BelowTrans
        <5>3. Side(r, a) = Side(r, p)
          BY <2>5, <5>1, <5>2, ChildBelow
        <5>4. a \in sub[c]
          BY <2>6, <3>2, <3>3, <3>4, <5>1, <5>3
        <5> QED
          BY <3>1, <3>2, <3>3, <3>5, <5>4 DEF LeadsTo
      <4> QED
        BY <4>5, <4>6
    <3>6. LeadsTo(at, sub, k, r, p)
      BY <2>9, <3>3, <3>4, <3>5 DEF LeadsTo
    <3> QED
      BY <2>2, <2>4, <2>7, <3>1, <3>6
  <2> QED
    BY <2>10, <2>11
<1> QED
  BY <1>1

\* The records that the descent for k passes on its way to the slot t.
Passed(D, at, k, t, up) ==
  /\ up \subseteq D
  /\ \A r \in D, g \in Sides : t = <<g, r>> => r \in up /\ Side(r, k) = g
  /\ \A r \in up : t = <<Side(r, k), r>> \/ at[<<Side(r, k), r>>] \in up
  /\ \A r \in D, g \in Sides : at[<<g, r>>] \in up => r \in up /\ Side(r, k) = g
  /\ \A b \in Buckets : at[<<"bucket", b>>] \in up => b = BucketOf[k]
  /\ t = Home(k) \/ at[Home(k)] \in up
  /\ t = Home(k) \/ \E g \in Sides, r \in D : t = <<g, r>>

\* The descent for a new key ends at an empty slot, and passes records.
LEMMA PathExists ==
  ASSUME NEW D, NEW at, NEW sub, Tree(D, at, sub), NEW k \in Keys, k \notin D,
         NEW f, Descends(D, at, k, f), NEW t, t = f[Home(k)]
  PROVE  t \in SlotsOf(D) /\ at[t] = None /\ \E up : Passed(D, at, k, t, up)
<1>1. k # None /\ BucketOf[k] \in Buckets /\ Home(k) \in SlotsOf(D)
  BY MapAssumption, SlotIn DEF Home
<1>2. Below(sub, at[Home(k)]) = {x \in D : BucketOf[x] = BucketOf[k]}
  BY <1>1 DEF Tree, Home
<1>3. t \in SlotsOf(D) /\ at[t] = None
  BY <1>1, <1>2, DescentFinds
<1>4. CASE t = Home(k)
  <2>1. \A r \in D, g \in Sides : t # <<g, r>>
    BY <1>4, SlotIn DEF Home
  <2>2. Passed(D, at, k, t, {})
    BY <1>4, <2>1 DEF Passed
  <2> QED
    BY <1>3, <2>2
<1>5. CASE t # Home(k)
  <2>1. PICK p \in D : t = <<Side(p, k), p>> /\ LeadsTo(at, sub, k, at[Home(k)], p)
    BY <1>1, <1>5, DescentPath
  <2>2. PICK h : h = at[Home(k)]
    OBVIOUS
  <2>3. h # None /\ p \in sub[h] /\ Below(sub, h) = sub[h] /\ h \in D
    BY <1>1, <2>1, <2>2 DEF LeadsTo, Below, Tree, Ptr
  <2>4. sub[h] = {x \in D : BucketOf[x] = BucketOf[k]}
    BY <1>2, <2>2, <2>3
  <2>5. PICK up : up = {r \in D : p \in sub[r]}
    OBVIOUS
  <2>6. up \subseteq sub[h]
    <3>1. \A r \in up : BucketOf[p] = BucketOf[r]
      BY <2>5, BelowInBucket
    <3> QED
      BY <2>3, <2>4, <2>5, <3>1
  <2>7. ASSUME NEW r \in D, NEW g \in Sides, t = <<g, r>>
        PROVE  r \in up /\ Side(r, k) = g
    <3>1. r = p /\ g = Side(p, k)
      BY <2>1, <2>7
    <3> QED
      BY <2>5, <3>1, SelfBelow
  <2>8. ASSUME NEW r \in up
        PROVE  t = <<Side(r, k), r>> \/ at[<<Side(r, k), r>>] \in up
    <3>1. CASE r = p
      BY <2>1, <3>1
    <3>2. CASE r # p
      <4>1. PICK e, c : e = Side(r, p) /\ c = at[<<e, r>>]
        OBVIOUS
      <4>2. c # None /\ c \in D /\ p \in sub[c] /\ e \in Sides
        BY <2>5, <3>2, <4>1, BelowSplit
      <4>3. p \in Below(sub, at[<<e, r>>])
        BY <4>1, <4>2 DEF Below
      <4>4. Side(r, k) = e
        BY <2>1, <2>2, <2>3, <2>6, <4>2, <4>3 DEF LeadsTo
      <4> QED
        BY <2>5, <4>1, <4>2, <4>4
    <3> QED
      BY <3>1, <3>2
  <2>9. ASSUME NEW r \in D, NEW g \in Sides, at[<<g, r>>] \in up
        PROVE  r \in up /\ Side(r, k) = g
    <3>1. PICK c : c = at[<<g, r>>]
      OBVIOUS
    <3>2. c # None /\ c \in D /\ p \in sub[c]
      BY <2>5, <2>9, <3>1, MapAssumption DEF Tree
    <3>3. p \in sub[r]
      BY <3>1, <3>2, ChildBelow
    <3>4. p \in Below(sub, at[<<g, r>>])
      BY <3>1, <3>2 DEF Below
    <3>5. r \in up
      BY <2>5, <3>3
    <3> QED
      BY <2>1, <2>2, <2>3, <2>6, <3>4, <3>5 DEF LeadsTo
  <2>10. ASSUME NEW b \in Buckets, at[<<"bucket", b>>] \in up
         PROVE  b = BucketOf[k]
    <3>1. PICK c : c = at[<<"bucket", b>>]
      OBVIOUS
    <3>2. c # None /\ c \in sub[c] /\ c \in D
      BY <2>5, <2>10, <3>1, SelfBelow
    <3>3. Below(sub, c) = {x \in D : BucketOf[x] = b}
      BY <3>1 DEF Tree
    <3>4. BucketOf[c] = b
      BY <3>2, <3>3 DEF Below
    <3> QED
      BY <2>4, <2>6, <2>10, <3>1, <3>4
  <2>11. h \in up
    BY <2>3, <2>5
  <2>12. Side(p, k) \in Sides
    BY DEF Side, Sides
  <2>13. Passed(D, at, k, t, up)
    BY <2>1, <2>2, <2>5, <2>7, <2>8, <2>9, <2>10, <2>11, <2>12 DEF Passed
  <2> QED
    BY <1>3, <2>13
<1> QED
  BY <1>4, <1>5

\* A new record in the empty slot that the descent for it comes to.
LEMMA Planted ==
  ASSUME NEW D, NEW at, NEW sub, Tree(D, at, sub), NEW k \in Keys, k \notin D,
         NEW f, Descends(D, at, k, f), NEW t, t = f[Home(k)], NEW E, E = D \cup {k},
         NEW new, new = [s \in SlotsOf(E) |-> IF s = t THEN k ELSE IF s \in SlotsOf(D) THEN at[s] ELSE None]
  PROVE  \E sub2 : Tree(E, new, sub2)
<1>1. t \in SlotsOf(D) /\ at[t] = None /\ k # None
  BY PathExists, MapAssumption
<1>2. PICK up : Passed(D, at, k, t, up)
  BY PathExists
<1>3. PICK sub2 : sub2 = [r \in E |-> IF r = k THEN {k} ELSE IF r \in up THEN sub[r] \cup {k} ELSE sub[r]]
  OBVIOUS
<1>4. /\ \A r \in up : sub2[r] = sub[r] \cup {k}
      /\ \A r \in D \ up : sub2[r] = sub[r]
      /\ sub2[k] = {k}
  BY <1>2, <1>3 DEF Passed
<1>5. SlotsOf(D) \subseteq SlotsOf(E)
  BY DEF SlotsOf
<1>6. /\ \A s \in SlotsOf(D) : s # t => new[s] = at[s]
      /\ new[t] = k
      /\ \A g \in Sides : new[<<g, k>>] = None
  <2>1. \A g \in Sides : <<g, k>> \in SlotsOf(E) /\ <<g, k>> \notin SlotsOf(D)
    BY DEF SlotsOf, Sides
  <2> QED
    BY <1>1, <1>5, <2>1
<1>7. new \in [SlotsOf(E) -> Ptr(E)]
  <2>1. \A s \in SlotsOf(D) : at[s] \in Ptr(D)
    BY DEF Tree
  <2> QED
    BY <2>1 DEF Ptr
<1>8. D \subseteq Keys /\ IsFiniteSet(D)
  BY DEF Tree
<1>9. E \subseteq Keys /\ IsFiniteSet(E)
  BY <1>8, FS_AddElement
<1>10. sub2 \in [E -> SUBSET E]
  <2>1. \A r \in D : sub[r] \subseteq D
    BY DEF Tree
  <2> QED
    BY <1>3, <2>1
<1>11. \A x \in Ptr(D) : Below(sub2, x) = Below(sub, x) \cup (IF x \in up THEN {k} ELSE {})
  <2>1. None \notin D
    BY <1>8, MapAssumption
  <2>2. up \subseteq D
    BY <1>2 DEF Passed
  <2> QED
    BY <1>4, <2>1, <2>2 DEF Below, Ptr
<1>12. Below(sub2, k) = {k} /\ Below(sub2, None) = {} /\ Below(sub, None) = {}
  BY <1>1, <1>4 DEF Below
<1>13. ASSUME NEW r \in D, NEW g \in Sides
       PROVE  Below(sub2, new[<<g, r>>]) = Below(sub, at[<<g, r>>]) \cup
                (IF r \in up /\ Side(r, k) = g THEN {k} ELSE {})
  <2>1. PICK s : s = <<g, r>>
    OBVIOUS
  <2>2. s \in SlotsOf(D) /\ at[s] \in Ptr(D)
    BY <2>1, SlotIn DEF Tree
  <2>3. CASE s = t
    <3>1. r \in up /\ Side(r, k) = g
      BY <1>2, <2>1, <2>3 DEF Passed
    <3> QED
      BY <1>1, <1>6, <1>12, <2>1, <2>3, <3>1
  <2>4. CASE s # t
    <3>1. new[s] = at[s]
      BY <1>6, <2>2, <2>4
    <3>2. at[s] \in up <=> r \in up /\ Side(r, k) = g
      BY <1>2, <2>1, <2>4 DEF Passed
    <3> QED
      BY <1>11, <2>1, <2>2, <3>1, <3>2
  <2> QED
    BY <2>3, <2>4
<1>14. ASSUME NEW r \in E
       PROVE  sub2[r] = {r} \cup Below(sub2, new[<<"left", r>>]) \cup Below(sub2, new[<<"right", r>>])
  <2>1. CASE r = k
    BY <1>4, <1>6, <1>12, <2>1 DEF Sides
  <2>2. CASE r \in D
    <3>1. sub[r] = {r} \cup Below(sub, at[<<"left", r>>]) \cup Below(sub, at[<<"right", r>>])
      BY <2>2 DEF Tree
    <3>2. /\ Below(sub2, new[<<"left", r>>]) = Below(sub, at[<<"left", r>>]) \cup
               (IF r \in up /\ Side(r, k) = "left" THEN {k} ELSE {})
          /\ Below(sub2, new[<<"right", r>>]) = Below(sub, at[<<"right", r>>]) \cup
               (IF r \in up /\ Side(r, k) = "right" THEN {k} ELSE {})
      BY <1>13, <2>2 DEF Sides
    <3>3. Side(r, k) = "left" \/ Side(r, k) = "right"
      BY DEF Side
    <3>4. sub2[r] = sub[r] \cup (IF r \in up THEN {k} ELSE {})
      BY <1>4, <2>2
    <3> QED
      BY <3>1, <3>2, <3>3, <3>4
  <2> QED
    BY <2>1, <2>2
<1>15. ASSUME NEW r \in E, NEW g \in Sides, NEW x \in Below(sub2, new[<<g, r>>])
       PROVE  x # r /\ Side(r, x) = g
  <2>1. CASE r = k
    BY <1>6, <1>12, <1>15, <2>1
  <2>2. CASE r \in D
    <3>1. \A y \in Below(sub, at[<<g, r>>]) : y # r /\ Side(r, y) = g
      BY <2>2 DEF Tree
    <3>2. x \in Below(sub, at[<<g, r>>]) \/ (x = k /\ Side(r, k) = g)
      BY <1>13, <1>15, <2>2
    <3> QED
      BY <2>2, <3>1, <3>2
  <2> QED
    BY <2>1, <2>2
<1>16. ASSUME NEW b \in Buckets
       PROVE  Below(sub2, new[<<"bucket", b>>]) = {x \in E : BucketOf[x] = b}
  <2>1. PICK s : s = <<"bucket", b>>
    OBVIOUS
  <2>2. s \in SlotsOf(D) /\ at[s] \in Ptr(D)
    BY <2>1, SlotIn DEF Tree
  <2>3. Below(sub, at[s]) = {x \in D : BucketOf[x] = b}
    BY <2>1 DEF Tree
  <2>4. t = s => b = BucketOf[k]
    <3>1. ASSUME t = s
          PROVE  t = Home(k)
      BY <1>2, <2>1, <3>1, SlotIn DEF Passed
    <3> QED
      BY <2>1, <3>1 DEF Home
  <2>5. b = BucketOf[k] => t = s \/ at[s] \in up
    BY <1>2, <2>1, ZenonT(40) DEF Passed, Home
  <2>6. at[s] \in up => b = BucketOf[k]
    BY <1>2, <2>1 DEF Passed
  <2>7. CASE t = s
    BY <1>1, <1>6, <1>12, <2>1, <2>3, <2>4, <2>7
  <2>8. CASE t # s
    <3>1. Below(sub2, new[s]) = Below(sub, at[s]) \cup (IF at[s] \in up THEN {k} ELSE {})
      BY <1>6, <1>11, <2>2, <2>8
    <3> QED
      BY <2>1, <2>3, <2>5, <2>6, <2>8, <3>1
  <2> QED
    BY <2>7, <2>8
<1>17. Tree(E, new, sub2)
  BY <1>7, <1>9, <1>10, <1>14, <1>15, <1>16 DEF Tree
<1> QED
  BY <1>17

\* The walk along right pointers.
GoesRight(D, at, w) ==
  /\ w \in [D -> D]
  /\ \A x \in D : w[x] = IF at[<<"right", x>>] = None THEN x ELSE w[at[<<"right", x>>]]

\* The walk along right pointers ends, wherever it starts.
LEMMA RightEnds ==
  ASSUME NEW D, NEW at, NEW sub, Tree(D, at, sub)
  PROVE  \E w : GoesRight(D, at, w)
<1>1. PICK size : size = [x \in D |-> Cardinality(sub[x])]
  OBVIOUS
<1>2. \A x \in D : IsFiniteSet(sub[x]) /\ size[x] <= Cardinality(D) /\ sub[x] \subseteq D
  BY <1>1, FS_Subset DEF Tree
<1>3. Cardinality(D) \in Nat
  BY FS_CardinalityType DEF Tree
<1>4. \A x \in D : size[x] \in Nat /\ size[x] < Cardinality(D) + 1
  <2>1. \A x \in D : size[x] \in Nat
    BY <1>1, <1>2, FS_CardinalityType
  <2> QED
    BY <1>2, <1>3, <2>1
<1>5. PICK stop, nx : /\ stop = {x \in D : at[<<"right", x>>] = None}
                      /\ nx = [x \in D |-> IF x \in stop THEN x ELSE at[<<"right", x>>]]
  OBVIOUS
<1>6. ASSUME NEW x \in D, x \notin stop
      PROVE  nx[x] \in D /\ size[nx[x]] < size[x]
  <2>1. PICK c : c = at[<<"right", x>>]
    OBVIOUS
  <2>2. c # None /\ nx[x] = c
    BY <1>5, <1>6, <2>1
  <2>3. c \in D /\ sub[c] \subseteq sub[x] /\ x \in sub[x] /\ x \notin sub[c]
    BY <2>1, <2>2, ChildBelow, TwoSides
  <2>4. Cardinality(sub[c]) <= Cardinality(sub[x]) /\ Cardinality(sub[c]) # Cardinality(sub[x])
    BY <1>2, <2>3, FS_Subset
  <2> QED
    BY <1>1, <1>4, <2>2, <2>3, <2>4
<1>7. Shrinks(D, stop, nx, size, Cardinality(D) + 1)
  <2>1. nx \in [D -> D]
    BY <1>5, <1>6
  <2>2. size \in [D -> Nat]
    BY <1>1, <1>4
  <2> QED
    BY <1>3, <1>4, <1>6, <2>1, <2>2 DEF Shrinks
<1>8. PICK w : Walks(D, stop, nx, w)
  BY <1>7, WalkEnds
<1>9. ASSUME NEW x \in D
      PROVE  w[x] = IF at[<<"right", x>>] = None THEN x ELSE w[at[<<"right", x>>]]
  BY <1>5, <1>8 DEF Walks
<1> QED
  BY <1>8, <1>9 DEF GoesRight, Walks

\* It ends at the last of the records below.
LEMMA RightFinds ==
  ASSUME NEW D, NEW at, NEW sub, Tree(D, at, sub), NEW w, GoesRight(D, at, w), NEW l \in D
  PROVE  /\ w[l] \in sub[l] /\ at[<<"right", w[l]>>] = None
         /\ \A a \in sub[l] : w[l] \in sub[a] /\ a # w[l] => Side(a, w[l]) = "right"
<1> DEFINE Good(x) == /\ w[x] \in sub[x] /\ at[<<"right", w[x]>>] = None
                      /\ \A a \in sub[x] : w[x] \in sub[a] /\ a # w[x] => Side(a, w[x]) = "right"
<1> DEFINE R == {x \in D : ~Good(x)}
<1>1. ASSUME R # {}
      PROVE  FALSE
  <2>1. PICK x \in R : \A g \in Sides : at[<<g, x>>] \notin R
    <3>1. R \subseteq D
      OBVIOUS
    <3> HIDE DEF R
    <3> QED
      BY <1>1, <3>1, LowestRecord
  <2>2. x \in D /\ ~Good(x)
    OBVIOUS
  <2>3. x \in sub[x] /\ sub[x] \subseteq D
    BY <2>2, SelfBelow
  <2>4. CASE at[<<"right", x>>] = None
    <3>1. w[x] = x
      BY <2>2, <2>4 DEF GoesRight
    <3>2. \A a \in sub[x] : x \in sub[a] => a = x
      BY <2>2, <2>3, BelowAnti
    <3> QED
      BY <2>2, <2>3, <2>4, <3>1, <3>2
  <2>5. CASE at[<<"right", x>>] # None
    <3>1. PICK c : c = at[<<"right", x>>]
      OBVIOUS
    <3>2. /\ c \in D /\ sub[c] \subseteq sub[x] /\ x \notin sub[c]
          /\ \A y \in sub[c] : Side(x, y) = "right"
      BY <2>2, <2>5, <3>1, ChildBelow, TwoSides
    <3>3. Good(c)
      BY <2>1, <3>1, <3>2 DEF Sides
    <3>4. w[x] = w[c]
      BY <2>2, <2>5, <3>1 DEF GoesRight
    <3>5. PICK e : e = w[c]
      OBVIOUS
    <3>6. ASSUME NEW a \in sub[x], e \in sub[a], a # e
          PROVE  Side(a, e) = "right"
      <4>1. CASE a = x
        BY <3>2, <3>3, <3>5, <4>1
      <4>2. CASE a # x
        <5>1. PICK g, d : g = Side(x, a) /\ d = at[<<g, x>>]
          OBVIOUS
        <5>2. g \in Sides /\ d # None /\ d \in D /\ a \in sub[d]
          BY <2>2, <4>2, <5>1, BelowSplit
        <5>3. e \in sub[d]
          BY <3>6, <5>2, BelowTrans
        <5>4. Side(x, e) = g
          BY <2>2, <5>1, <5>2, <5>3, ChildBelow
        <5>5. a \in sub[c]
          BY <3>1, <3>2, <3>3, <3>5, <5>1, <5>2, <5>4
        <5> QED
          BY <3>3, <3>5, <3>6, <5>5
      <4> QED
        BY <4>1, <4>2
    <3>7. e \in sub[x] /\ at[<<"right", e>>] = None
      BY <3>2, <3>3, <3>5
    <3> QED
      BY <2>2, <3>4, <3>5, <3>6, <3>7
  <2> QED
    BY <2>4, <2>5
<1> QED
  BY <1>1

\* What is below a record is the child of another one there.
LEMMA HasParent ==
  ASSUME NEW D, NEW at, NEW sub, Tree(D, at, sub), NEW x \in D, NEW c \in sub[x], c # x
  PROVE  \E a \in sub[x], g \in Sides : at[<<g, a>>] = c
<1> DEFINE R == {y \in D : c \in sub[y] /\ c # y /\ ~ \E a \in sub[y], g \in Sides : at[<<g, a>>] = c}
<1>1. ASSUME R # {}
      PROVE  FALSE
  <2>1. PICK y \in R : \A g \in Sides : at[<<g, y>>] \notin R
    <3>1. R \subseteq D
      OBVIOUS
    <3> HIDE DEF R
    <3> QED
      BY <1>1, <3>1, LowestRecord
  <2>2. y \in D /\ c \in sub[y] /\ c # y /\ ~ \E a \in sub[y], g \in Sides : at[<<g, a>>] = c
    OBVIOUS
  <2>3. PICK g, d : g = Side(y, c) /\ d = at[<<g, y>>]
    OBVIOUS
  <2>4. g \in Sides /\ d # None /\ d \in D /\ c \in sub[d]
    BY <2>2, <2>3, BelowSplit
  <2>5. y \in sub[y]
    BY <2>2, SelfBelow
  <2>6. d # c
    BY <2>2, <2>3, <2>4, <2>5
  <2>7. sub[d] \subseteq sub[y]
    BY <2>2, <2>3, <2>4, ChildBelow
  <2>8. d \in R
    BY <2>2, <2>4, <2>6, <2>7
  <2> QED
    BY <2>1, <2>3, <2>4, <2>8
<1> QED
  BY <1>1

\* The order of the trees.
LEMMA LeftOrder ==
  ASSUME NEW x \in Keys, NEW y \in Keys, NEW z \in Keys
  PROVE  /\ x = y \/ Left(x, y) \/ Left(y, x)
         /\ ~(Left(x, y) /\ Left(y, x))
         /\ Left(x, y) /\ Left(y, z) => Left(x, z)
<1>1. /\ HashOf[x] \in Nat /\ HashOf[y] \in Nat /\ HashOf[z] \in Nat
      /\ KeyOrd[x] \in Nat /\ KeyOrd[y] \in Nat /\ KeyOrd[z] \in Nat
      /\ KeyOrd[x] = KeyOrd[y] => x = y
  BY MapAssumption
<1> QED
  BY <1>1 DEF Left

\* A removed record hangs below nothing else's slot, and its own slot is one
\* of another record, or a bucket.
LEMMA SlotsWithout ==
  ASSUME NEW D, NEW at, NEW sub, Tree(D, at, sub), NEW k \in D,
         NEW s \in SlotsOf(D), at[s] = k, NEW E, E = D \ {k}
  PROVE  /\ s \in SlotsOf(E)
         /\ \A t \in SlotsOf(E) : t # s => at[t] \in Ptr(E)
         /\ SlotsOf(E) \subseteq SlotsOf(D)
         /\ E \subseteq Keys /\ IsFiniteSet(E)
         /\ \A t \in SlotsOf(D) : at[t] = k => t = s
<1>1. PICK f : Descends(D, at, k, f)
  BY DescentEnds
<1>2. \A t \in SlotsOf(D) : at[t] = k => t = s
  BY <1>1, SlotUnique
<1>3. SlotsOf(E) \subseteq SlotsOf(D)
  BY DEF SlotsOf
<1>4. \A t \in SlotsOf(E) : t # s => at[t] \in Ptr(E)
  <2>1. \A t \in SlotsOf(D) : at[t] \in Ptr(D)
    BY DEF Tree
  <2> QED
    BY <1>2, <1>3, <2>1 DEF Ptr
<1>5. s \in SlotsOf(E)
  <2>1. CASE \E b \in Buckets : s = <<"bucket", b>>
    BY <2>1, SlotIn
  <2>2. CASE \E g \in Sides, p \in D : s = <<g, p>>
    <3>1. PICK g \in Sides, p \in D : s = <<g, p>>
      BY <2>2
    <3>2. k # p
      BY <3>1, ChildBelow, SelfBelow
    <3> QED
      BY <3>1, <3>2, SlotIn
  <2> QED
    BY <2>1, <2>2, SlotKinds
<1>6. D \subseteq Keys /\ IsFiniteSet(D)
  BY DEF Tree
<1>7. IsFiniteSet(E)
  BY <1>6, FS_RemoveElement
<1> QED
  BY <1>2, <1>3, <1>4, <1>5, <1>6, <1>7

\* A record with one child or none: the child takes its place.
LEMMA ChildLifted ==
  ASSUME NEW D, NEW at, NEW sub, Tree(D, at, sub), NEW k \in D,
         NEW s \in SlotsOf(D), at[s] = k, NEW E, E = D \ {k},
         NEW c, \/ at[<<"left", k>>] = None /\ c = at[<<"right", k>>]
                \/ at[<<"right", k>>] = None /\ c = at[<<"left", k>>],
         NEW new, new = [t \in SlotsOf(E) |-> IF t = s THEN c ELSE at[t]]
  PROVE  \E sub2 : Tree(E, new, sub2)
<1>1. /\ s \in SlotsOf(E)
      /\ \A t \in SlotsOf(E) : t # s => at[t] \in Ptr(E)
      /\ SlotsOf(E) \subseteq SlotsOf(D)
      /\ E \subseteq Keys /\ IsFiniteSet(E)
  BY SlotsWithout
<1>2. sub[k] = {k} \cup Below(sub, c) /\ k \notin Below(sub, c)
  <2>1. sub[k] = {k} \cup Below(sub, at[<<"left", k>>]) \cup Below(sub, at[<<"right", k>>])
    BY DEF Tree
  <2>2. /\ \A x \in Below(sub, at[<<"left", k>>]) : x # k
        /\ \A x \in Below(sub, at[<<"right", k>>]) : x # k
    BY TwoSides DEF Tree
  <2>3. Below(sub, None) = {}
    BY DEF Below
  <2> QED
    BY <2>1, <2>2, <2>3
<1>3. c \in Ptr(E)
  <2>1. at[<<"left", k>>] \in Ptr(D) /\ at[<<"right", k>>] \in Ptr(D)
    BY SlotIn, TwoSides DEF Tree
  <2>2. c # k
    BY <1>2, SelfBelow
  <2> QED
    BY <2>1, <2>2 DEF Ptr
<1>4. PICK sub2 : sub2 = [a \in E |-> sub[a] \ {k}]
  OBVIOUS
<1>5. \A a \in D : sub[a] \subseteq D
  BY DEF Tree
<1>6. sub2 \in [E -> SUBSET E]
  BY <1>4, <1>5
<1>7. \A x \in Ptr(E) : Below(sub2, x) = Below(sub, x) \ {k}
  BY <1>1, <1>4, MapAssumption DEF Below, Ptr
<1>8. ASSUME NEW t \in SlotsOf(E)
      PROVE  new[t] \in Ptr(E) /\ Below(sub2, new[t]) = Below(sub, at[t]) \ {k}
  <2>1. CASE t = s
    <3>1. new[t] = c
      BY <2>1
    <3>2. Below(sub, at[t]) = sub[k]
      BY <2>1, SelfBelow
    <3> QED
      BY <1>2, <1>3, <1>7, <3>1, <3>2
  <2>2. CASE t # s
    BY <1>1, <1>7, <2>2
  <2> QED
    BY <2>1, <2>2
<1>9. new \in [SlotsOf(E) -> Ptr(E)]
  BY <1>8
<1>10. ASSUME NEW r \in E
       PROVE  sub2[r] = {r} \cup Below(sub2, new[<<"left", r>>]) \cup Below(sub2, new[<<"right", r>>])
  <2>1. sub[r] = {r} \cup Below(sub, at[<<"left", r>>]) \cup Below(sub, at[<<"right", r>>])
    BY DEF Tree
  <2>2. <<"left", r>> \in SlotsOf(E) /\ <<"right", r>> \in SlotsOf(E)
    BY SlotIn, TwoSides
  <2>3. /\ Below(sub2, new[<<"left", r>>]) = Below(sub, at[<<"left", r>>]) \ {k}
        /\ Below(sub2, new[<<"right", r>>]) = Below(sub, at[<<"right", r>>]) \ {k}
    BY <1>8, <2>2
  <2>4. sub2[r] = sub[r] \ {k} /\ r # k
    BY <1>4
  <2> QED
    BY <2>1, <2>3, <2>4
<1>11. ASSUME NEW r \in E, NEW g \in Sides, NEW x \in Below(sub2, new[<<g, r>>])
       PROVE  x # r /\ Side(r, x) = g
  <2>1. x \in Below(sub, at[<<g, r>>])
    BY <1>8, <1>11, SlotIn
  <2> QED
    BY <2>1 DEF Tree
<1>12. ASSUME NEW b \in Buckets
       PROVE  Below(sub2, new[<<"bucket", b>>]) = {x \in E : BucketOf[x] = b}
  <2>1. Below(sub, at[<<"bucket", b>>]) = {x \in D : BucketOf[x] = b}
    BY DEF Tree
  <2>2. <<"bucket", b>> \in SlotsOf(E)
    BY SlotIn
  <2> QED
    BY <1>8, <2>1, <2>2
<1>13. Tree(E, new, sub2)
  BY <1>1, <1>6, <1>9, <1>10, <1>11, <1>12 DEF Tree
<1> QED
  BY <1>13

\* A record with two children: the left one takes its place, and the right one
\* hangs below the last record of the left subtree.
Rejoined(at, E, s, l, e, q) ==
  [t \in SlotsOf(E) |-> IF t = s THEN l ELSE IF t = <<"right", e>> THEN q ELSE at[t]]

\* What Joined does when there are two children leaves a tree of the others.
LEMMA ChildrenJoined ==
  ASSUME NEW D, NEW at, NEW sub, Tree(D, at, sub), NEW k \in D,
         NEW s \in SlotsOf(D), at[s] = k, NEW E, E = D \ {k},
         NEW l, l = at[<<"left", k>>], l # None, NEW q, q = at[<<"right", k>>], q # None,
         NEW w, GoesRight(D, at, w), NEW e, e = w[l],
         NEW new, new = Rejoined(at, E, s, l, e, q)
  PROVE  e \in E /\ \E sub2 : Tree(E, new, sub2)
<1>0. new = [t \in SlotsOf(E) |-> IF t = s THEN l ELSE IF t = <<"right", e>> THEN q ELSE at[t]]
  BY DEF Rejoined
<1>1. /\ s \in SlotsOf(E)
      /\ \A t \in SlotsOf(E) : t # s => at[t] \in Ptr(E)
      /\ SlotsOf(E) \subseteq SlotsOf(D)
      /\ E \subseteq Keys /\ IsFiniteSet(E)
      /\ \A t \in SlotsOf(D) : at[t] = k => t = s
  BY SlotsWithout
<1>2. /\ l \in D /\ l \in sub[l] /\ sub[l] \subseteq sub[k] /\ k \notin sub[l]
      /\ \A x \in sub[l] : Side(k, x) = "left"
  BY ChildBelow, TwoSides
<1>3. /\ q \in D /\ q \in sub[q] /\ sub[q] \subseteq sub[k] /\ k \notin sub[q]
      /\ \A x \in sub[q] : Side(k, x) = "right"
  BY ChildBelow, TwoSides
<1>4. sub[k] = {k} \cup sub[l] \cup sub[q]
  BY DEF Tree, Below
<1>5. \A x \in sub[l] : x \notin sub[q]
  BY <1>2, <1>3
<1>6. /\ e \in sub[l] /\ at[<<"right", e>>] = None
      /\ \A a \in sub[l] : e \in sub[a] /\ a # e => Side(a, e) = "right"
  BY <1>2, RightFinds
<1>7. \A a \in D : sub[a] \subseteq D
  BY DEF Tree
<1>8. /\ l \in E /\ q \in E /\ e \in E /\ l # None /\ q # None
      /\ <<"right", e>> # s /\ <<"right", e>> \in SlotsOf(E) /\ k # None
  BY <1>2, <1>3, <1>6, <1>7, SlotIn, TwoSides, SelfBelow
<1>9. PICK SP : SP = {a \in sub[l] : e \in sub[a]}
  OBVIOUS
<1>10. l \in SP /\ e \in SP /\ q \notin SP /\ SP \subseteq E /\ SP \subseteq sub[l] /\ None \notin SP
  <2>1. e \in sub[e]
    BY <1>8, SelfBelow
  <2>2. q \notin sub[l]
    BY <1>3, <1>5
  <2>3. None \notin D
    BY SelfBelow
  <2> QED
    BY <1>2, <1>6, <1>7, <1>9, <2>1, <2>2, <2>3
<1>11. PICK sub2 : sub2 = [a \in E |-> (sub[a] \ {k}) \cup (IF a \in SP THEN sub[q] ELSE {})]
  OBVIOUS
<1>12. sub2 \in [E -> SUBSET E]
  BY <1>3, <1>7, <1>11
<1>13. \A x \in Ptr(E) : Below(sub2, x) = (Below(sub, x) \ {k}) \cup (IF x \in SP THEN sub[q] ELSE {})
  BY <1>1, <1>10, <1>11, MapAssumption DEF Below, Ptr
<1>14. ASSUME NEW c \in SP, c # l
       PROVE  \E a \in SP : at[<<"right", a>>] = c
  <2>1. PICK a \in sub[l], g \in Sides : at[<<g, a>>] = c
    BY <1>2, <1>10, <1>14, HasParent
  <2>2. c # None /\ a \in D /\ e \in sub[c]
    BY <1>2, <1>7, <1>9, <1>10, <1>14, <2>1
  <2>3. a \notin sub[c] /\ sub[c] \subseteq sub[a] /\ \A x \in sub[c] : Side(a, x) = g
    BY <2>1, <2>2, ChildBelow
  <2>4. a # e /\ e \in sub[a]
    BY <2>2, <2>3
  <2>5. g = "right"
    BY <1>6, <2>1, <2>2, <2>3, <2>4
  <2> QED
    BY <1>9, <2>1, <2>4, <2>5
<1>15. ASSUME NEW t \in SlotsOf(E), NEW c \in SP, at[t] = c, c # l
       PROVE  \E a \in SP : t = <<"right", a>>
  <2>1. PICK a \in SP : at[<<"right", a>>] = c
    BY <1>14, <1>15
  <2>2. PICK f : Descends(D, at, c, f)
    BY DescentEnds
  <2>3. c \in D /\ a \in D /\ <<"right", a>> \in SlotsOf(D)
    BY <1>10, SlotIn, TwoSides
  <2>4. \A u \in SlotsOf(D) : at[u] = c => u = f[Home(c)]
    BY <2>2, <2>3, SlotUnique
  <2>5. t \in SlotsOf(D)
    BY <1>1
  <2> QED
    BY <1>15, <2>1, <2>3, <2>4, <2>5
<1>16. ASSUME NEW t \in SlotsOf(E), at[t] = l
       PROVE  FALSE
  <2>1. PICK f : Descends(D, at, l, f)
    BY DescentEnds
  <2>2. <<"left", k>> \in SlotsOf(D)
    BY SlotIn, TwoSides
  <2>3. t = <<"left", k>>
    <3>1. \A u \in SlotsOf(D) : at[u] = l => u = f[Home(l)]
      BY <1>2, <2>1, SlotUnique
    <3> QED
      BY <1>1, <1>16, <2>2, <3>1
  <2>4. <<"left", k>> \notin SlotsOf(E)
    BY DEF SlotsOf
  <2> QED
    BY <1>16, <2>3, <2>4
<1>17. ASSUME NEW a \in SP, a # e
       PROVE  at[<<"right", a>>] \in SP
  <2>1. Side(a, e) = "right" /\ a \in D /\ e \in sub[a]
    BY <1>6, <1>9, <1>10, <1>17
  <2>2. PICK c : c = at[<<"right", a>>]
    OBVIOUS
  <2>3. c # None /\ c \in D /\ e \in sub[c]
    BY <1>17, <2>1, <2>2, BelowSplit
  <2>4. c \in sub[a]
    BY <2>1, <2>2, <2>3, ChildBelow, TwoSides
  <2>5. sub[a] \subseteq sub[l]
    BY <1>2, <1>10, BelowTrans
  <2> QED
    BY <1>9, <2>2, <2>3, <2>4, <2>5
<1>18. ASSUME NEW t \in SlotsOf(E)
       PROVE  /\ new[t] \in Ptr(E)
              /\ Below(sub2, new[t]) = (Below(sub, at[t]) \ {k}) \cup
                   (IF \E a \in SP : t = <<"right", a>> THEN sub[q] ELSE {})
  <2>1. CASE t = s
    <3>1. new[t] = l
      BY <2>1, <1>0
    <3>2. Below(sub, at[t]) = sub[k] /\ Below(sub, l) = sub[l]
      BY <1>2, <2>1, SelfBelow
    <3>3. l \in Ptr(E)
      BY <1>8 DEF Ptr
    <3>4. Below(sub2, l) = (sub[l] \ {k}) \cup sub[q]
      BY <1>10, <1>13, <3>2, <3>3
    <3>5. ASSUME NEW a \in SP, t = <<"right", a>>
          PROVE  FALSE
      <4>1. a \in D /\ a \in sub[k]
        BY <1>2, <1>10
      <4>2. k \in sub[a]
        BY <1>8, <2>1, <3>5, <4>1, ChildBelow, TwoSides
      <4>3. a = k
        BY <4>1, <4>2, BelowAnti
      <4> QED
        BY <1>2, <1>10, <4>3
    <3> QED
      BY <1>2, <1>3, <1>4, <3>1, <3>2, <3>3, <3>4, <3>5, <1>0
  <2>2. CASE t = <<"right", e>>
    <3>1. new[t] = q
      BY <1>8, <2>2, <1>0
    <3>2. Below(sub, at[t]) = {} /\ Below(sub, q) = sub[q]
      BY <1>6, <1>8, <2>2 DEF Below
    <3>3. q \in Ptr(E)
      BY <1>8 DEF Ptr
    <3>4. Below(sub2, q) = sub[q]
      BY <1>3, <1>10, <1>13, <3>2, <3>3
    <3> QED
      BY <1>10, <2>2, <3>1, <3>2, <3>3, <3>4
  <2>3. CASE t # s /\ t # <<"right", e>>
    <3>1. new[t] = at[t] /\ at[t] \in Ptr(E)
      BY <1>1, <2>3, <1>0
    <3>2. at[t] \in SP => \E a \in SP : t = <<"right", a>>
      BY <1>15, <1>16
    <3>3. ASSUME NEW a \in SP, t = <<"right", a>>
          PROVE  at[t] \in SP
      BY <1>17, <2>3, <3>3
    <3> QED
      BY <1>13, <3>1, <3>2, <3>3
  <2> QED
    BY <2>1, <2>2, <2>3
<1>19. new \in [SlotsOf(E) -> Ptr(E)]
  BY <1>18, <1>0
<1>20. ASSUME NEW r \in E, NEW g \in Sides
       PROVE  Below(sub2, new[<<g, r>>]) = (Below(sub, at[<<g, r>>]) \ {k}) \cup
                (IF r \in SP /\ g = "right" THEN sub[q] ELSE {})
  <2>1. <<g, r>> \in SlotsOf(E)
    BY SlotIn
  <2>2. (\E a \in SP : <<g, r>> = <<"right", a>>) <=> r \in SP /\ g = "right"
    OBVIOUS
  <2> QED
    BY <1>18, <2>1, <2>2
<1>21. ASSUME NEW r \in E
       PROVE  sub2[r] = {r} \cup Below(sub2, new[<<"left", r>>]) \cup Below(sub2, new[<<"right", r>>])
  <2>1. sub[r] = {r} \cup Below(sub, at[<<"left", r>>]) \cup Below(sub, at[<<"right", r>>])
    BY DEF Tree
  <2>2. /\ Below(sub2, new[<<"left", r>>]) = Below(sub, at[<<"left", r>>]) \ {k}
        /\ Below(sub2, new[<<"right", r>>]) = (Below(sub, at[<<"right", r>>]) \ {k}) \cup
                (IF r \in SP THEN sub[q] ELSE {})
    BY <1>20, TwoSides, SMTT(30)
  <2>3. sub2[r] = (sub[r] \ {k}) \cup (IF r \in SP THEN sub[q] ELSE {})
    BY <1>11
  <2> QED
    BY <2>1, <2>2, <2>3, ZenonT(40)
<1>22. ASSUME NEW r \in E, NEW g \in Sides, NEW x \in Below(sub2, new[<<g, r>>])
       PROVE  x # r /\ Side(r, x) = g
  <2>1. CASE x \in Below(sub, at[<<g, r>>])
    BY <2>1 DEF Tree
  <2>2. CASE x \notin Below(sub, at[<<g, r>>])
    <3>1. r \in SP /\ g = "right" /\ x \in sub[q]
      BY <1>20, <1>22, <2>2
    <3>2. Side(k, r) = "left" /\ Side(k, x) = "right" /\ x # r
      BY <1>2, <1>3, <1>5, <1>10, <3>1
    <3>3. Left(r, k) /\ ~Left(x, k)
      BY <3>2 DEF Side
    <3>4. x \in Keys /\ r \in Keys /\ k \in Keys
      BY <1>3, <1>7, <3>1, SelfBelow
    <3>5. ~Left(x, r)
      BY <3>3, <3>4, LeftOrder
    <3> QED
      BY <3>1, <3>2, <3>5 DEF Side
  <2> QED
    BY <2>1, <2>2
<1>23. ASSUME NEW b \in Buckets
       PROVE  Below(sub2, new[<<"bucket", b>>]) = {x \in E : BucketOf[x] = b}
  <2>1. Below(sub, at[<<"bucket", b>>]) = {x \in D : BucketOf[x] = b}
    BY DEF Tree
  <2>2. <<"bucket", b>> \in SlotsOf(E) /\ ~ \E a \in SP : <<"bucket", b>> = <<"right", a>>
    BY SlotIn, TwoSides
  <2> QED
    BY <1>18, <2>1, <2>2
<1>24. Tree(E, new, sub2)
  BY <1>1, <1>12, <1>19, <1>21, <1>22, <1>23 DEF Tree
<1> QED
  BY <1>8, <1>24

---------------------------------------------------------------------------
(* The list of all records *)

\* What comes after and before the place i of ks, from both ends on.
Follower(ks, i) == IF i = Len(ks) THEN None ELSE ks[i + 1]
Preceder(ks, i) == IF i = 1 THEN None ELSE ks[i - 1]

\* ks lists each element of D once.
Lists(ks, D) ==
  /\ ks \in Seq(D)
  /\ \A i, j \in 1 .. Len(ks) : ks[i] = ks[j] => i = j
  /\ \A x \in D : \E i \in 1 .. Len(ks) : ks[i] = x

\* The links of the records of D follow ks.
Chain(recs, D, first, last, ks) ==
  /\ Lists(ks, D) /\ first = Follower(ks, 0) /\ last = Preceder(ks, Len(ks) + 1)
  /\ \A i \in 1 .. Len(ks) : /\ recs[ks[i]].next = Follower(ks, i)
                             /\ recs[ks[i]].prev = Preceder(ks, i)

\* ks without its element at i.
Skipped(ks, i) == [j \in 1 .. Len(ks) - 1 |-> IF j < i THEN ks[j] ELSE ks[j + 1]]

\* ls is ks without its element at i, with k behind it, with k before it.
IsSkip(ls, ks, i) ==
  /\ Len(ls) = Len(ks) - 1
  /\ \A j \in 1 .. Len(ls) : ls[j] = IF j < i THEN ks[j] ELSE ks[j + 1]

IsAppend(ls, ks, k) ==
  /\ Len(ls) = Len(ks) + 1 /\ ls[Len(ks) + 1] = k
  /\ \A j \in 1 .. Len(ks) : ls[j] = ks[j]

IsPrepend(ls, ks, k) ==
  /\ Len(ls) = Len(ks) + 1 /\ ls[1] = k
  /\ \A j \in 2 .. Len(ks) + 1 : ls[j] = ks[j - 1]

\* A list without one of its keys lists the others.
LEMMA SkippedLists ==
  ASSUME NEW D, NEW ks, Lists(ks, D), NEW i \in 1 .. Len(ks), NEW k, k = ks[i],
         NEW E, E = D \ {k}, NEW ls, ls = Skipped(ks, i)
  PROVE  IsSkip(ls, ks, i) /\ Lists(ls, E)
<1>1. Len(ks) \in Nat /\ \A j \in 1 .. Len(ks) : ks[j] \in D
  BY DEF Lists
<1>2. PICK n : n = Len(ks)
  OBVIOUS
<1>3. n \in Nat /\ n - 1 \in Nat /\ i \in 1 .. n
  BY <1>1, <1>2
<1>4. ls = [j \in 1 .. n - 1 |-> IF j < i THEN ks[j] ELSE ks[j + 1]]
  BY <1>2 DEF Skipped
<1>5. \A j \in 1 .. n - 1 : ls[j] = (IF j < i THEN ks[j] ELSE ks[j + 1]) /\ ls[j] \in E
  <2>1. ASSUME NEW j \in 1 .. n - 1
        PROVE  (IF j < i THEN ks[j] ELSE ks[j + 1]) \in E
    <3>1. j \in 1 .. n /\ j + 1 \in 1 .. n
      BY <1>3
    <3> QED
      BY <1>1, <1>2, <1>3, <3>1 DEF Lists
  <2> QED
    BY <1>4, <2>1
<1>6. ls \in [1 .. n - 1 -> E]
  BY <1>4, <1>5
<1>7. ls \in Seq(E) /\ Len(ls) = n - 1
  BY <1>3, <1>6
<1>8. ASSUME NEW a \in 1 .. Len(ls), NEW b \in 1 .. Len(ls), ls[a] = ls[b]
      PROVE  a = b
  <2>1. a \in 1 .. n /\ b \in 1 .. n /\ a + 1 \in 1 .. n /\ b + 1 \in 1 .. n
    BY <1>3, <1>7
  <2>2. PICK p, q : p = (IF a < i THEN a ELSE a + 1) /\ q = (IF b < i THEN b ELSE b + 1)
    OBVIOUS
  <2>3. p \in 1 .. n /\ q \in 1 .. n
    BY <2>1, <2>2
  <2>4. ls[a] = ks[p] /\ ls[b] = ks[q]
    BY <1>5, <1>7, <2>2
  <2>5. p = q
    BY <1>2, <1>8, <2>3, <2>4 DEF Lists
  <2>6. a \in Nat /\ b \in Nat /\ i \in Nat
    BY <1>3, <2>1
  <2> QED
    BY <2>2, <2>5, <2>6
<1>9. ASSUME NEW x \in E
      PROVE  \E a \in 1 .. Len(ls) : ls[a] = x
  <2>1. PICK b \in 1 .. n : ks[b] = x
    BY <1>2 DEF Lists
  <2>2. b # i
    BY <2>1
  <2>3. CASE b < i
    BY <1>3, <1>5, <1>7, <2>1, <2>3
  <2>4. CASE b > i
    <3>1. b - 1 \in 1 .. n - 1 /\ ~(b - 1 < i) /\ b - 1 + 1 = b
      BY <1>3, <2>4
    <3> QED
      BY <1>5, <1>7, <2>1, <3>1
  <2> QED
    BY <1>3, <2>2, <2>3, <2>4
<1>10. Lists(ls, E)
  BY <1>7, <1>8, <1>9 DEF Lists
<1> QED
  BY <1>2, <1>5, <1>7, <1>10 DEF IsSkip

\* A list with a new key at its end lists one more.
LEMMA AppendLists ==
  ASSUME NEW E, NEW ks, Lists(ks, E), NEW k, k \notin E, NEW D, D = E \cup {k},
         NEW ls, ls = Append(ks, k)
  PROVE  IsAppend(ls, ks, k) /\ Lists(ls, D)
<1>1. ks \in Seq(E) /\ Len(ks) \in Nat /\ \A j \in 1 .. Len(ks) : ks[j] \in E
  BY DEF Lists
<1>2. ls \in Seq(D) /\ Len(ls) = Len(ks) + 1 /\ ls[Len(ks) + 1] = k
      /\ \A j \in 1 .. Len(ks) : ls[j] = ks[j]
  <2>1. ks \in Seq(D)
    BY <1>1
  <2> QED
    BY <1>1, <2>1
<1>3. PICK n : n = Len(ks)
  OBVIOUS
<1>4. ASSUME NEW a \in 1 .. n + 1, NEW b \in 1 .. n + 1, ls[a] = ls[b]
      PROVE  a = b
  <2>1. \A c \in 1 .. n + 1 : c \in 1 .. n \/ c = n + 1
    BY <1>1, <1>3
  <2> QED
    BY <1>1, <1>2, <1>3, <1>4, <2>1 DEF Lists
<1>5. ASSUME NEW x \in D
      PROVE  \E a \in 1 .. n + 1 : ls[a] = x
  <2>1. CASE x = k
    BY <1>1, <1>2, <1>3, <2>1
  <2>2. CASE x \in E
    <3>1. PICK a \in 1 .. n : ks[a] = x
      BY <1>3, <2>2 DEF Lists
    <3> QED
      BY <1>1, <1>2, <1>3, <3>1
  <2> QED
    BY <2>1, <2>2
<1> QED
  BY <1>2, <1>3, <1>4, <1>5 DEF Lists, IsAppend

\* A list with a new key before it lists one more.
LEMMA PrependLists ==
  ASSUME NEW E, NEW ks, Lists(ks, E), NEW k, k \notin E, NEW D, D = E \cup {k},
         NEW ls, ls = <<k>> \o ks
  PROVE  IsPrepend(ls, ks, k) /\ Lists(ls, D)
<1>1. ks \in Seq(E) /\ Len(ks) \in Nat /\ \A j \in 1 .. Len(ks) : ks[j] \in E
  BY DEF Lists
<1>2. ls \in Seq(D) /\ Len(ls) = Len(ks) + 1 /\ ls[1] = k
      /\ \A j \in 2 .. Len(ks) + 1 : ls[j] = ks[j - 1]
  <2>1. ks \in Seq(D) /\ <<k>> \in Seq(D) /\ Len(<<k>>) = 1
    BY <1>1
  <2> QED
    BY <1>1, <2>1
<1>3. PICK n : n = Len(ks)
  OBVIOUS
<1>4. ASSUME NEW a \in 1 .. n + 1, NEW b \in 1 .. n + 1, ls[a] = ls[b]
      PROVE  a = b
  <2>1. \A c \in 1 .. n + 1 : c = 1 \/ (c \in 2 .. n + 1 /\ c - 1 \in 1 .. n)
    BY <1>1, <1>3
  <2> QED
    BY <1>1, <1>2, <1>3, <1>4, <2>1 DEF Lists
<1>5. ASSUME NEW x \in D
      PROVE  \E a \in 1 .. n + 1 : ls[a] = x
  <2>1. CASE x = k
    BY <1>1, <1>2, <1>3, <2>1
  <2>2. CASE x \in E
    <3>1. PICK a \in 1 .. n : ks[a] = x
      BY <1>3, <2>2 DEF Lists
    <3>2. a + 1 \in 2 .. n + 1 /\ a + 1 - 1 = a /\ a + 1 \in 1 .. n + 1
      BY <1>1, <1>3
    <3> QED
      BY <1>1, <1>2, <1>3, <3>1, <3>2
  <2> QED
    BY <2>1, <2>2
<1> QED
  BY <1>2, <1>3, <1>4, <1>5 DEF Lists, IsPrepend

\* The neighbours of k are linked to each other in R.
Cut(recs, R, E, k) ==
  \A x \in E :
    /\ R[x].next = IF x = recs[k].prev THEN recs[k].next ELSE recs[x].next
    /\ R[x].prev = IF x = recs[k].next THEN recs[k].prev ELSE recs[x].prev

\* The ends of the list when the record k is bridged.
FirstPast(recs, first, k) == IF first = k THEN recs[k].next ELSE first

LastPast(recs, last, k) == IF last = k THEN recs[k].prev ELSE last

\* Links that bridge a record follow the list without it.
LEMMA ChainCut ==
  ASSUME NEW D, NEW recs, NEW first, NEW last, NEW ks, Chain(recs, D, first, last, ks), None \notin D,
         NEW i \in 1 .. Len(ks), NEW k, k = ks[i], NEW E, E = D \ {k},
         NEW R, Cut(recs, R, E, k)
  PROVE  Chain(R, E, FirstPast(recs, first, k), LastPast(recs, last, k), Skipped(ks, i))
<1>1. PICK ls : ls = Skipped(ks, i)
  OBVIOUS
<1>2. PICK n : n = Len(ks)
  OBVIOUS
<1>3. Lists(ks, D) /\ n \in Nat /\ i \in 1 .. n /\ \A j \in 1 .. n : ks[j] \in D /\ ks[j] # None
  BY <1>2 DEF Chain, Lists
<1>4. /\ Len(ls) = n - 1 /\ Lists(ls, E)
      /\ \A j \in 1 .. n - 1 : ls[j] = IF j < i THEN ks[j] ELSE ks[j + 1]
  <2>1. Lists(ks, D) /\ i \in 1 .. Len(ks) /\ k = ks[i] /\ E = D \ {k}
    BY <1>3
  <2>2. IsSkip(ls, ks, i) /\ Lists(ls, E)
    BY <1>1, <2>1, SkippedLists
  <2> QED
    BY <1>2, <2>2 DEF IsSkip
<1>5. PICK nx, pv : nx = recs[k].next /\ pv = recs[k].prev
  OBVIOUS
<1>6. nx = (IF i = n THEN None ELSE ks[i + 1]) /\ pv = (IF i = 1 THEN None ELSE ks[i - 1])
  BY <1>2, <1>5 DEF Chain, Follower, Preceder
<1>7. \A a, b \in 1 .. n : ks[a] = ks[b] => a = b
  BY <1>2, <1>3 DEF Lists
<1>8. /\ first = (IF n = 0 THEN None ELSE ks[1])
      /\ last = (IF n = 0 THEN None ELSE ks[n])
  <2>1. first = Follower(ks, 0) /\ last = Preceder(ks, Len(ks) + 1)
    BY DEF Chain
  <2> QED
    BY <1>2, <1>3, <2>1 DEF Follower, Preceder
<1>9. \A j \in 1 .. n : /\ recs[ks[j]].next = (IF j = n THEN None ELSE ks[j + 1])
                        /\ recs[ks[j]].prev = (IF j = 1 THEN None ELSE ks[j - 1])
  BY <1>2 DEF Chain, Follower, Preceder
<1>10. \A j \in 1 .. n : /\ ks[j] = pv <=> i # 1 /\ j = i - 1
                         /\ ks[j] = nx <=> i # n /\ j = i + 1
  <2>1. ASSUME NEW j \in 1 .. n
        PROVE  ks[j] = pv <=> i # 1 /\ j = i - 1
    <3>1. CASE i = 1
      BY <1>3, <1>6, <3>1
    <3>2. CASE i # 1
      <4>1. i - 1 \in 1 .. n
        BY <1>3, <3>2
      <4> QED
        BY <1>6, <1>7, <3>2, <4>1
    <3> QED
      BY <3>1, <3>2
  <2>2. ASSUME NEW j \in 1 .. n
        PROVE  ks[j] = nx <=> i # n /\ j = i + 1
    <3>1. CASE i = n
      BY <1>3, <1>6, <3>1
    <3>2. CASE i # n
      <4>1. i + 1 \in 1 .. n
        BY <1>3, <3>2
      <4> QED
        BY <1>6, <1>7, <3>2, <4>1
    <3> QED
      BY <3>1, <3>2
  <2> QED
    BY <2>1, <2>2
<1>11. \A j \in 1 .. n : j # i =>
         /\ R[ks[j]].next = IF i # 1 /\ j = i - 1 THEN nx ELSE recs[ks[j]].next
         /\ R[ks[j]].prev = IF i # n /\ j = i + 1 THEN pv ELSE recs[ks[j]].prev
  <2>1. \A j \in 1 .. n : j # i => ks[j] \in E
    BY <1>3, <1>7
  <2> QED
    BY <1>5, <1>10, <2>1 DEF Cut
<1>12. ASSUME NEW a \in 1 .. n - 1
       PROVE  R[ls[a]].next = Follower(ls, a) /\ R[ls[a]].prev = Preceder(ls, a)
  <2>1. a \in 1 .. n /\ a + 1 \in 1 .. n
    BY <1>3
  <2>2. CASE a < i
    <3>1. ls[a] = ks[a] /\ a # i
      BY <1>4, <2>2
    <3>2. R[ls[a]].prev = Preceder(ls, a)
      <4>1. R[ks[a]].prev = IF a = 1 THEN None ELSE ks[a - 1]
        BY <1>3, <1>9, <1>11, <2>1, <2>2
      <4>2. a # 1 => a - 1 \in 1 .. n - 1 /\ a - 1 < i
        BY <1>3, <2>1, <2>2
      <4> QED
        BY <1>4, <3>1, <4>1, <4>2 DEF Preceder
    <3>3. R[ls[a]].next = Follower(ls, a)
      <4>1. CASE a = i - 1
        <5>1. R[ks[a]].next = nx
          BY <1>3, <1>11, <2>1, <4>1
        <5>2. a + 1 = i
          BY <1>3, <4>1
        <5>3. CASE i = n
          BY <1>3, <1>4, <1>6, <3>1, <4>1, <5>1, <5>3 DEF Follower
        <5>4. CASE i # n
          <6>1. i \in 1 .. n - 1 /\ ~(i < i) /\ a # n - 1
            BY <1>3, <5>2, <5>4
          <6> QED
            BY <1>4, <1>6, <3>1, <5>1, <5>2, <5>4, <6>1 DEF Follower
        <5> QED
          BY <5>3, <5>4
      <4>2. CASE a # i - 1
        <5>1. a + 1 < i /\ a + 1 \in 1 .. n - 1 /\ a # n /\ a # n - 1
          BY <1>3, <2>1, <2>2, <4>2
        <5>2. R[ks[a]].next = ks[a + 1]
          BY <1>9, <1>11, <2>1, <3>1, <4>2, <5>1
        <5> QED
          BY <1>4, <3>1, <5>1, <5>2 DEF Follower
      <4> QED
        BY <4>1, <4>2
    <3> QED
      BY <3>2, <3>3
  <2>3. CASE ~(a < i)
    <3>1. ls[a] = ks[a + 1] /\ a + 1 # i /\ a + 1 # 1
      BY <1>3, <1>4, <2>3
    <3>2. R[ls[a]].next = Follower(ls, a)
      <4>1. R[ks[a + 1]].next = IF a + 1 = n THEN None ELSE ks[a + 1 + 1]
        <5>1. ~(i # 1 /\ a + 1 = i - 1)
          BY <1>3, <2>3
        <5> QED
          BY <1>9, <1>11, <2>1, <3>1, <5>1
      <4>2. a + 1 # n => a + 1 \in 1 .. n - 1 /\ ~(a + 1 < i)
        BY <1>3, <2>1, <2>3
      <4>3. a + 1 = n <=> a = n - 1
        BY <1>3
      <4> QED
        BY <1>4, <3>1, <4>1, <4>2, <4>3 DEF Follower
    <3>3. R[ls[a]].prev = Preceder(ls, a)
      <4>1. CASE a = i
        <5>1. i # n
          BY <1>3, <4>1
        <5>2. R[ks[a + 1]].prev = pv
          BY <1>11, <2>1, <3>1, <4>1, <5>1
        <5>3. a # 1 => a - 1 \in 1 .. n - 1 /\ a - 1 < i
          BY <1>3, <4>1
        <5> QED
          BY <1>4, <1>6, <3>1, <4>1, <5>2, <5>3 DEF Preceder
      <4>2. CASE a # i
        <5>1. a + 1 # i + 1 /\ a - 1 \in 1 .. n - 1 /\ ~(a - 1 < i) /\ a # 1 /\ a + 1 - 1 = a /\ a - 1 + 1 = a
          BY <1>3, <2>3, <4>2
        <5>2. R[ks[a + 1]].prev = ks[a]
          BY <1>9, <1>11, <2>1, <3>1, <5>1
        <5> QED
          BY <1>4, <3>1, <5>1, <5>2 DEF Preceder
      <4> QED
        BY <4>1, <4>2
    <3> QED
      BY <3>2, <3>3
  <2> QED
    BY <2>2, <2>3
<1>13. (IF first = k THEN nx ELSE first) = Follower(ls, 0)
  <2>1. first = ks[1] /\ 1 \in 1 .. n
    BY <1>3, <1>8
  <2>2. CASE i = 1
    <3>1. n # 1 => 1 \in 1 .. n - 1 /\ ~(1 < i)
      BY <1>3, <2>2
    <3> QED
      BY <1>3, <1>4, <1>6, <2>1, <2>2, <3>1 DEF Follower
  <2>3. CASE i # 1
    <3>1. 1 \in 1 .. n - 1 /\ 1 < i /\ n - 1 # 0
      BY <1>3, <2>3
    <3>2. ks[1] # k
      BY <1>7, <2>1, <2>3, <1>3
    <3> QED
      BY <1>4, <2>1, <3>1, <3>2 DEF Follower
  <2> QED
    BY <2>2, <2>3
<1>14. (IF last = k THEN pv ELSE last) = Preceder(ls, Len(ls) + 1)
  <2>1. last = ks[n] /\ n \in 1 .. n
    BY <1>3, <1>8
  <2>2. Len(ls) + 1 = n
    BY <1>3, <1>4
  <2>3. CASE i = n
    <3>1. n # 1 => n - 1 \in 1 .. n - 1 /\ n - 1 < i
      BY <1>3, <2>3
    <3> QED
      BY <1>4, <1>6, <2>1, <2>2, <2>3, <3>1 DEF Preceder
  <2>4. CASE i # n
    <3>1. n - 1 \in 1 .. n - 1 /\ ~(n - 1 < i) /\ n # 1 /\ n - 1 + 1 = n
      BY <1>3, <2>4
    <3>2. ks[n] # k
      BY <1>7, <2>1, <2>4, <1>3
    <3> QED
      BY <1>4, <2>1, <2>2, <3>1, <3>2 DEF Preceder
  <2> QED
    BY <2>3, <2>4
<1>15. FirstPast(recs, first, k) = Follower(ls, 0) /\ LastPast(recs, last, k) = Preceder(ls, Len(ls) + 1)
  BY <1>5, <1>13, <1>14 DEF FirstPast, LastPast
<1> QED
  BY <1>1, <1>4, <1>12, <1>15 DEF Chain

\* The links of R are those of recs, with k behind the last record.
LinkedLast(recs, R, E, last, k) ==
  /\ \A x \in E : R[x].prev = recs[x].prev /\ R[x].next = IF x = last THEN k ELSE recs[x].next
  /\ R[k].prev = last /\ R[k].next = None

\* Links with a new last record follow the list with it at the end.
LEMMA ChainAppend ==
  ASSUME NEW E, NEW recs, NEW first, NEW last, NEW ks, Chain(recs, E, first, last, ks), None \notin E,
         NEW k, k \notin E, k # None, NEW D, D = E \cup {k}, NEW R,
         LinkedLast(recs, R, E, last, k)
  PROVE  Chain(R, D, IF first = None THEN k ELSE first, k, Append(ks, k))
<1>1. PICK ls, n : ls = Append(ks, k) /\ n = Len(ks)
  OBVIOUS
<1>2. Lists(ks, E) /\ n \in Nat /\ \A j \in 1 .. n : ks[j] \in E /\ ks[j] # None
  BY <1>1 DEF Chain, Lists
<1>3. /\ Len(ls) = n + 1 /\ Lists(ls, D) /\ ls[n + 1] = k
      /\ \A j \in 1 .. n : ls[j] = ks[j]
  <2>1. Lists(ks, E) /\ k \notin E /\ D = E \cup {k} /\ ls = Append(ks, k)
    BY <1>1, <1>2
  <2>2. IsAppend(ls, ks, k) /\ Lists(ls, D)
    BY <2>1, AppendLists
  <2> QED
    BY <1>1, <2>2 DEF IsAppend
<1>4. \A a, b \in 1 .. n : ks[a] = ks[b] => a = b
  BY <1>1, <1>2 DEF Lists
<1>5. /\ first = (IF n = 0 THEN None ELSE ks[1])
      /\ last = (IF n = 0 THEN None ELSE ks[n])
  <2>1. first = Follower(ks, 0) /\ last = Preceder(ks, Len(ks) + 1)
    BY DEF Chain
  <2> QED
    BY <1>1, <1>2, <2>1 DEF Follower, Preceder, LinkedLast
<1>6. \A j \in 1 .. n : /\ recs[ks[j]].next = (IF j = n THEN None ELSE ks[j + 1])
                        /\ recs[ks[j]].prev = (IF j = 1 THEN None ELSE ks[j - 1])
  BY <1>1 DEF Chain, Follower, Preceder
<1>7. ASSUME NEW a \in 1 .. n + 1
      PROVE  R[ls[a]].next = Follower(ls, a) /\ R[ls[a]].prev = Preceder(ls, a)
  <2>1. CASE a = n + 1
    <3>1. a # 1 => n \in 1 .. n /\ n # 0 /\ a - 1 = n
      BY <1>2, <2>1
    <3>2. a = 1 => n = 0
      BY <1>2, <2>1
    <3> QED
      BY <1>3, <1>5, <2>1, <3>1, <3>2 DEF Follower, Preceder, LinkedLast
  <2>2. CASE a # n + 1
    <3>1. a \in 1 .. n /\ ls[a] = ks[a] /\ n \in 1 .. n
      BY <1>2, <1>3, <2>2
    <3>2. ks[a] = last <=> a = n
      BY <1>4, <1>5, <3>1
    <3>3. R[ks[a]].next = (IF a = n THEN k ELSE ks[a + 1]) /\ R[ks[a]].prev = (IF a = 1 THEN None ELSE ks[a - 1])
      BY <1>2, <1>6, <3>1, <3>2 DEF LinkedLast
    <3>4. a # n => a + 1 \in 1 .. n
      BY <1>2, <3>1
    <3>5. a # 1 => a - 1 \in 1 .. n
      BY <1>2, <3>1
    <3> QED
      BY <1>3, <2>2, <3>1, <3>3, <3>4, <3>5 DEF Follower, Preceder, LinkedLast
  <2> QED
    BY <2>1, <2>2
<1>8. (IF first = None THEN k ELSE first) = Follower(ls, 0)
  <2>1. n # 0 => 1 \in 1 .. n
    BY <1>2
  <2> QED
    BY <1>2, <1>3, <1>5, <2>1 DEF Follower
<1>9. k = Preceder(ls, Len(ls) + 1)
  BY <1>2, <1>3 DEF Preceder
<1> QED
  BY <1>1, <1>3, <1>7, <1>8, <1>9 DEF Chain

\* The links of R are those of recs, with k before the first record.
LinkedFirst(recs, R, E, first, k) ==
  /\ \A x \in E : R[x].next = recs[x].next /\ R[x].prev = IF x = first THEN k ELSE recs[x].prev
  /\ R[k].next = first /\ R[k].prev = None

\* Links with a new first record follow the list with it at the front.
LEMMA ChainPrepend ==
  ASSUME NEW E, NEW recs, NEW first, NEW last, NEW ks, Chain(recs, E, first, last, ks), None \notin E,
         NEW k, k \notin E, k # None, NEW D, D = E \cup {k}, NEW R,
         LinkedFirst(recs, R, E, first, k)
  PROVE  Chain(R, D, k, IF last = None THEN k ELSE last, <<k>> \o ks)
<1>1. PICK ls, n : ls = <<k>> \o ks /\ n = Len(ks)
  OBVIOUS
<1>2. Lists(ks, E) /\ n \in Nat /\ \A j \in 1 .. n : ks[j] \in E /\ ks[j] # None
  BY <1>1 DEF Chain, Lists
<1>3. /\ Len(ls) = n + 1 /\ Lists(ls, D) /\ ls[1] = k
      /\ \A j \in 2 .. n + 1 : ls[j] = ks[j - 1]
  <2>1. Lists(ks, E) /\ k \notin E /\ D = E \cup {k} /\ ls = <<k>> \o ks
    BY <1>1, <1>2
  <2>2. IsPrepend(ls, ks, k) /\ Lists(ls, D)
    BY <2>1, PrependLists
  <2> QED
    BY <1>1, <2>2 DEF IsPrepend
<1>4. \A a, b \in 1 .. n : ks[a] = ks[b] => a = b
  BY <1>1, <1>2 DEF Lists
<1>5. /\ first = (IF n = 0 THEN None ELSE ks[1])
      /\ last = (IF n = 0 THEN None ELSE ks[n])
  <2>1. first = Follower(ks, 0) /\ last = Preceder(ks, Len(ks) + 1)
    BY DEF Chain
  <2> QED
    BY <1>1, <1>2, <2>1 DEF Follower, Preceder, LinkedFirst
<1>6. \A j \in 1 .. n : /\ recs[ks[j]].next = (IF j = n THEN None ELSE ks[j + 1])
                        /\ recs[ks[j]].prev = (IF j = 1 THEN None ELSE ks[j - 1])
  BY <1>1 DEF Chain, Follower, Preceder
<1>7. ASSUME NEW a \in 1 .. n + 1
      PROVE  R[ls[a]].next = Follower(ls, a) /\ R[ls[a]].prev = Preceder(ls, a)
  <2>1. CASE a = 1
    <3>1. n # 0 => 2 \in 2 .. n + 1 /\ 2 - 1 = 1
      BY <1>2
    <3>2. a = n + 1 <=> n = 0
      BY <1>2, <2>1
    <3> QED
      BY <1>3, <1>5, <2>1, <3>1, <3>2 DEF Follower, Preceder, LinkedFirst
  <2>2. CASE a # 1
    <3>1. a \in 2 .. n + 1 /\ a - 1 \in 1 .. n /\ 1 \in 1 .. n /\ n # 0
      BY <1>2, <2>2
    <3>2. PICK b : b = a - 1
      OBVIOUS
    <3>3. b \in 1 .. n /\ ls[a] = ks[b] /\ a = b + 1
      BY <1>3, <3>1, <3>2
    <3>4. ks[b] = first <=> b = 1
      BY <1>4, <1>5, <3>1, <3>3
    <3>5. R[ks[b]].next = (IF b = n THEN None ELSE ks[b + 1]) /\ R[ks[b]].prev = (IF b = 1 THEN k ELSE ks[b - 1])
      BY <1>2, <1>6, <3>3, <3>4 DEF LinkedFirst
    <3>6. b # n => a + 1 \in 2 .. n + 1 /\ a + 1 - 1 = b + 1
      BY <1>2, <3>3
    <3>7. b # 1 => a - 1 \in 2 .. n + 1 /\ a - 1 - 1 = b - 1
      BY <1>2, <3>3
    <3>8. b = 1 => a - 1 = 1
      BY <3>3
    <3>9. a = n + 1 <=> b = n
      BY <1>2, <3>3
    <3> QED
      BY <1>3, <2>2, <3>3, <3>5, <3>6, <3>7, <3>8, <3>9 DEF Follower, Preceder, LinkedFirst
  <2> QED
    BY <2>1, <2>2
<1>8. k = Follower(ls, 0)
  BY <1>2, <1>3 DEF Follower
<1>9. (IF last = None THEN k ELSE last) = Preceder(ls, Len(ls) + 1)
  <2>1. n # 0 => n \in 1 .. n /\ n + 1 \in 2 .. n + 1 /\ n + 1 - 1 = n
    BY <1>2
  <2> QED
    BY <1>2, <1>3, <1>5, <2>1 DEF Preceder
<1> QED
  BY <1>1, <1>3, <1>7, <1>8, <1>9 DEF Chain

---------------------------------------------------------------------------
(* The fields of a map *)

\* A record of the map has the fields of a record, and a map those of a map.
IsNode(g) == g = [left |-> g.left, right |-> g.right, prev |-> g.prev, next |-> g.next, val |-> g.val]

Nodes(recs, D) == recs = [x \in D |-> recs[x]] /\ \A x \in D : IsNode(recs[x])

IsMap(m, D) ==
  /\ m = [top |-> m.top, recs |-> m.recs, first |-> m.first, last |-> m.last,
          cur |-> m.cur, rnum |-> m.rnum, msiz |-> m.msiz]
  /\ m.top = [b \in Buckets |-> m.top[b]] /\ Nodes(m.recs, D)

\* The children of each record are the same; its value; its neighbours in the list.
SameKids(R, recs, D) == \A x \in D : R[x].left = recs[x].left /\ R[x].right = recs[x].right

SameVals(R, recs, D) == \A x \in D : R[x].val = recs[x].val

SameLinks(R, recs, D) == \A x \in D : R[x].next = recs[x].next /\ R[x].prev = recs[x].prev

\* SetNext changes one next pointer, or none.
LEMMA NextSet ==
  ASSUME NEW D, None \notin D, NEW recs, Nodes(recs, D), NEW r \in Ptr(D), NEW n,
         NEW R, R = SetNext(recs, r, n)
  PROVE  /\ Nodes(R, D) /\ SameKids(R, recs, D) /\ SameVals(R, recs, D)
         /\ \A x \in D : /\ R[x].next = IF x = r THEN n ELSE recs[x].next
                         /\ R[x].prev = recs[x].prev
<1>1. CASE r = None
  BY <1>1 DEF SetNext, SameKids, SameVals
<1>2. CASE r \in D
  <2>1. PICK g, h : g = recs[r] /\ h = [g EXCEPT !.next = n]
    OBVIOUS
  <2>2. IsNode(h) /\ h.left = g.left /\ h.right = g.right /\ h.prev = g.prev /\ h.next = n /\ h.val = g.val
    <3>1. IsNode(g)
      BY <1>2, <2>1 DEF Nodes
    <3> QED
      BY <2>1, <3>1 DEF IsNode
  <2>3. R = [recs EXCEPT ![r] = h]
    BY <1>2, <2>1 DEF SetNext
  <2>4. R = [x \in D |-> IF x = r THEN h ELSE recs[x]]
    BY <1>2, <2>3 DEF Nodes
  <2> QED
    BY <1>2, <2>1, <2>2, <2>4 DEF Nodes, SameKids, SameVals
<1> QED
  BY <1>1, <1>2 DEF Ptr

\* SetPrev changes one prev pointer, or none.
LEMMA PrevSet ==
  ASSUME NEW D, None \notin D, NEW recs, Nodes(recs, D), NEW r \in Ptr(D), NEW n,
         NEW R, R = SetPrev(recs, r, n)
  PROVE  /\ Nodes(R, D) /\ SameKids(R, recs, D) /\ SameVals(R, recs, D)
         /\ \A x \in D : /\ R[x].prev = IF x = r THEN n ELSE recs[x].prev
                         /\ R[x].next = recs[x].next
<1>1. CASE r = None
  BY <1>1 DEF SetPrev, SameKids, SameVals
<1>2. CASE r \in D
  <2>1. PICK g, h : g = recs[r] /\ h = [g EXCEPT !.prev = n]
    OBVIOUS
  <2>2. IsNode(h) /\ h.left = g.left /\ h.right = g.right /\ h.next = g.next /\ h.prev = n /\ h.val = g.val
    <3>1. IsNode(g)
      BY <1>2, <2>1 DEF Nodes
    <3> QED
      BY <2>1, <3>1 DEF IsNode
  <2>3. R = [recs EXCEPT ![r] = h]
    BY <1>2, <2>1 DEF SetPrev
  <2>4. R = [x \in D |-> IF x = r THEN h ELSE recs[x]]
    BY <1>2, <2>3 DEF Nodes
  <2> QED
    BY <1>2, <2>1, <2>2, <2>4 DEF Nodes, SameKids, SameVals
<1> QED
  BY <1>1, <1>2 DEF Ptr

\* Bridged takes k out of the list and leaves the trees alone.
LEMMA BridgedCuts ==
  ASSUME NEW D, None \notin D, NEW recs, Nodes(recs, D), NEW k \in D,
         recs[k].prev \in Ptr(D), recs[k].next \in Ptr(D),
         NEW R, R = Bridged(recs, k)
  PROVE  Nodes(R, D) /\ SameKids(R, recs, D) /\ SameVals(R, recs, D) /\ Cut(recs, R, D, k)
<1>1. PICK p, n, S : p = recs[k].prev /\ n = recs[k].next /\ S = SetNext(recs, p, n)
  OBVIOUS
<1>2. R = SetPrev(S, n, p) /\ p \in Ptr(D) /\ n \in Ptr(D)
  BY <1>1 DEF Bridged
<1>3. /\ Nodes(S, D) /\ SameKids(S, recs, D) /\ SameVals(S, recs, D)
      /\ \A x \in D : /\ S[x].next = IF x = p THEN n ELSE recs[x].next
                      /\ S[x].prev = recs[x].prev
  BY <1>1, <1>2, NextSet
<1>4. /\ Nodes(R, D) /\ SameKids(R, S, D) /\ SameVals(R, S, D)
      /\ \A x \in D : /\ R[x].prev = IF x = n THEN p ELSE S[x].prev
                      /\ R[x].next = S[x].next
  BY <1>2, <1>3, PrevSet
<1> QED
  BY <1>1, <1>3, <1>4 DEF SameKids, SameVals, Cut

\* What is in each slot of the map.
AtOf(m, D) == [s \in SlotsOf(D) |-> At(m, s)]

\* The slots of a map and what is in them.
LEMMA AtIs ==
  ASSUME NEW m, NEW D
  PROVE  /\ \A b \in Buckets : <<"bucket", b>> \in SlotsOf(D) /\ At(m, <<"bucket", b>>) = m.top[b]
         /\ \A x \in D : /\ <<"left", x>> \in SlotsOf(D) /\ At(m, <<"left", x>>) = m.recs[x].left
                         /\ <<"right", x>> \in SlotsOf(D) /\ At(m, <<"right", x>>) = m.recs[x].right
BY SlotIn, TwoSides DEF At

\* What is in a bucket.
LEMMA AtBucket ==
  ASSUME NEW m, NEW b \in Buckets, NEW s, s = <<"bucket", b>>
  PROVE  At(m, s) = m.top[b]
BY DEF At

\* What is on a side of a record.
LEMMA AtSide ==
  ASSUME NEW m, NEW f \in Sides, NEW x, NEW s, s = <<f, x>>
  PROVE  At(m, s) = IF f = "left" THEN m.recs[x].left ELSE m.recs[x].right
BY TwoSides DEF At

\* Maps with the same buckets and children have the same in every slot.
LEMMA SameAt ==
  ASSUME NEW m, NEW n, NEW D, n.top = m.top, SameKids(n.recs, m.recs, D)
  PROVE  AtOf(n, D) = AtOf(m, D)
<1>1. ASSUME NEW s \in SlotsOf(D)
      PROVE  At(n, s) = At(m, s)
  <2>1. ASSUME NEW b \in Buckets, s = <<"bucket", b>>
        PROVE  At(n, s) = At(m, s)
    BY <2>1, AtBucket
  <2>2. ASSUME NEW f \in Sides, NEW r \in D, s = <<f, r>>
        PROVE  At(n, s) = At(m, s)
    <3>1. At(n, s) = IF f = "left" THEN n.recs[r].left ELSE n.recs[r].right
      BY <2>2, AtSide
    <3>2. At(m, s) = IF f = "left" THEN m.recs[r].left ELSE m.recs[r].right
      BY <2>2, AtSide
    <3> QED
      BY <3>1, <3>2 DEF SameKids
  <2> QED
    BY <2>1, <2>2, SlotKinds
<1> QED
  BY <1>1 DEF AtOf

\* A map with another pointer in the slot s.
Repointed(n, m, D, s, r) ==
  /\ IsMap(n, D) /\ n.first = m.first /\ n.last = m.last /\ n.cur = m.cur /\ n.rnum = m.rnum
  /\ n.msiz = m.msiz
  /\ SameLinks(n.recs, m.recs, D) /\ SameVals(n.recs, m.recs, D)
  /\ \A t \in SlotsOf(D) : At(n, t) = IF t = s THEN r ELSE At(m, t)

\* SetAt changes what is in one slot.
LEMMA SetAtPoints ==
  ASSUME NEW m, NEW D, IsMap(m, D), NEW s \in SlotsOf(D), NEW r, NEW n, n = SetAt(m, s, r)
  PROVE  Repointed(n, m, D, s, r)
<1>1. ASSUME NEW b \in Buckets, s = <<"bucket", b>>
      PROVE  Repointed(n, m, D, s, r)
  <2>1. PICK T : T = [m.top EXCEPT ![b] = r]
    OBVIOUS
  <2>2. n = [m EXCEPT !.top = T]
    BY <1>1, <2>1 DEF SetAt
  <2>3. n = [top |-> T, recs |-> m.recs, first |-> m.first, last |-> m.last,
             cur |-> m.cur, rnum |-> m.rnum, msiz |-> m.msiz]
    BY <2>2 DEF IsMap
  <2>4. T = [c \in Buckets |-> IF c = b THEN r ELSE m.top[c]]
    BY <2>1 DEF IsMap
  <2>5. n.top = T /\ n.recs = m.recs
    BY <2>3
  <2>6. IsMap(n, D)
    BY <2>3, <2>4 DEF IsMap
  <2>7. ASSUME NEW t \in SlotsOf(D)
        PROVE  At(n, t) = IF t = s THEN r ELSE At(m, t)
    <3>1. ASSUME NEW c \in Buckets, t = <<"bucket", c>>
          PROVE  At(n, t) = IF t = s THEN r ELSE At(m, t)
      <4>1. At(n, t) = n.top[c] /\ At(m, t) = m.top[c]
        BY <3>1, AtBucket
      <4>2. t = s <=> c = b
        BY <1>1, <3>1
      <4> QED
        BY <2>4, <2>5, <4>1, <4>2
    <3>2. ASSUME NEW f \in Sides, NEW q \in D, t = <<f, q>>
          PROVE  At(n, t) = IF t = s THEN r ELSE At(m, t)
      <4>1. t # s
        BY <1>1, <3>2, SlotIn
      <4>2. At(n, t) = IF f = "left" THEN n.recs[q].left ELSE n.recs[q].right
        BY <3>2, AtSide
      <4>3. At(m, t) = IF f = "left" THEN m.recs[q].left ELSE m.recs[q].right
        BY <3>2, AtSide
      <4> QED
        BY <2>5, <4>1, <4>2, <4>3
    <3> QED
      BY <3>1, <3>2, SlotKinds
  <2> QED
    BY <2>3, <2>6, <2>7 DEF Repointed, SameLinks, SameVals
<1>2. ASSUME NEW f \in Sides, NEW x \in D, s = <<f, x>>
      PROVE  Repointed(n, m, D, s, r)
  <2>1. PICK g, h, R : g = m.recs[x] /\ h = [g EXCEPT ![f] = r] /\ R = [m.recs EXCEPT ![x] = h]
    OBVIOUS
  <2>2. s[1] = f /\ s[2] = x /\ f # "bucket"
    BY <1>2, TwoSides
  <2>3. n = [m EXCEPT !.recs[x][f] = r]
    BY <2>2 DEF SetAt
  <2>4. n = [m EXCEPT !.recs = R]
    BY <2>1, <2>3
  <2>5. n = [top |-> m.top, recs |-> R, first |-> m.first, last |-> m.last,
             cur |-> m.cur, rnum |-> m.rnum, msiz |-> m.msiz]
    BY <2>4 DEF IsMap
  <2>6. /\ IsNode(h) /\ h.prev = g.prev /\ h.next = g.next /\ h.val = g.val
        /\ h.left = (IF f = "left" THEN r ELSE g.left)
        /\ h.right = (IF f = "right" THEN r ELSE g.right)
    <3>1. IsNode(g)
      BY <2>1 DEF IsMap, Nodes
    <3> QED
      BY <2>1, <3>1, TwoSides DEF IsNode
  <2>7. R = [y \in D |-> IF y = x THEN h ELSE m.recs[y]]
    BY <2>1 DEF IsMap, Nodes
  <2>8. n.top = m.top /\ n.recs = R
    BY <2>5
  <2>9. IsMap(n, D)
    <3>1. Nodes(R, D)
      BY <2>6, <2>7 DEF IsMap, Nodes
    <3> QED
      BY <2>5, <3>1 DEF IsMap
  <2>10. SameLinks(n.recs, m.recs, D) /\ SameVals(n.recs, m.recs, D)
    BY <2>1, <2>6, <2>7, <2>8 DEF SameLinks, SameVals
  <2>11. ASSUME NEW t \in SlotsOf(D)
         PROVE  At(n, t) = IF t = s THEN r ELSE At(m, t)
    <3>1. ASSUME NEW c \in Buckets, t = <<"bucket", c>>
          PROVE  At(n, t) = IF t = s THEN r ELSE At(m, t)
      <4>1. t # s
        BY <1>2, <3>1, SlotIn
      <4>2. At(n, t) = n.top[c] /\ At(m, t) = m.top[c]
        BY <3>1, AtBucket
      <4> QED
        BY <2>8, <4>1, <4>2
    <3>2. ASSUME NEW e \in Sides, NEW q \in D, t = <<e, q>>
          PROVE  At(n, t) = IF t = s THEN r ELSE At(m, t)
      <4>1. t = s <=> e = f /\ q = x
        BY <1>2, <3>2
      <4>2. At(n, t) = IF e = "left" THEN n.recs[q].left ELSE n.recs[q].right
        BY <3>2, AtSide
      <4>3. At(m, t) = IF e = "left" THEN m.recs[q].left ELSE m.recs[q].right
        BY <3>2, AtSide
      <4>4. n.recs[q] = IF q = x THEN h ELSE m.recs[q]
        BY <2>7, <2>8
      <4>5. CASE q = x
        BY <2>1, <2>6, <4>1, <4>2, <4>3, <4>4, <4>5, TwoSides
      <4>6. CASE q # x
        BY <4>1, <4>2, <4>3, <4>4, <4>6
      <4> QED
        BY <4>5, <4>6
    <3> QED
      BY <3>1, <3>2, SlotKinds
  <2> QED
    BY <2>5, <2>9, <2>10, <2>11 DEF Repointed
<1> QED
  BY <1>1, <1>2, SlotKinds

---------------------------------------------------------------------------
(* The recursive walks *)

\* The slot to which Seek goes is the end of the descent.
LEMMA SeekDescends ==
  ASSUME NEW m, NEW D, NEW at, NEW sub, Tree(D, at, sub), at = AtOf(m, D), DOMAIN m.recs = D,
         NEW k \in Keys
  PROVE  \E f : Descends(D, at, k, f) /\ Seek(m, k) = f[Home(k)]
<1>1. PICK f : Descends(D, at, k, f)
  BY DescentEnds
<1> DEFINE IsWalk(w) ==
      w = [s \in Slots(m) |-> IF At(m, s) \in {None, k} THEN s
                              ELSE w[<<IF Left(k, At(m, s)) THEN "left" ELSE "right", At(m, s)>>]]
<1>2. Slots(m) = SlotsOf(D)
  BY DEF Slots, SlotsOf, Sides
<1>3. \A s \in SlotsOf(D) : at[s] = At(m, s)
  BY DEF AtOf
<1>4. IsWalk(f)
  BY <1>1, <1>2, <1>3 DEF Descends, Side
<1>5. ASSUME NEW w, IsWalk(w)
      PROVE  w = f
  <2>1. PICK S : S = {s \in SlotsOf(D) : w[s] # f[s]}
    OBVIOUS
  <2>2. ASSUME S # {}
        PROVE  FALSE
    <3>1. PICK s \in S : at[s] # None => \A g \in Sides : <<g, at[s]>> \notin S
      BY <2>1, <2>2, LowestSlot
    <3>2. s \in SlotsOf(D) /\ w[s] # f[s] /\ at[s] \in Ptr(D)
      BY <2>1, <3>1 DEF Tree
    <3>3. PICK g, c : g = Side(at[s], k) /\ c = <<g, at[s]>>
      OBVIOUS
    <3>4. g \in Sides
      BY <3>3, TwoSides DEF Side
    <3>5. w[s] = IF at[s] \in {None, k} THEN s ELSE w[c]
      BY <1>2, <1>3, <1>5, <3>2, <3>3 DEF Side
    <3>6. f[s] = IF at[s] \in {None, k} THEN s ELSE f[c]
      BY <1>1, <3>2, <3>3 DEF Descends
    <3>7. at[s] \notin {None, k} => c \in SlotsOf(D) /\ c \notin S
      BY <3>1, <3>2, <3>3, <3>4, SlotIn DEF Ptr
    <3> QED
      BY <2>1, <3>2, <3>5, <3>6, <3>7
  <2>3. w = [s \in SlotsOf(D) |-> w[s]]
    BY <1>2, <1>5
  <2>4. f = [s \in SlotsOf(D) |-> f[s]]
    BY <1>1 DEF Descends
  <2> QED
    BY <2>1, <2>2, <2>3, <2>4
<1>6. Seek(m, k) = f[Home(k)]
  <2>1. (CHOOSE w : IsWalk(w)) = f
    BY <1>4, <1>5
  <2> HIDE DEF IsWalk
  <2>2. Seek(m, k) = (CHOOSE w : IsWalk(w))[<<"bucket", BucketOf[k]>>]
    BY DEF Seek, IsWalk
  <2> QED
    BY <2>1, <2>2 DEF Home
<1> QED
  BY <1>1, <1>6

\* Rightmost goes to the end of the walk along right pointers.
LEMMA RightmostWalks ==
  ASSUME NEW m, NEW D, NEW at, NEW sub, Tree(D, at, sub), at = AtOf(m, D), DOMAIN m.recs = D,
         NEW l \in D
  PROVE  \E w : GoesRight(D, at, w) /\ Rightmost(m, l) = w[l]
<1>1. PICK f : GoesRight(D, at, f)
  BY RightEnds
<1> DEFINE IsWalk(w) ==
      w = [x \in DOMAIN m.recs |-> IF m.recs[x].right = None THEN x ELSE w[m.recs[x].right]]
<1>2. \A x \in D : at[<<"right", x>>] = m.recs[x].right
  BY AtIs DEF AtOf
<1>3. IsWalk(f)
  BY <1>1, <1>2 DEF GoesRight
<1>4. ASSUME NEW w, IsWalk(w)
      PROVE  w = f
  <2>1. PICK S : S = {x \in D : w[x] # f[x]}
    OBVIOUS
  <2>2. ASSUME S # {}
        PROVE  FALSE
    <3>1. PICK r \in S : \A g \in Sides : at[<<g, r>>] \notin S
      BY <2>1, <2>2, LowestRecord
    <3>2. r \in D /\ w[r] # f[r] /\ at[<<"right", r>>] \notin S
      BY <2>1, <3>1, TwoSides
    <3>3. PICK c : c = at[<<"right", r>>]
      OBVIOUS
    <3>4. c \in Ptr(D)
      BY <3>2, <3>3, SlotIn, TwoSides DEF Tree
    <3>5. w[r] = IF c = None THEN r ELSE w[c]
      BY <1>2, <1>4, <3>2, <3>3
    <3>6. f[r] = IF c = None THEN r ELSE f[c]
      BY <1>1, <3>2, <3>3 DEF GoesRight
    <3> QED
      BY <2>1, <3>2, <3>3, <3>4, <3>5, <3>6 DEF Ptr
  <2>3. w = [x \in D |-> w[x]]
    BY <1>4
  <2>4. f = [x \in D |-> f[x]]
    BY <1>1 DEF GoesRight
  <2> QED
    BY <2>1, <2>2, <2>3, <2>4
<1>5. Rightmost(m, l) = f[l]
  <2>1. (CHOOSE w : IsWalk(w)) = f
    BY <1>3, <1>4
  <2> HIDE DEF IsWalk
  <2>2. Rightmost(m, l) = (CHOOSE w : IsWalk(w))[l]
    BY DEF Rightmost, IsWalk
  <2> QED
    BY <2>1, <2>2
<1> QED
  BY <1>1, <1>5

\* The walk along next meets the keys in the order of the list.
LEMMA OrderIs ==
  ASSUME NEW m, NEW D, None \notin D, DOMAIN m.recs = D, NEW ks,
         Chain(m.recs, D, m.first, m.last, ks)
  PROVE  Order(m) = ks
<1>1. PICK n : n = Len(ks)
  OBVIOUS
<1>2. /\ ks \in Seq(D) /\ n \in Nat /\ \A i \in 1 .. n : ks[i] \in D
      /\ \A i, j \in 1 .. n : ks[i] = ks[j] => i = j
      /\ \A x \in D : \E i \in 1 .. n : ks[i] = x
  BY <1>1 DEF Chain, Lists
<1>3. m.first = (IF n = 0 THEN None ELSE ks[1])
  BY <1>1, <1>2 DEF Chain, Follower
<1>4. \A i \in 1 .. n : m.recs[ks[i]].next = (IF i = n THEN None ELSE ks[i + 1])
  BY <1>1 DEF Chain, Follower
<1> DEFINE Place(x) == CHOOSE i \in 1 .. n : ks[i] = x
           f == [x \in D \cup {None} |-> IF x = None THEN <<>> ELSE SubSeq(ks, Place(x), n)]
           IsWalk(w) == w = [r \in DOMAIN m.recs \cup {None} |->
                               IF r = None THEN <<>> ELSE <<r>> \o w[m.recs[r].next]]
<1>5. \A i \in 1 .. n : Place(ks[i]) = i
  BY <1>2
<1> HIDE DEF Place
<1>6. \A i \in 1 .. n : f[ks[i]] = SubSeq(ks, i, n)
  <2>1. \A i \in 1 .. n : ks[i] \in D \cup {None} /\ ks[i] # None
    BY <1>2
  <2> QED
    BY <1>5, <2>1
<1>6a. \A i \in 1 .. n : SubSeq(ks, i, n) = <<ks[i]>> \o SubSeq(ks, i + 1, n)
  <2>1. ASSUME NEW i \in 1 .. n
        PROVE  SubSeq(ks, i, n) = <<ks[i]>> \o SubSeq(ks, i + 1, n)
    <3>1. ks \in Seq(D) /\ i \in 1 .. Len(ks) /\ n \in i .. Len(ks)
      BY <1>1, <1>2
    <3> QED
      BY <3>1, SubSeqRecursiveFirst
  <2> QED
    BY <2>1
<1>6b. SubSeq(ks, n + 1, n) = <<>>
  BY <1>2, SubSeqEmpty
<1>7. IsWalk(f)
  <2>1. ASSUME NEW x \in D
        PROVE  f[x] = <<x>> \o f[m.recs[x].next]
    <3>1. PICK i \in 1 .. n : ks[i] = x
      BY <1>2
    <3>2. f[x] = SubSeq(ks, i, n)
      BY <1>6, <3>1
    <3>3. CASE i = n
      BY <1>4, <1>6a, <1>6b, <3>1, <3>2, <3>3
    <3>4. CASE i # n
      <4>1. i + 1 \in 1 .. n
        BY <1>2, <3>4
      <4>2. f[ks[i + 1]] = SubSeq(ks, i + 1, n)
        BY <1>6, <4>1
      <4> HIDE DEF f
      <4> QED
        BY <1>4, <1>6a, <3>1, <3>2, <3>4, <4>1, <4>2
    <3> QED
      BY <3>3, <3>4
  <2> QED
    BY <2>1
<1>8. ASSUME NEW w, IsWalk(w)
      PROVE  w = f
  <2>1. \A x \in D \cup {None} : w[x] = IF x = None THEN <<>> ELSE <<x>> \o w[m.recs[x].next]
    BY <1>8
  <2> DEFINE P == {j \in 0 .. n : j = 0 \/ w[ks[n + 1 - j]] = f[ks[n + 1 - j]]}
  <2> HIDE DEF f
  <2>2. ASSUME NEW i \in 1 .. n, i - 1 \in P
        PROVE  i \in P
    <3>1. PICK j : j = n + 1 - i
      OBVIOUS
    <3>2. j \in 1 .. n /\ ks[j] \in D /\ ks[j] # None
      BY <1>2, <3>1
    <3>3. /\ w[ks[j]] = <<ks[j]>> \o w[m.recs[ks[j]].next]
          /\ f[ks[j]] = <<ks[j]>> \o f[m.recs[ks[j]].next]
      BY <1>7, <2>1, <3>2
    <3>4. w[m.recs[ks[j]].next] = f[m.recs[ks[j]].next]
      <4>1. CASE j = n
        <5>1. w[None] = <<>> /\ f[None] = <<>>
          BY <2>1 DEF f
        <5> QED
          BY <1>4, <3>2, <4>1, <5>1
      <4>2. CASE j # n
        <5>1. n + 1 - (i - 1) = j + 1 /\ i - 1 # 0
          BY <1>2, <3>1, <4>2
        <5>2. w[ks[j + 1]] = f[ks[j + 1]]
          BY <2>2, <5>1
        <5> QED
          BY <1>4, <3>2, <4>2, <5>2
      <4> QED
        BY <4>1, <4>2
    <3>5. w[ks[j]] = f[ks[j]]
      BY <3>3, <3>4
    <3>6. w[ks[n + 1 - i]] = f[ks[n + 1 - i]]
      BY <3>1, <3>5
    <3>7. i \in 0 .. n
      BY <1>2
    <3> QED
      BY <3>6, <3>7
  <2>3. \A j \in 0 .. n : j \in P
    <3>1. PICK Q : Q = P
      OBVIOUS
    <3>2. 0 \in Q
      BY <1>2, <3>1
    <3>3. \A i \in 1 .. n : i - 1 \in Q => i \in Q
      <4> HIDE DEF P
      <4> QED
        BY <2>2, <3>1
    <3>4. \A i \in 0 .. n : i \in Q
      BY <1>2, <3>2, <3>3, Reached
    <3> QED
      BY <3>1, <3>4
  <2>4. \A x \in D : w[x] = f[x]
    <3>1. ASSUME NEW x \in D
          PROVE  w[x] = f[x]
      <4>1. PICK i \in 1 .. n : ks[i] = x
        BY <1>2
      <4>2. n + 1 - i \in 0 .. n /\ n + 1 - i # 0 /\ n + 1 - (n + 1 - i) = i
        BY <1>2
      <4> QED
        BY <2>3, <4>1, <4>2
    <3> QED
      BY <3>1
  <2>5. w[None] = f[None]
    BY <2>1 DEF f
  <2>6. w = [x \in D \cup {None} |-> w[x]] /\ f = [x \in D \cup {None} |-> f[x]]
    BY <1>8 DEF f
  <2> QED
    BY <2>4, <2>5, <2>6
<1>9. Order(m) = f[m.first]
  <2>1. (CHOOSE w : IsWalk(w)) = f
    BY <1>7, <1>8
  <2> HIDE DEF IsWalk, f
  <2>2. Order(m) = (CHOOSE w : IsWalk(w))[m.first]
    BY DEF Order, IsWalk
  <2> QED
    BY <2>1, <2>2
<1>10. CASE n = 0
  <2>1. ks = <<>>
    BY <1>1, <1>2, <1>10
  <2> QED
    BY <1>3, <1>9, <1>10, <2>1
<1>11. CASE n # 0
  <2>1. SubSeq(ks, 1, n) = ks
    BY <1>1, <1>2
  <2>2. 1 \in 1 .. n
    BY <1>2, <1>11
  <2> QED
    BY <1>3, <1>6, <1>9, <1>11, <2>1, <2>2
<1> QED
  BY <1>10, <1>11

---------------------------------------------------------------------------
(* Maps in order *)

\* The ends of a list, and its neighbours, are records or None.
LEMMA ChainEnds ==
  ASSUME NEW E, None \notin E, NEW recs, NEW first, NEW last, NEW ks,
         Chain(recs, E, first, last, ks)
  PROVE  /\ Len(ks) \in Nat /\ first \in Ptr(E) /\ last \in Ptr(E)
         /\ first = None <=> Len(ks) = 0
         /\ last = None <=> Len(ks) = 0
         /\ \A x \in E : recs[x].next \in Ptr(E) /\ recs[x].prev \in Ptr(E)
         /\ \A x \in E : \E i \in 1 .. Len(ks) : ks[i] = x
<1>1. PICK n : n = Len(ks)
  OBVIOUS
<1>2. /\ n \in Nat /\ \A i \in 1 .. n : ks[i] \in E /\ ks[i] # None
      /\ \A x \in E : \E i \in 1 .. n : ks[i] = x
  BY <1>1 DEF Chain, Lists
<1>3. first = (IF n = 0 THEN None ELSE ks[1]) /\ last = (IF n = 0 THEN None ELSE ks[n])
  <2>1. first = Follower(ks, 0) /\ last = Preceder(ks, Len(ks) + 1)
    BY DEF Chain
  <2> QED
    BY <1>1, <1>2, <2>1 DEF Follower, Preceder
<1>4. n # 0 => 1 \in 1 .. n /\ n \in 1 .. n
  BY <1>2
<1>5. ASSUME NEW x \in E
      PROVE  recs[x].next \in Ptr(E) /\ recs[x].prev \in Ptr(E)
  <2>1. PICK i \in 1 .. n : ks[i] = x
    BY <1>2
  <2>2. /\ recs[x].next = (IF i = n THEN None ELSE ks[i + 1])
        /\ recs[x].prev = (IF i = 1 THEN None ELSE ks[i - 1])
    BY <1>1, <2>1 DEF Chain, Follower, Preceder
  <2>3. /\ i # n => i + 1 \in 1 .. n
        /\ i # 1 => i - 1 \in 1 .. n
    BY <1>2
  <2> QED
    BY <1>2, <2>2, <2>3 DEF Ptr
<1> QED
  BY <1>1, <1>2, <1>3, <1>4, <1>5 DEF Ptr

\* Records with the same links are in the same list.
LEMMA ChainSame ==
  ASSUME NEW D, NEW recs, NEW first, NEW last, NEW ks, Chain(recs, D, first, last, ks),
         NEW R, SameLinks(R, recs, D)
  PROVE  Chain(R, D, first, last, ks)
<1>1. \A i \in 1 .. Len(ks) : ks[i] \in D
  BY DEF Chain, Lists
<1> QED
  BY <1>1 DEF Chain, SameLinks

\* m is a map with the keys of D, stored in the order of ks.
Good(m, D, ks) ==
  /\ IsMap(m, D) /\ D \subseteq Keys
  /\ Chain(m.recs, D, m.first, m.last, ks)
  /\ \E sub : Tree(D, AtOf(m, D), sub)
  /\ m.cur \in Ptr(D) /\ m.rnum = Len(ks)

\* What follows from it at once.
LEMMA GoodMap ==
  ASSUME NEW m, NEW D, NEW ks, Good(m, D, ks)
  PROVE  /\ D \subseteq Keys /\ None \notin D /\ DOMAIN m.recs = D /\ IsFiniteSet(D)
         /\ m.rnum = Len(ks) /\ Len(ks) \in Nat
         /\ m.first \in Ptr(D) /\ m.last \in Ptr(D) /\ m.cur \in Ptr(D)
         /\ m.first = None <=> Len(ks) = 0
         /\ m.last = None <=> Len(ks) = 0
         /\ \A x \in D : m.recs[x].next \in Ptr(D) /\ m.recs[x].prev \in Ptr(D)
         /\ \A x \in D : \E i \in 1 .. Len(ks) : ks[i] = x
<1>1. D \subseteq Keys /\ None \notin D /\ m.rnum = Len(ks) /\ m.cur \in Ptr(D)
  BY MapAssumption DEF Good
<1>2. DOMAIN m.recs = D
  BY DEF Good, IsMap, Nodes
<1>3. IsFiniteSet(D)
  BY DEF Good, Tree
<1>4. Chain(m.recs, D, m.first, m.last, ks)
  BY DEF Good
<1> QED
  BY <1>1, <1>2, <1>3, <1>4, ChainEnds

\* A record is in the map if the descent for its key finds it.
LEMMA HasIs ==
  ASSUME NEW m, NEW D, NEW ks, Good(m, D, ks), NEW k \in Keys
  PROVE  MapHas(m, k) <=> k \in D
<1>1. PICK at, sub : at = AtOf(m, D) /\ Tree(D, at, sub)
  BY DEF Good
<1>2. DOMAIN m.recs = D
  BY GoodMap
<1>3. PICK f : Descends(D, at, k, f) /\ Seek(m, k) = f[Home(k)]
  BY <1>1, <1>2, SeekDescends
<1>4. k # None
  BY MapAssumption
<1>5. Home(k) \in SlotsOf(D) /\ Below(sub, at[Home(k)]) = {x \in D : BucketOf[x] = BucketOf[k]}
  <2>1. BucketOf[k] \in Buckets
    BY MapAssumption
  <2> QED
    BY <1>1, <2>1, SlotIn DEF Tree, Home
<1>6. PICK s : s = Home(k)
  OBVIOUS
<1>7. /\ k \in Below(sub, at[s]) => at[f[s]] = k
      /\ k \notin Below(sub, at[s]) => at[f[s]] = None
      /\ f[s] \in SlotsOf(D)
  BY <1>1, <1>3, <1>4, <1>5, <1>6, DescentFinds
<1>8. At(m, Seek(m, k)) = at[f[s]]
  BY <1>1, <1>3, <1>6, <1>7 DEF AtOf
<1> QED
  BY <1>4, <1>5, <1>6, <1>7, <1>8 DEF MapHas

\* The trees do not depend on the list.
LEMMA Relisted ==
  ASSUME NEW m, NEW D, NEW ks, Good(m, D, ks), NEW n, IsMap(n, D), n.top = m.top,
         SameKids(n.recs, m.recs, D), n.cur \in Ptr(D),
         NEW ls, n.rnum = Len(ls), Chain(n.recs, D, n.first, n.last, ls)
  PROVE  Good(n, D, ls)
<1>1. AtOf(n, D) = AtOf(m, D)
  BY SameAt
<1> QED
  BY <1>1 DEF Good

\* A map stays good when only values and sizes change.
LEMMA KeptGood ==
  ASSUME NEW m, NEW D, NEW ks, Good(m, D, ks), NEW n, IsMap(n, D), n.top = m.top,
         SameKids(n.recs, m.recs, D), SameLinks(n.recs, m.recs, D), n.cur \in Ptr(D),
         n.first = m.first, n.last = m.last, n.rnum = m.rnum
  PROVE  Good(n, D, ks)
<1>1. Chain(m.recs, D, m.first, m.last, ks) /\ m.rnum = Len(ks)
  BY DEF Good
<1>2. Chain(n.recs, D, n.first, n.last, ks)
  BY <1>1, ChainSame
<1> QED
  BY <1>1, <1>2, Relisted

\* A good map is sound in the sense of TCMap, and in the order of its list.
LEMMA GoodIsSound ==
  ASSUME NEW m, NEW D, NEW ks, Good(m, D, ks)
  PROVE  MapSound(m) /\ Order(m) = ks
<1>1. PICK at, sub : at = AtOf(m, D) /\ Tree(D, at, sub)
  BY DEF Good
<1>2. D \subseteq Keys /\ None \notin D /\ DOMAIN m.recs = D /\ Chain(m.recs, D, m.first, m.last, ks)
  BY GoodMap DEF Good
<1>3. Order(m) = ks
  BY <1>2, OrderIs
<1>4. PICK n : n = Len(ks)
  OBVIOUS
<1>5. /\ ks \in Seq(D) /\ n \in Nat /\ DOMAIN ks = 1 .. n /\ \A i \in 1 .. n : ks[i] \in D
      /\ \A x \in D : \E i \in 1 .. n : ks[i] = x
  BY <1>2, <1>4 DEF Chain, Lists
<1>6. ChainSound(m)
  <2>1. {ks[i] : i \in DOMAIN ks} = D
    BY <1>5
  <2>2. n = m.rnum
    BY <1>4 DEF Good
  <2>3. m.last = IF ks = <<>> THEN None ELSE ks[n]
    <3>1. m.last = Preceder(ks, n + 1)
      BY <1>2, <1>4 DEF Chain
    <3>2. ks = <<>> <=> n = 0
      BY <1>4, <1>5
    <3> QED
      BY <1>5, <3>1, <3>2 DEF Preceder
  <2>4. \A i \in DOMAIN ks : m.recs[ks[i]].prev = IF i = 1 THEN None ELSE ks[i - 1]
    BY <1>2, <1>4, <1>5 DEF Chain, Preceder
  <2> QED
    BY <1>2, <1>3, <1>4, <2>1, <2>2, <2>3, <2>4 DEF ChainSound
<1>7. BucketsSound(m)
  <2>1. ASSUME NEW k \in D
        PROVE  MapHas(m, k) /\ Cardinality({s \in Slots(m) : At(m, s) = k}) = 1
    <3>1. MapHas(m, k)
      BY <1>2, HasIs
    <3>2. PICK f : Descends(D, at, k, f)
      BY <1>1, DescentEnds
    <3>3. PICK h : h = f[Home(k)]
      OBVIOUS
    <3>4. at[h] = k /\ h \in SlotsOf(D) /\ \A t \in SlotsOf(D) : at[t] = k => t = h
      BY <1>1, <3>2, <3>3, SlotUnique
    <3>5. Slots(m) = SlotsOf(D)
      BY <1>2 DEF Slots, SlotsOf, Sides
    <3>6. {s \in Slots(m) : At(m, s) = k} = {h}
      BY <1>1, <3>4, <3>5 DEF AtOf
    <3> QED
      BY <3>1, <3>6, FS_Singleton
  <2> QED
    BY <1>2, <2>1 DEF BucketsSound
<1>8. CurSound(m)
  BY <1>2 DEF CurSound, Good, Ptr
<1> QED
  BY <1>3, <1>6, <1>7, <1>8 DEF MapSound

---------------------------------------------------------------------------
(* Values, the iterator, and records that move *)

\* The map without records.
LEMMA NewGood == Good(NewMap, {}, <<>>) /\ NewMap.cur = None
<1> DEFINE D == {}
           at == AtOf(NewMap, D)
           sub == [x \in D |-> {}]
<1>1. /\ IsMap(NewMap, D) /\ NewMap.first = None /\ NewMap.last = None /\ NewMap.cur = None
      /\ NewMap.rnum = 0 /\ NewMap.top = [b \in Buckets |-> None]
  BY DEF NewMap, IsMap, Nodes
<1>2. \A b \in Buckets : <<"bucket", b>> \in SlotsOf(D) /\ at[<<"bucket", b>>] = None
  <2>1. ASSUME NEW b \in Buckets
        PROVE  <<"bucket", b>> \in SlotsOf(D) /\ at[<<"bucket", b>>] = None
    <3>1. PICK s : s = <<"bucket", b>>
      OBVIOUS
    <3>2. s \in SlotsOf(D)
      BY <3>1, SlotIn
    <3>3. At(NewMap, s) = NewMap.top[b]
      BY <3>1, AtBucket
    <3>4. at[s] = None
      BY <1>1, <3>2, <3>3 DEF AtOf
    <3> QED
      BY <3>1, <3>2, <3>4
  <2> QED
    BY <2>1
<1>3. at \in [SlotsOf(D) -> Ptr(D)]
  <2>1. ASSUME NEW s \in SlotsOf(D)
        PROVE  at[s] = None
    BY <1>2, <2>1, SlotKinds
  <2> QED
    BY <2>1 DEF AtOf, Ptr
<1>4. Tree(D, at, sub)
  <2>1. IsFiniteSet(D)
    BY FS_EmptySet
  <2>2. \A b \in Buckets : Below(sub, at[<<"bucket", b>>]) = {x \in D : BucketOf[x] = b}
    BY <1>2 DEF Below
  <2> HIDE DEF at
  <2> QED
    BY <1>3, <2>1, <2>2 DEF Tree
<1>5. Chain(NewMap.recs, D, NewMap.first, NewMap.last, <<>>)
  <2>1. Lists(<<>>, D)
    BY DEF Lists
  <2> QED
    BY <1>1, <2>1 DEF Chain, Follower, Preceder
<1> QED
  BY <1>1, <1>4, <1>5 DEF Good, Ptr

\* A map with another value of a record.
LEMMA ValueGood ==
  ASSUME NEW m, NEW D, NEW ks, Good(m, D, ks), NEW k \in D, NEW v,
         NEW n, n = [m EXCEPT !.recs[k].val = v]
  PROVE  /\ Good(n, D, ks) /\ n.cur = m.cur
         /\ \A x \in D : n.recs[x].val = IF x = k THEN v ELSE m.recs[x].val
         /\ SameLinks(n.recs, m.recs, D) /\ n.first = m.first /\ n.last = m.last
<1>1. IsMap(m, D)
  BY DEF Good
<1>2. PICK g, h, R : g = m.recs[k] /\ h = [g EXCEPT !.val = v] /\ R = [m.recs EXCEPT ![k] = h]
  OBVIOUS
<1>3. n = [m EXCEPT !.recs = R]
  BY <1>2
<1>4. n = [top |-> m.top, recs |-> R, first |-> m.first, last |-> m.last,
           cur |-> m.cur, rnum |-> m.rnum, msiz |-> m.msiz]
  BY <1>1, <1>3 DEF IsMap
<1>5. IsNode(h) /\ h.left = g.left /\ h.right = g.right /\ h.next = g.next /\ h.prev = g.prev /\ h.val = v
  <2>1. IsNode(g)
    BY <1>1, <1>2 DEF IsMap, Nodes
  <2> QED
    BY <1>2, <2>1 DEF IsNode
<1>6. R = [x \in D |-> IF x = k THEN h ELSE m.recs[x]]
  BY <1>1, <1>2 DEF IsMap, Nodes
<1>7. /\ n.top = m.top /\ n.recs = R /\ n.first = m.first /\ n.last = m.last /\ n.cur = m.cur
      /\ n.rnum = m.rnum
  BY <1>4
<1>8. IsMap(n, D)
  <2>1. Nodes(R, D)
    BY <1>1, <1>5, <1>6 DEF IsMap, Nodes
  <2> QED
    BY <1>1, <1>4, <1>7, <2>1 DEF IsMap
<1>9. SameKids(n.recs, m.recs, D) /\ SameLinks(n.recs, m.recs, D)
      /\ \A x \in D : n.recs[x].val = IF x = k THEN v ELSE m.recs[x].val
  BY <1>2, <1>5, <1>6, <1>7 DEF SameKids, SameLinks
<1>10. Good(n, D, ks)
  <2>1. n.cur \in Ptr(D)
    BY <1>7, GoodMap
  <2> QED
    BY <1>7, <1>8, <1>9, <2>1, KeptGood
<1> QED
  BY <1>7, <1>9, <1>10

\* A map with another iterator.
LEMMA CurGood ==
  ASSUME NEW m, NEW D, NEW ks, Good(m, D, ks), NEW c \in Ptr(D),
         NEW n, n = [m EXCEPT !.cur = c]
  PROVE  Good(n, D, ks) /\ n.cur = c /\ n.recs = m.recs /\ n.first = m.first /\ n.last = m.last
<1>1. IsMap(m, D)
  BY DEF Good
<1>2. n = [top |-> m.top, recs |-> m.recs, first |-> m.first, last |-> m.last,
           cur |-> c, rnum |-> m.rnum, msiz |-> m.msiz]
  BY <1>1 DEF IsMap
<1>3. /\ n.top = m.top /\ n.recs = m.recs /\ n.first = m.first /\ n.last = m.last /\ n.cur = c
      /\ n.rnum = m.rnum
  BY <1>2
<1>4. IsMap(n, D)
  BY <1>1, <1>2, <1>3 DEF IsMap
<1> QED
  BY <1>3, <1>4, KeptGood DEF SameKids, SameLinks

\* The record k goes to the end of the list.
LEMMA ToLastGood ==
  ASSUME NEW m, NEW D, NEW ks, Good(m, D, ks), NEW i \in 1 .. Len(ks), NEW k, k = ks[i],
         NEW n, n = ToLast(m, k), m.last # k
  PROVE  /\ Good(n, D, Append(Skipped(ks, i), k)) /\ n.cur = m.cur
         /\ SameVals(n.recs, m.recs, D)
<1>1. /\ IsMap(m, D) /\ Nodes(m.recs, D) /\ Chain(m.recs, D, m.first, m.last, ks)
      /\ m.rnum = Len(ks)
  BY DEF Good, IsMap
<1>2. /\ D \subseteq Keys /\ None \notin D /\ m.first \in Ptr(D) /\ m.last \in Ptr(D) /\ m.cur \in Ptr(D)
      /\ \A x \in D : m.recs[x].next \in Ptr(D) /\ m.recs[x].prev \in Ptr(D)
      /\ Len(ks) \in Nat /\ m.last = None <=> Len(ks) = 0
  BY GoodMap
<1>3. k \in D /\ k # None /\ Lists(ks, D)
  <2>1. Lists(ks, D) /\ ks \in Seq(D)
    BY <1>1 DEF Chain, Lists
  <2>2. ks[i] \in D
    BY <2>1, ElementOfSeq
  <2> QED
    BY <1>2, <2>1, <2>2
<1>4. PICK l, nk : l = m.last /\ nk = m.recs[k].next
  OBVIOUS
<1>5. l \in D /\ l # k /\ l # None /\ k \in Ptr(D) /\ l \in Ptr(D)
  BY <1>2, <1>3, <1>4 DEF Ptr
<1>6. PICK R1, R2, R3, R4 : /\ R1 = Bridged(m.recs, k) /\ R2 = SetPrev(R1, k, l)
                            /\ R3 = SetNext(R2, k, None) /\ R4 = SetNext(R3, l, k)
  OBVIOUS
<1>7. Nodes(R1, D) /\ SameKids(R1, m.recs, D) /\ SameVals(R1, m.recs, D) /\ Cut(m.recs, R1, D, k)
  BY <1>1, <1>2, <1>3, <1>6, BridgedCuts
<1>8. /\ Nodes(R2, D) /\ SameKids(R2, R1, D) /\ SameVals(R2, R1, D)
      /\ \A x \in D : R2[x].prev = (IF x = k THEN l ELSE R1[x].prev) /\ R2[x].next = R1[x].next
  BY <1>2, <1>5, <1>6, <1>7, PrevSet
<1>9. /\ Nodes(R3, D) /\ SameKids(R3, R2, D) /\ SameVals(R3, R2, D)
      /\ \A x \in D : R3[x].next = (IF x = k THEN None ELSE R2[x].next) /\ R3[x].prev = R2[x].prev
  BY <1>2, <1>5, <1>6, <1>8, NextSet
<1>10. /\ Nodes(R4, D) /\ SameKids(R4, R3, D) /\ SameVals(R4, R3, D)
       /\ \A x \in D : R4[x].next = (IF x = l THEN k ELSE R3[x].next) /\ R4[x].prev = R3[x].prev
  BY <1>2, <1>5, <1>6, <1>9, NextSet
<1>11. PICK a : a = IF m.first = k THEN nk ELSE m.first
  OBVIOUS
<1>12. n = [top |-> m.top, recs |-> R4, first |-> a, last |-> k,
            cur |-> m.cur, rnum |-> m.rnum, msiz |-> m.msiz]
  <2>1. n = [m EXCEPT !.recs = R4, !.first = IF @ = k THEN nk ELSE @, !.last = k]
    BY <1>4, <1>5, <1>6 DEF ToLast
  <2> QED
    BY <1>1, <1>11, <2>1 DEF IsMap
<1>13. /\ n.top = m.top /\ n.recs = R4 /\ n.first = a /\ n.last = k /\ n.cur = m.cur
       /\ n.rnum = m.rnum
  BY <1>12
<1>14. IsMap(n, D)
  BY <1>1, <1>10, <1>12, <1>13 DEF IsMap
<1>15. SameKids(n.recs, m.recs, D) /\ SameVals(n.recs, m.recs, D)
  BY <1>7, <1>8, <1>9, <1>10, <1>13 DEF SameKids, SameVals
<1>16. PICK E, ls : E = D \ {k} /\ ls = Skipped(ks, i)
  OBVIOUS
<1>17. None \notin E /\ k \notin E /\ D = E \cup {k} /\ l \in E
  BY <1>2, <1>3, <1>5, <1>16
<1>18. Chain(R1, E, a, l, ls)
  <2>1. Cut(m.recs, R1, E, k)
    BY <1>7, <1>16 DEF Cut
  <2>2. Chain(R1, E, FirstPast(m.recs, m.first, k), LastPast(m.recs, m.last, k), Skipped(ks, i))
    BY <1>1, <1>2, <1>16, <2>1, ChainCut
  <2> QED
    BY <1>4, <1>11, <1>16, <2>2 DEF FirstPast, LastPast
<1>19. Len(ls) = Len(ks) - 1 /\ a # None
  <2>1. a = None <=> l = None
    BY <1>17, <1>18, ChainEnds
  <2>2. IsSkip(ls, ks, i)
    BY <1>3, <1>16, SkippedLists
  <2> QED
    BY <1>5, <2>1, <2>2 DEF IsSkip
<1>20. Chain(R4, D, a, k, Append(ls, k))
  <2>1. /\ \A x \in E : R4[x].prev = R1[x].prev /\ R4[x].next = IF x = l THEN k ELSE R1[x].next
        /\ R4[k].prev = l /\ R4[k].next = None
    BY <1>3, <1>5, <1>8, <1>9, <1>10, <1>16
  <2>2. LinkedLast(R1, R4, E, l, k)
    BY <2>1 DEF LinkedLast
  <2>3. Chain(R4, D, IF a = None THEN k ELSE a, k, Append(ls, k))
    BY <1>3, <1>17, <1>18, <2>2, ChainAppend
  <2> QED
    BY <1>19, <2>3
<1>21. n.rnum = Len(Append(ls, k))
  <2>1. ls \in Seq(E)
    BY <1>18 DEF Chain, Lists
  <2>2. Len(Append(ls, k)) = Len(ls) + 1
    BY <2>1
  <2> QED
    BY <1>1, <1>2, <1>13, <1>19, <2>2
<1>22. Good(n, D, Append(ls, k))
  <2>1. n.cur \in Ptr(D) /\ Chain(n.recs, D, n.first, n.last, Append(ls, k))
    BY <1>2, <1>13, <1>20
  <2> QED
    BY <1>13, <1>14, <1>15, <1>21, <2>1, Relisted
<1> QED
  BY <1>13, <1>15, <1>16, <1>22

\* The record k goes to the front of the list.
LEMMA ToFirstGood ==
  ASSUME NEW m, NEW D, NEW ks, Good(m, D, ks), NEW i \in 1 .. Len(ks), NEW k, k = ks[i],
         NEW n, n = ToFirst(m, k), m.first # k
  PROVE  /\ Good(n, D, <<k>> \o Skipped(ks, i)) /\ n.cur = m.cur
         /\ SameVals(n.recs, m.recs, D)
<1>1. /\ IsMap(m, D) /\ Nodes(m.recs, D) /\ Chain(m.recs, D, m.first, m.last, ks)
      /\ m.rnum = Len(ks)
  BY DEF Good, IsMap
<1>2. /\ D \subseteq Keys /\ None \notin D /\ m.first \in Ptr(D) /\ m.last \in Ptr(D) /\ m.cur \in Ptr(D)
      /\ \A x \in D : m.recs[x].next \in Ptr(D) /\ m.recs[x].prev \in Ptr(D)
      /\ Len(ks) \in Nat /\ m.first = None <=> Len(ks) = 0
  BY GoodMap
<1>3. k \in D /\ k # None /\ Lists(ks, D)
  <2>1. Lists(ks, D) /\ ks \in Seq(D)
    BY <1>1 DEF Chain, Lists
  <2>2. ks[i] \in D
    BY <2>1, ElementOfSeq
  <2> QED
    BY <1>2, <2>1, <2>2
<1>4. PICK l, pk : l = m.first /\ pk = m.recs[k].prev
  OBVIOUS
<1>5. l \in D /\ l # k /\ l # None /\ k \in Ptr(D) /\ l \in Ptr(D)
  BY <1>2, <1>3, <1>4 DEF Ptr
<1>6. PICK R1, R2, R3, R4 : /\ R1 = Bridged(m.recs, k) /\ R2 = SetPrev(R1, k, None)
                            /\ R3 = SetNext(R2, k, l) /\ R4 = SetPrev(R3, l, k)
  OBVIOUS
<1>7. Nodes(R1, D) /\ SameKids(R1, m.recs, D) /\ SameVals(R1, m.recs, D) /\ Cut(m.recs, R1, D, k)
  BY <1>1, <1>2, <1>3, <1>6, BridgedCuts
<1>8. /\ Nodes(R2, D) /\ SameKids(R2, R1, D) /\ SameVals(R2, R1, D)
      /\ \A x \in D : R2[x].prev = (IF x = k THEN None ELSE R1[x].prev) /\ R2[x].next = R1[x].next
  BY <1>2, <1>5, <1>6, <1>7, PrevSet
<1>9. /\ Nodes(R3, D) /\ SameKids(R3, R2, D) /\ SameVals(R3, R2, D)
      /\ \A x \in D : R3[x].next = (IF x = k THEN l ELSE R2[x].next) /\ R3[x].prev = R2[x].prev
  BY <1>2, <1>5, <1>6, <1>8, NextSet
<1>10. /\ Nodes(R4, D) /\ SameKids(R4, R3, D) /\ SameVals(R4, R3, D)
       /\ \A x \in D : R4[x].prev = (IF x = l THEN k ELSE R3[x].prev) /\ R4[x].next = R3[x].next
  BY <1>2, <1>5, <1>6, <1>9, PrevSet
<1>11. PICK a : a = IF m.last = k THEN pk ELSE m.last
  OBVIOUS
<1>12. n = [top |-> m.top, recs |-> R4, first |-> k, last |-> a,
            cur |-> m.cur, rnum |-> m.rnum, msiz |-> m.msiz]
  <2>1. n = [m EXCEPT !.recs = R4, !.last = IF @ = k THEN pk ELSE @, !.first = k]
    BY <1>4, <1>5, <1>6 DEF ToFirst
  <2> QED
    BY <1>1, <1>11, <2>1 DEF IsMap
<1>13. /\ n.top = m.top /\ n.recs = R4 /\ n.first = k /\ n.last = a /\ n.cur = m.cur
       /\ n.rnum = m.rnum
  BY <1>12
<1>14. IsMap(n, D)
  BY <1>1, <1>10, <1>12, <1>13 DEF IsMap
<1>15. SameKids(n.recs, m.recs, D) /\ SameVals(n.recs, m.recs, D)
  BY <1>7, <1>8, <1>9, <1>10, <1>13 DEF SameKids, SameVals
<1>16. PICK E, ls : E = D \ {k} /\ ls = Skipped(ks, i)
  OBVIOUS
<1>17. None \notin E /\ k \notin E /\ D = E \cup {k} /\ l \in E
  BY <1>2, <1>3, <1>5, <1>16
<1>18. Chain(R1, E, l, a, ls)
  <2>1. Cut(m.recs, R1, E, k)
    BY <1>7, <1>16 DEF Cut
  <2>2. Chain(R1, E, FirstPast(m.recs, m.first, k), LastPast(m.recs, m.last, k), Skipped(ks, i))
    BY <1>1, <1>2, <1>16, <2>1, ChainCut
  <2> QED
    BY <1>4, <1>11, <1>16, <2>2 DEF FirstPast, LastPast
<1>19. Len(ls) = Len(ks) - 1 /\ a # None
  <2>1. a = None <=> l = None
    BY <1>17, <1>18, ChainEnds
  <2>2. IsSkip(ls, ks, i)
    BY <1>3, <1>16, SkippedLists
  <2> QED
    BY <1>5, <2>1, <2>2 DEF IsSkip
<1>20. Chain(R4, D, k, a, <<k>> \o ls)
  <2>1. /\ \A x \in E : R4[x].next = R1[x].next /\ R4[x].prev = IF x = l THEN k ELSE R1[x].prev
        /\ R4[k].next = l /\ R4[k].prev = None
    BY <1>3, <1>5, <1>8, <1>9, <1>10, <1>16
  <2>2. LinkedFirst(R1, R4, E, l, k)
    BY <2>1 DEF LinkedFirst
  <2>3. Chain(R4, D, k, IF a = None THEN k ELSE a, <<k>> \o ls)
    BY <1>3, <1>17, <1>18, <2>2, ChainPrepend
  <2> QED
    BY <1>19, <2>3
<1>21. n.rnum = Len(<<k>> \o ls)
  <2>1. Lists(ls, E)
    BY <1>18 DEF Chain
  <2>2. IsPrepend(<<k>> \o ls, ls, k)
    BY <1>17, <2>1, PrependLists
  <2> QED
    BY <1>1, <1>2, <1>13, <1>19, <2>2 DEF IsPrepend
<1>22. Good(n, D, <<k>> \o ls)
  <2>1. n.cur \in Ptr(D) /\ Chain(n.recs, D, n.first, n.last, <<k>> \o ls)
    BY <1>2, <1>13, <1>20
  <2> QED
    BY <1>13, <1>14, <1>15, <1>21, <2>1, Relisted
<1> QED
  BY <1>13, <1>15, <1>16, <1>22

---------------------------------------------------------------------------
(* Records that come and go *)

\* A new record is the last of the list and a leaf of its tree.
LEMMA AttachedGood ==
  ASSUME NEW m, NEW D, NEW ks, Good(m, D, ks), NEW k \in Keys, k \notin D, NEW v,
         NEW n, n = Attached(m, k, v)
  PROVE  /\ Good(n, D \cup {k}, Append(ks, k)) /\ n.cur = m.cur
         /\ n.recs[k].val = v /\ SameVals(n.recs, m.recs, D)
<1>1. /\ IsMap(m, D) /\ Nodes(m.recs, D) /\ Chain(m.recs, D, m.first, m.last, ks)
      /\ m.rnum = Len(ks)
  BY DEF Good, IsMap
<1>2. /\ D \subseteq Keys /\ None \notin D /\ m.first \in Ptr(D) /\ m.last \in Ptr(D) /\ m.cur \in Ptr(D)
      /\ Len(ks) \in Nat /\ DOMAIN m.recs = D
  BY GoodMap
<1>3. PICK at, sub : at = AtOf(m, D) /\ Tree(D, at, sub)
  BY DEF Good
<1>4. PICK E, l, new, old, R : /\ E = D \cup {k} /\ l = m.last
        /\ new = [left |-> None, right |-> None, prev |-> l, next |-> None, val |-> v]
        /\ old = SetNext(m.recs, l, k)
        /\ R = [r \in DOMAIN old \cup {k} |-> IF r = k THEN new ELSE old[r]]
  OBVIOUS
<1>5. k # None
  BY MapAssumption
<1>6. /\ Nodes(old, D) /\ SameKids(old, m.recs, D) /\ SameVals(old, m.recs, D)
      /\ \A x \in D : old[x].next = (IF x = l THEN k ELSE m.recs[x].next) /\ old[x].prev = m.recs[x].prev
  BY <1>1, <1>2, <1>4, NextSet
<1>7. R = [x \in E |-> IF x = k THEN new ELSE old[x]] /\ Nodes(R, E)
  <2>1. DOMAIN old = D /\ \A x \in D : IsNode(old[x])
    BY <1>6 DEF Nodes
  <2>2. IsNode(new)
    BY <1>4 DEF IsNode
  <2>3. R = [x \in E |-> IF x = k THEN new ELSE old[x]]
    BY <1>4, <2>1
  <2>4. \A x \in E : IsNode(R[x])
    BY <1>4, <2>1, <2>2, <2>3
  <2> QED
    BY <2>3, <2>4 DEF Nodes
<1>8. PICK a, b : /\ a = IF m.first = None THEN k ELSE m.first
                  /\ b = [top |-> m.top, recs |-> R, first |-> a, last |-> k,
                          cur |-> m.cur, rnum |-> m.rnum + 1, msiz |-> m.msiz]
  OBVIOUS
<1>9. PICK t : t = Seek(m, k)
  OBVIOUS
<1>10. n = SetAt(b, t, k)
  <2>1. PICK o : o = [m EXCEPT !.recs = R, !.first = IF @ = None THEN k ELSE @, !.last = k, !.rnum = @ + 1]
    OBVIOUS
  <2>2. o = [top |-> m.top, recs |-> R, first |-> IF m.first = None THEN k ELSE m.first, last |-> k,
             cur |-> m.cur, rnum |-> m.rnum + 1, msiz |-> m.msiz]
    BY <1>1, <2>1 DEF IsMap
  <2>3. o = b
    BY <1>8, <2>2
  <2>4. n = SetAt(o, t, k)
    BY <1>4, <1>9, <2>1 DEF Attached
  <2> QED
    BY <2>3, <2>4
<1>11. /\ b.top = m.top /\ b.recs = R /\ b.first = a /\ b.last = k /\ b.cur = m.cur
       /\ b.rnum = m.rnum + 1
  BY <1>8
<1>12. IsMap(b, E)
  BY <1>1, <1>7, <1>8, <1>11 DEF IsMap
<1>13. PICK f : Descends(D, at, k, f) /\ t = f[Home(k)]
  BY <1>2, <1>3, <1>9, SeekDescends
<1>14. t \in SlotsOf(D) /\ t \in SlotsOf(E)
  <2>1. t \in SlotsOf(D)
    BY <1>3, <1>13, PathExists
  <2> QED
    BY <1>4, <2>1 DEF SlotsOf
<1>15. Repointed(n, b, E, t, k)
  BY <1>10, <1>12, <1>14, SetAtPoints
<1>16. ASSUME NEW s \in SlotsOf(E)
       PROVE  At(b, s) = IF s \in SlotsOf(D) THEN at[s] ELSE None
  <2>1. ASSUME NEW c \in Buckets, s = <<"bucket", c>>
        PROVE  At(b, s) = at[s] /\ s \in SlotsOf(D)
    <3>1. At(b, s) = m.top[c] /\ At(m, s) = m.top[c]
      BY <1>11, <2>1, AtBucket
    <3>2. s \in SlotsOf(D)
      BY <2>1, SlotIn
    <3> QED
      BY <1>3, <3>1, <3>2 DEF AtOf
  <2>2. ASSUME NEW g \in Sides, NEW x \in E, s = <<g, x>>
        PROVE  At(b, s) = IF s \in SlotsOf(D) THEN at[s] ELSE None
    <3>1. At(b, s) = IF g = "left" THEN R[x].left ELSE R[x].right
      BY <1>11, <2>2, AtSide
    <3>2. CASE x = k
      <4>1. s \notin SlotsOf(D)
        BY <2>2, <3>2, TwoSides DEF SlotsOf
      <4>2. R[x] = new
        BY <1>7, <3>2
      <4> QED
        BY <1>4, <3>1, <4>1, <4>2
    <3>3. CASE x # k
      <4>1. x \in D /\ s \in SlotsOf(D) /\ R[x] = old[x]
        BY <1>4, <1>7, <2>2, <3>3, SlotIn
      <4>2. At(m, s) = IF g = "left" THEN m.recs[x].left ELSE m.recs[x].right
        BY <2>2, AtSide
      <4>3. at[s] = At(m, s)
        BY <1>3, <4>1 DEF AtOf
      <4> QED
        BY <1>6, <3>1, <4>1, <4>2, <4>3 DEF SameKids
    <3> QED
      BY <3>2, <3>3
  <2> QED
    BY <2>1, <2>2, SlotKinds
<1>17. \E sub2 : Tree(E, AtOf(n, E), sub2)
  <2>1. AtOf(n, E) = [s \in SlotsOf(E) |-> IF s = t THEN k ELSE IF s \in SlotsOf(D) THEN at[s] ELSE None]
    BY <1>15, <1>16 DEF AtOf, Repointed
  <2> QED
    BY <1>3, <1>4, <1>13, <2>1, Planted
<1>18. /\ IsMap(n, E) /\ n.first = a /\ n.last = k /\ n.cur = m.cur /\ n.rnum = m.rnum + 1
       /\ SameLinks(n.recs, R, E) /\ SameVals(n.recs, R, E)
  BY <1>11, <1>15 DEF Repointed
<1>19. /\ n.recs[k].val = v /\ SameVals(n.recs, m.recs, D)
       /\ n.recs[k].prev = l /\ n.recs[k].next = None
       /\ \A x \in D : n.recs[x].next = old[x].next /\ n.recs[x].prev = old[x].prev
  <2>1. \A x \in D : x \in E /\ x # k /\ R[x] = old[x]
    BY <1>4, <1>7
  <2>2. k \in E /\ R[k] = new
    BY <1>4, <1>7
  <2>3. n.recs[k].val = v /\ n.recs[k].prev = l /\ n.recs[k].next = None
    <3>1. new.val = v /\ new.prev = l /\ new.next = None
      BY <1>4
    <3> QED
      BY <1>18, <2>2, <3>1 DEF SameLinks, SameVals
  <2>4. \A x \in D : n.recs[x].next = old[x].next /\ n.recs[x].prev = old[x].prev
    BY <1>18, <2>1 DEF SameLinks
  <2>5. SameVals(n.recs, m.recs, D)
    BY <1>6, <1>18, <2>1 DEF SameVals
  <2> QED
    BY <2>3, <2>4, <2>5
<1>20. Chain(n.recs, E, n.first, n.last, Append(ks, k))
  <2>1. LinkedLast(m.recs, n.recs, D, l, k)
    BY <1>6, <1>19 DEF LinkedLast
  <2>2. Chain(n.recs, E, IF m.first = None THEN k ELSE m.first, k, Append(ks, k))
    BY <1>1, <1>2, <1>4, <1>5, <2>1, ChainAppend
  <2> QED
    BY <1>8, <1>18, <2>2
<1>21. n.rnum = Len(Append(ks, k))
  <2>1. ks \in Seq(D)
    BY <1>1 DEF Chain, Lists
  <2>2. Len(Append(ks, k)) = Len(ks) + 1
    BY <2>1
  <2> QED
    BY <1>1, <1>18, <2>2
<1>22. Good(n, E, Append(ks, k))
  <2>1. E \subseteq Keys /\ n.cur \in Ptr(E)
    BY <1>2, <1>4, <1>18 DEF Ptr
  <2> QED
    BY <1>17, <1>18, <1>20, <1>21, <2>1 DEF Good
<1> QED
  BY <1>4, <1>18, <1>19, <1>22

\* n is m without k in the trees; the list is the same.
Unplanted(n, m, D, E) ==
  /\ IsMap(n, D) /\ n.first = m.first /\ n.last = m.last /\ n.cur = m.cur /\ n.rnum = m.rnum
  /\ SameLinks(n.recs, m.recs, D) /\ SameVals(n.recs, m.recs, D)
  /\ \E sub : Tree(E, AtOf(n, E), sub)

\* The subtrees of a record take its place.
LEMMA JoinedKeeps ==
  ASSUME NEW m, NEW D, IsMap(m, D), None \notin D, NEW at, at = AtOf(m, D), NEW sub, Tree(D, at, sub),
         NEW k \in D, NEW s \in SlotsOf(D), at[s] = k, NEW E, E = D \ {k},
         NEW n, n = Joined(m, s, k)
  PROVE  Unplanted(n, m, D, E)
<1>1. PICK l, q : l = m.recs[k].left /\ q = m.recs[k].right
  OBVIOUS
<1>2. at[<<"left", k>>] = l /\ at[<<"right", k>>] = q
  BY <1>1, AtIs DEF AtOf
<1>3. SlotsOf(E) \subseteq SlotsOf(D) /\ \A t \in SlotsOf(D) : at[t] = At(m, t)
  <2>1. SlotsOf(E) \subseteq SlotsOf(D)
    BY SlotsWithout
  <2> QED
    BY <2>1 DEF AtOf
<1>4. ASSUME NEW c, n = SetAt(m, s, c), \/ l = None /\ c = q
                                        \/ q = None /\ c = l
      PROVE  /\ Repointed(n, m, D, s, c)
             /\ \E sub2 : Tree(E, AtOf(n, E), sub2)
  <2>1. Repointed(n, m, D, s, c)
    BY <1>4, SetAtPoints
  <2>2. AtOf(n, E) = [t \in SlotsOf(E) |-> IF t = s THEN c ELSE at[t]]
    BY <1>3, <2>1 DEF Repointed, AtOf
  <2>3. \/ at[<<"left", k>>] = None /\ c = at[<<"right", k>>]
        \/ at[<<"right", k>>] = None /\ c = at[<<"left", k>>]
    BY <1>2, <1>4
  <2> QED
    BY <2>1, <2>2, <2>3, ChildLifted
<1>5. CASE l = None
  <2>1. n = SetAt(m, s, q)
    BY <1>1, <1>5 DEF Joined
  <2> QED
    BY <1>4, <1>5, <2>1 DEF Repointed, Unplanted
<1>6. CASE l # None /\ q = None
  <2>1. n = SetAt(m, s, l)
    BY <1>1, <1>6 DEF Joined
  <2> QED
    BY <1>4, <1>6, <2>1 DEF Repointed, Unplanted
<1>7. CASE l # None /\ q # None
  <2>1. DOMAIN m.recs = D
    BY DEF IsMap, Nodes
  <2>2. l \in D
    <3>1. at[<<"left", k>>] \in Ptr(D)
      BY SlotIn, TwoSides DEF Tree
    <3> QED
      BY <1>2, <1>7, <3>1 DEF Ptr
  <2>3. PICK w : GoesRight(D, at, w) /\ Rightmost(m, l) = w[l]
    BY <2>1, <2>2, RightmostWalks
  <2>4. PICK e, z, b : e = w[l] /\ z = <<"right", e>> /\ b = SetAt(m, z, q)
    OBVIOUS
  <2>5. n = SetAt(b, s, l)
    <3>1. z[1] = "right" /\ z[2] = e
      BY <2>4
    <3>2. b = [m EXCEPT !.recs[e]["right"] = q]
      BY <2>4, <3>1 DEF SetAt
    <3>3. n = SetAt([m EXCEPT !.recs[e].right = q], s, l)
      BY <1>1, <1>7, <2>3, <2>4 DEF Joined
    <3>4. [m EXCEPT !.recs[e].right = q] = [m EXCEPT !.recs[e]["right"] = q]
      OBVIOUS
    <3> QED
      BY <3>2, <3>3, <3>4
  <2>6. e \in D
    BY <2>2, <2>3, <2>4 DEF GoesRight
  <2>7. z \in SlotsOf(D)
    BY <2>4, <2>6, SlotIn, TwoSides
  <2>8. Repointed(b, m, D, z, q)
    BY <2>4, <2>7, SetAtPoints
  <2>9. Repointed(n, b, D, s, l)
    <3>1. IsMap(b, D)
      BY <2>8 DEF Repointed
    <3> QED
      BY <2>5, <3>1, SetAtPoints
  <2>10. AtOf(n, E)
           = [t \in SlotsOf(E) |-> IF t = s THEN l ELSE IF t = <<"right", e>> THEN q ELSE at[t]]
    BY <1>3, <2>4, <2>8, <2>9 DEF Repointed, AtOf
  <2>11. \E sub2 : Tree(E, AtOf(n, E), sub2)
    <3>1. PICK new : new = Rejoined(at, E, s, l, e, q)
      OBVIOUS
    <3>2. \E sub2 : Tree(E, new, sub2)
      <4>1. l = at[<<"left", k>>] /\ q = at[<<"right", k>>] /\ e = w[l]
        BY <1>2, <2>4
      <4>2. GoesRight(D, at, w) /\ l # None /\ q # None
        BY <1>7, <2>3
      <4> QED
        BY <3>1, <4>1, <4>2, ChildrenJoined
    <3> QED
      BY <2>10, <3>1, <3>2 DEF Rejoined
  <2> QED
    BY <2>8, <2>9, <2>11 DEF Repointed, Unplanted, SameLinks, SameVals
<1> QED
  BY <1>5, <1>6, <1>7

\* A removal bridges the record, joins what hung below it, and forgets it.
Bare(m, k) ==
  [m EXCEPT !.recs = Bridged(@, k),
            !.first = IF @ = k THEN m.recs[k].next ELSE @,
            !.last = IF @ = k THEN m.recs[k].prev ELSE @,
            !.cur = CurPast(m, k), !.rnum = @ - 1]

LEMMA BareIs ==
  ASSUME NEW m, NEW D, IsMap(m, D), NEW k
  PROVE  Bare(m, k) = [top |-> m.top, recs |-> Bridged(m.recs, k),
                       first |-> IF m.first = k THEN m.recs[k].next ELSE m.first,
                       last |-> IF m.last = k THEN m.recs[k].prev ELSE m.last,
                       cur |-> CurPast(m, k), rnum |-> m.rnum - 1, msiz |-> m.msiz]
<1>1. PICK fs, ls, c, r, R : /\ fs = (IF m.first = k THEN m.recs[k].next ELSE m.first)
                            /\ ls = (IF m.last = k THEN m.recs[k].prev ELSE m.last)
                            /\ c = CurPast(m, k) /\ r = m.rnum - 1 /\ R = Bridged(m.recs, k)
  OBVIOUS
<1>2. PICK n : n = [m EXCEPT !.recs = R, !.first = fs, !.last = ls, !.cur = c, !.rnum = r]
  OBVIOUS
<1>3. Bare(m, k) = n
  BY <1>1, <1>2 DEF Bare
<1>4. n = [top |-> m.top, recs |-> R, first |-> fs, last |-> ls, cur |-> c, rnum |-> r, msiz |-> m.msiz]
  BY <1>2 DEF IsMap
<1> QED
  BY <1>1, <1>3, <1>4

\* The record k is taken out of the records, and its value v is not counted.
Forgotten(j, k, v) == Sized([j EXCEPT !.recs = [r \in DOMAIN @ \ {k} |-> @[r]]], - Size(v))

LEMMA RemovedIs ==
  ASSUME NEW m, NEW k
  PROVE  Removed(m, k) = Forgotten(Joined(Bare(m, k), Seek(m, k), k), k, m.recs[k].val)
BY DEF Removed, Bare, Forgotten

\* A record that goes leaves a map without it, and the iterator on it goes on.
LEMMA RemovedGood ==
  ASSUME NEW m, NEW D, NEW ks, Good(m, D, ks), NEW i \in 1 .. Len(ks), NEW k, k = ks[i],
         NEW n, n = Removed(m, k)
  PROVE  /\ Good(n, D \ {k}, Skipped(ks, i)) /\ n.cur = CurPast(m, k)
         /\ SameVals(n.recs, m.recs, D \ {k})
<1>1. /\ IsMap(m, D) /\ Nodes(m.recs, D) /\ Chain(m.recs, D, m.first, m.last, ks)
      /\ m.rnum = Len(ks)
  BY DEF Good, IsMap
<1>2. /\ D \subseteq Keys /\ None \notin D /\ m.first \in Ptr(D) /\ m.last \in Ptr(D) /\ m.cur \in Ptr(D)
      /\ \A x \in D : m.recs[x].next \in Ptr(D) /\ m.recs[x].prev \in Ptr(D)
      /\ Len(ks) \in Nat /\ DOMAIN m.recs = D
  BY GoodMap
<1>3. k \in D /\ k # None /\ Lists(ks, D)
  <2>1. Lists(ks, D) /\ ks \in Seq(D)
    BY <1>1 DEF Chain, Lists
  <2>2. ks[i] \in D
    BY <2>1, ElementOfSeq
  <2> QED
    BY <1>2, <2>1, <2>2
<1>4. PICK at, sub : at = AtOf(m, D) /\ Tree(D, at, sub)
  BY DEF Good
<1>5. PICK E, s, ls, R : E = D \ {k} /\ s = Seek(m, k) /\ ls = Skipped(ks, i) /\ R = Bridged(m.recs, k)
  OBVIOUS
<1>6. PICK a, z, c, b :
        /\ a = (IF m.first = k THEN m.recs[k].next ELSE m.first)
        /\ z = (IF m.last = k THEN m.recs[k].prev ELSE m.last)
        /\ c = CurPast(m, k)
        /\ b = [top |-> m.top, recs |-> R, first |-> a, last |-> z,
                cur |-> c, rnum |-> m.rnum - 1, msiz |-> m.msiz]
  OBVIOUS
<1>7. PICK j, y : j = Joined(b, s, k) /\ y = Sized([j EXCEPT !.recs = [r \in DOMAIN @ \ {k} |-> @[r]]], - Size(m.recs[k].val)).msiz
  OBVIOUS
<1>8. n = Sized([j EXCEPT !.recs = [r \in DOMAIN @ \ {k} |-> @[r]]], - Size(m.recs[k].val))
  <2>1. Bare(m, k) = [top |-> m.top, recs |-> Bridged(m.recs, k),
                       first |-> IF m.first = k THEN m.recs[k].next ELSE m.first,
                       last |-> IF m.last = k THEN m.recs[k].prev ELSE m.last,
                       cur |-> CurPast(m, k), rnum |-> m.rnum - 1, msiz |-> m.msiz]
    <3>1. IsMap(m, D)
      BY <1>1
    <3> QED
      BY <3>1, BareIs
  <2>2. Bare(m, k) = b
    BY <1>5, <1>6, <2>1
  <2>3. n = Forgotten(j, k, m.recs[k].val)
    BY <1>5, <1>7, <2>2, RemovedIs
  <2> QED
    BY <2>3 DEF Forgotten
<1>9. /\ b.top = m.top /\ b.recs = R /\ b.first = a /\ b.last = z /\ b.cur = c
      /\ b.rnum = m.rnum - 1
  BY <1>6
<1>10. Nodes(R, D) /\ SameKids(R, m.recs, D) /\ SameVals(R, m.recs, D) /\ Cut(m.recs, R, D, k)
  BY <1>1, <1>2, <1>3, <1>5, BridgedCuts
<1>11. IsMap(b, D)
  BY <1>1, <1>6, <1>9, <1>10 DEF IsMap
<1>12. at = AtOf(b, D)
  BY <1>4, <1>9, <1>10, SameAt
<1>13. s \in SlotsOf(D) /\ at[s] = k
  <2>1. k \in Keys
    BY <1>2, <1>3
  <2>2. PICK f : Descends(D, at, k, f) /\ s = f[Home(k)]
    BY <1>2, <1>4, <1>5, <2>1, SeekDescends
  <2> QED
    BY <1>3, <1>4, <2>2, SlotUnique
<1>14. /\ IsMap(j, D) /\ j.first = b.first /\ j.last = b.last /\ j.cur = b.cur /\ j.rnum = b.rnum
       /\ SameLinks(j.recs, b.recs, D) /\ SameVals(j.recs, b.recs, D)
       /\ \E sub2 : Tree(E, AtOf(j, E), sub2)
  <2>1. IsMap(b, D) /\ None \notin D /\ at = AtOf(b, D) /\ Tree(D, at, sub) /\ k \in D
    BY <1>2, <1>3, <1>4, <1>11, <1>12
  <2>2. s \in SlotsOf(D) /\ at[s] = k /\ E = D \ {k} /\ j = Joined(b, s, k)
    BY <1>5, <1>7, <1>13
  <2>3. Unplanted(j, b, D, E)
    BY <2>1, <2>2, JoinedKeeps
  <2> QED
    BY <2>3 DEF Unplanted
<1>15. PICK S : S = [r \in E |-> j.recs[r]]
  OBVIOUS
<1>16. n = [top |-> j.top, recs |-> S, first |-> a, last |-> z,
            cur |-> c, rnum |-> m.rnum - 1, msiz |-> (j.msiz + (- Size(m.recs[k].val))) % Word]
  <2>1. DOMAIN j.recs = D
    BY <1>14 DEF IsMap, Nodes
  <2>2. [j EXCEPT !.recs = [r \in DOMAIN @ \ {k} |-> @[r]]] = [j EXCEPT !.recs = S]
    BY <1>5, <1>15, <2>1
  <2>3. n = [[j EXCEPT !.recs = S] EXCEPT !.msiz = (@ + (- Size(m.recs[k].val))) % Word]
    BY <1>8, <2>2 DEF Sized
  <2> QED
    BY <1>9, <1>14, <2>3 DEF IsMap
<1>17. /\ n.top = j.top /\ n.recs = S /\ n.first = a /\ n.last = z /\ n.cur = c
       /\ n.rnum = m.rnum - 1
  BY <1>16
<1>18. IsMap(n, E)
  <2>1. Nodes(S, E)
    BY <1>5, <1>14, <1>15 DEF IsMap, Nodes
  <2> QED
    BY <1>14, <1>16, <1>17, <2>1 DEF IsMap
<1>19. AtOf(n, E) = AtOf(j, E)
  <2>1. ASSUME NEW t \in SlotsOf(E)
        PROVE  At(n, t) = At(j, t)
    <3>1. ASSUME NEW d \in Buckets, t = <<"bucket", d>>
          PROVE  At(n, t) = At(j, t)
      BY <1>17, <3>1, AtBucket
    <3>2. ASSUME NEW g \in Sides, NEW x \in E, t = <<g, x>>
          PROVE  At(n, t) = At(j, t)
      <4>1. At(n, t) = IF g = "left" THEN n.recs[x].left ELSE n.recs[x].right
        BY <3>2, AtSide
      <4>2. At(j, t) = IF g = "left" THEN j.recs[x].left ELSE j.recs[x].right
        BY <3>2, AtSide
      <4> QED
        BY <1>15, <1>17, <4>1, <4>2
    <3> QED
      BY <3>1, <3>2, SlotKinds
  <2> QED
    BY <2>1 DEF AtOf
<1>20. SameLinks(n.recs, R, E) /\ SameVals(n.recs, m.recs, E)
  BY <1>5, <1>9, <1>10, <1>14, <1>15, <1>17 DEF SameLinks, SameVals
<1>21. Chain(n.recs, E, n.first, n.last, ls)
  <2>1. Cut(m.recs, n.recs, E, k)
    BY <1>5, <1>10, <1>20 DEF Cut, SameLinks
  <2>2. E = D \ {k} /\ None \notin D /\ Chain(m.recs, D, m.first, m.last, ks)
    BY <1>1, <1>2, <1>5
  <2>3. Chain(n.recs, E, FirstPast(m.recs, m.first, k), LastPast(m.recs, m.last, k), Skipped(ks, i))
    BY <2>1, <2>2, ChainCut
  <2>4. a = FirstPast(m.recs, m.first, k) /\ z = LastPast(m.recs, m.last, k)
    BY <1>6 DEF FirstPast, LastPast
  <2> QED
    BY <1>5, <1>17, <2>3, <2>4
<1>22. n.rnum = Len(ls)
  <2>1. IsSkip(ls, ks, i)
    BY <1>3, <1>5, SkippedLists
  <2> QED
    BY <1>1, <1>17, <2>1 DEF IsSkip
<1>23. c \in Ptr(E)
  <2>1. CASE m.cur = k
    <3>1. c = m.recs[k].next
      BY <1>6, <2>1 DEF CurPast
    <3>2. m.recs[k].next # k
      <4>1. m.recs[k].next = Follower(ks, i)
        BY <1>1 DEF Chain
      <4>2. i # Len(ks) => i + 1 \in 1 .. Len(ks) /\ i + 1 # i
        BY <1>2
      <4> QED
        BY <1>3, <4>1, <4>2 DEF Follower, Lists
    <3> QED
      BY <1>2, <1>3, <1>5, <3>1, <3>2 DEF Ptr
  <2>2. CASE m.cur # k
    BY <1>2, <1>5, <1>6, <2>2 DEF CurPast, Ptr
  <2> QED
    BY <2>1, <2>2
<1>24. Good(n, E, ls)
  <2>1. E \subseteq Keys /\ n.cur \in Ptr(E) /\ \E sub2 : Tree(E, AtOf(n, E), sub2)
    BY <1>2, <1>5, <1>14, <1>17, <1>19, <1>23
  <2> QED
    BY <1>18, <1>21, <1>22, <2>1 DEF Good
<1> QED
  BY <1>5, <1>6, <1>17, <1>20, <1>24

---------------------------------------------------------------------------
(* What a map holds *)

\* m has the keys of D in the order of ks, with the values vs, and its
\* iterator is at c.
Holds(m, D, ks, vs, c) ==
  /\ Good(m, D, ks) /\ vs = [x \in D |-> m.recs[x].val] /\ m.cur = c

\* The values with v for k, and without k.
With(vs, D, k, v) == [x \in D \cup {k} |-> IF x = k THEN v ELSE vs[x]]

Less(vs, D, k) == [x \in D \ {k} |-> vs[x]]

\* The keys with k at the end, and at the beginning.
MovedLast(ks, i) == Append(Skipped(ks, i), ks[i])

MovedFirst(ks, i) == <<ks[i]>> \o Skipped(ks, i)

\* The map without records holds nothing.
LEMMA NewHolds == Holds(NewMap, {}, <<>>, [x \in {} |-> None], None)
<1>1. [x \in {} |-> None] = [x \in {} |-> NewMap.recs[x].val]
  OBVIOUS
<1> QED
  BY <1>1, NewGood DEF Holds

\* The sum of the sizes says nothing about the records.
LEMMA SizedIs ==
  ASSUME NEW m, NEW D, NEW ks, NEW vs, NEW c, Holds(m, D, ks, vs, c), NEW z, NEW n, n = Sized(m, z)
  PROVE  Holds(n, D, ks, vs, c)
<1>1. IsMap(m, D) /\ m.cur \in Ptr(D) /\ Good(m, D, ks)
  BY DEF Holds, Good
<1>2. PICK y : y = (m.msiz + z) % Word
  OBVIOUS
<1>3. n = [m EXCEPT !.msiz = y]
  BY <1>2 DEF Sized
<1>4. n = [top |-> m.top, recs |-> m.recs, first |-> m.first, last |-> m.last,
           cur |-> m.cur, rnum |-> m.rnum, msiz |-> y]
  BY <1>1, <1>3 DEF IsMap
<1>5. /\ n.top = m.top /\ n.recs = m.recs /\ n.first = m.first /\ n.last = m.last
      /\ n.cur = m.cur /\ n.rnum = m.rnum
  BY <1>4
<1>6. IsMap(n, D)
  BY <1>1, <1>4, <1>5 DEF IsMap
<1>7. SameKids(n.recs, m.recs, D) /\ SameLinks(n.recs, m.recs, D)
  BY <1>5 DEF SameKids, SameLinks
<1>8. Good(n, D, ks)
  BY <1>1, <1>5, <1>6, <1>7, KeptGood
<1> QED
  BY <1>5, <1>8 DEF Holds

\* A map with a new record, whose size is not counted yet.
LEMMA AttachedHolds ==
  ASSUME NEW m, NEW D, NEW ks, NEW vs, NEW c, Holds(m, D, ks, vs, c),
         NEW k \in Keys, k \notin D, NEW v, NEW n, n = Attached(m, k, v)
  PROVE  Holds(n, D \cup {k}, Append(ks, k), With(vs, D, k, v), c)
<1>1. Good(m, D, ks) /\ vs = [x \in D |-> m.recs[x].val] /\ m.cur = c
  BY DEF Holds
<1>2. /\ Good(n, D \cup {k}, Append(ks, k)) /\ n.cur = m.cur
      /\ n.recs[k].val = v /\ SameVals(n.recs, m.recs, D)
  BY <1>1, AttachedGood
<1>3. With(vs, D, k, v) = [x \in D \cup {k} |-> n.recs[x].val]
  BY <1>1, <1>2 DEF With, SameVals
<1> QED
  BY <1>1, <1>2, <1>3 DEF Holds

\* A map with a new record (the end of tcmapput for a new key).
LEMMA AddedHolds ==
  ASSUME NEW m, NEW D, NEW ks, NEW vs, NEW c, Holds(m, D, ks, vs, c),
         NEW k \in Keys, k \notin D, NEW v, NEW n, n = Added(m, k, v)
  PROVE  Holds(n, D \cup {k}, Append(ks, k), With(vs, D, k, v), c)
<1>1. PICK a : a = Attached(m, k, v)
  OBVIOUS
<1>2. Holds(a, D \cup {k}, Append(ks, k), With(vs, D, k, v), c)
  BY <1>1, AttachedHolds
<1>3. n = Sized(a, Size(v))
  BY <1>1 DEF Added
<1> QED
  BY <1>2, <1>3, SizedIs

\* A map with another value of a record.
LEMMA ValueHolds ==
  ASSUME NEW m, NEW D, NEW ks, NEW vs, NEW c, Holds(m, D, ks, vs, c),
         NEW k \in D, NEW v, NEW n, n = [m EXCEPT !.recs[k].val = v]
  PROVE  Holds(n, D, ks, With(vs, D, k, v), c)
<1>1. Good(m, D, ks) /\ vs = [x \in D |-> m.recs[x].val] /\ m.cur = c /\ IsMap(m, D)
  BY DEF Holds, Good
<1>4. /\ Good(n, D, ks) /\ n.cur = m.cur
      /\ \A x \in D : n.recs[x].val = IF x = k THEN v ELSE m.recs[x].val
  <2>1. Good(m, D, ks)
    BY <1>1
  <2>2. Good(n, D, ks)
    BY <2>1, ValueGood
  <2>3. n.cur = m.cur
    BY <2>1, <2>2, ValueGood
  <2>4. \A x \in D : n.recs[x].val = IF x = k THEN v ELSE m.recs[x].val
    BY <2>1, <2>2, ValueGood
  <2> QED
    BY <2>2, <2>3, <2>4
<1>5. With(vs, D, k, v) = [x \in D |-> n.recs[x].val]
  <2>1. D \cup {k} = D
    OBVIOUS
  <2> QED
    BY <1>1, <1>4, <2>1 DEF With
<1> QED
  BY <1>1, <1>4, <1>5 DEF Holds

\* The same with the size counted (tcmapput for a stored key).
LEMMA ReplacedHolds ==
  ASSUME NEW m, NEW D, NEW ks, NEW vs, NEW c, Holds(m, D, ks, vs, c),
         NEW k \in D, NEW v, NEW n, n = Replaced(m, k, v)
  PROVE  Holds(n, D, ks, With(vs, D, k, v), c)
<1>1. PICK a : a = [m EXCEPT !.recs[k].val = v]
  OBVIOUS
<1>2. Holds(a, D, ks, With(vs, D, k, v), c)
  BY <1>1, ValueHolds
<1>3. n = Sized(a, Len(v) - Len(m.recs[k].val))
  BY <1>1 DEF Replaced
<1> QED
  BY <1>2, <1>3, SizedIs

\* A key that moves from the end to the end stays.
LEMMA MovedStays ==
  ASSUME NEW D, NEW ks, Lists(ks, D), NEW i \in 1 .. Len(ks)
  PROVE  /\ i = Len(ks) => MovedLast(ks, i) = ks
         /\ i = 1 => MovedFirst(ks, i) = ks
<1>1. PICK n, k, ls, E : n = Len(ks) /\ k = ks[i] /\ ls = Skipped(ks, i) /\ E = D \ {k}
  OBVIOUS
<1>2. ks \in Seq(D) /\ n \in Nat /\ i \in 1 .. n /\ k \in D
  <2>1. ks \in Seq(D)
    BY DEF Lists
  <2> QED
    BY <1>1, <2>1
<1>3. IsSkip(ls, ks, i) /\ Lists(ls, E)
  BY <1>1, SkippedLists
<1>4. /\ Len(ls) = n - 1 /\ ls \in Seq(D)
      /\ \A j \in 1 .. n - 1 : ls[j] = IF j < i THEN ks[j] ELSE ks[j + 1]
  <2>1. ls \in Seq(E)
    BY <1>3 DEF Lists
  <2>2. ls \in Seq(D)
    BY <1>1, <2>1
  <2> QED
    BY <1>1, <1>3, <2>2 DEF IsSkip
<1>5. ASSUME i = n
      PROVE  Append(ls, k) = ks
  <2>1. IsAppend(Append(ls, k), ls, k) /\ Append(ls, k) \in Seq(D)
    <3>1. k \notin E /\ D = E \cup {k}
      BY <1>1, <1>2
    <3> QED
      BY <1>3, <3>1, AppendLists DEF Lists
  <2>2. PICK as : as = Append(ls, k)
    OBVIOUS
  <2>3. Len(as) = n /\ as[n] = k /\ \A j \in 1 .. n - 1 : as[j] = ks[j]
    BY <1>2, <1>4, <1>5, <2>1, <2>2 DEF IsAppend
  <2>4. \A j \in 1 .. n : as[j] = ks[j]
    <3>1. \A j \in 1 .. n : j = n \/ j \in 1 .. n - 1
      BY <1>2
    <3> QED
      BY <1>1, <1>5, <2>3, <3>1
  <2>5. as = ks
    BY <1>1, <1>2, <2>1, <2>2, <2>3, <2>4, SeqEqual
  <2> QED
    BY <2>2, <2>5
<1>6. ASSUME i = 1
      PROVE  <<k>> \o ls = ks
  <2>1. IsPrepend(<<k>> \o ls, ls, k) /\ <<k>> \o ls \in Seq(D)
    <3>1. k \notin E /\ D = E \cup {k}
      BY <1>1, <1>2
    <3> QED
      BY <1>3, <3>1, PrependLists DEF Lists
  <2>2. PICK as : as = <<k>> \o ls
    OBVIOUS
  <2>3. Len(as) = n /\ as[1] = k /\ \A j \in 2 .. n : as[j] = ls[j - 1]
    BY <1>2, <1>4, <2>1, <2>2 DEF IsPrepend
  <2>4. \A j \in 1 .. n : as[j] = ks[j]
    <3>1. ASSUME NEW j \in 2 .. n
          PROVE  as[j] = ks[j]
      <4>1. j - 1 \in 1 .. n - 1 /\ ~(j - 1 < i) /\ j - 1 + 1 = j
        BY <1>2, <1>6
      <4> QED
        BY <1>4, <2>3, <4>1
    <3>2. \A j \in 1 .. n : j = 1 \/ j \in 2 .. n
      BY <1>2
    <3> QED
      BY <1>1, <1>6, <2>3, <3>1, <3>2
  <2>5. as = ks
    BY <1>1, <1>2, <2>1, <2>2, <2>3, <2>4, SeqEqual
  <2> QED
    BY <2>2, <2>5
<1> QED
  BY <1>1, <1>5, <1>6 DEF MovedLast, MovedFirst

\* The record at i moves to the end (tcmapmove, tcmapget3).
LEMMA ToLastHolds ==
  ASSUME NEW m, NEW D, NEW ks, NEW vs, NEW c, Holds(m, D, ks, vs, c),
         NEW i \in 1 .. Len(ks), NEW k, k = ks[i], NEW n, n = ToLast(m, k)
  PROVE  Holds(n, D, MovedLast(ks, i), vs, c)
<1>1. Good(m, D, ks) /\ vs = [x \in D |-> m.recs[x].val] /\ m.cur = c
  BY DEF Holds
<1>2. CASE m.last # k
  <2>1. /\ Good(n, D, Append(Skipped(ks, i), k)) /\ n.cur = m.cur
        /\ SameVals(n.recs, m.recs, D)
    BY <1>1, <1>2, ToLastGood
  <2> QED
    BY <1>1, <2>1 DEF Holds, MovedLast, SameVals
<1>3. CASE m.last = k
  <2>1. n = m
    BY <1>3 DEF ToLast
  <2>2. Lists(ks, D) /\ ks \in Seq(D) /\ m.last = Preceder(ks, Len(ks) + 1)
    BY <1>1 DEF Good, Chain, Lists
  <2>3. i = Len(ks)
    <3>1. Len(ks) \in Nat /\ Len(ks) \in 1 .. Len(ks)
      BY <2>2
    <3>2. m.last = ks[Len(ks)]
      BY <2>2, <3>1 DEF Preceder
    <3> QED
      BY <1>3, <2>2, <3>1, <3>2 DEF Lists
  <2>4. MovedLast(ks, i) = ks
    BY <2>2, <2>3, MovedStays
  <2> QED
    BY <2>1, <2>4
<1> QED
  BY <1>2, <1>3

\* The record at i moves to the front (tcmapmove).
LEMMA ToFirstHolds ==
  ASSUME NEW m, NEW D, NEW ks, NEW vs, NEW c, Holds(m, D, ks, vs, c),
         NEW i \in 1 .. Len(ks), NEW k, k = ks[i], NEW n, n = ToFirst(m, k)
  PROVE  Holds(n, D, MovedFirst(ks, i), vs, c)
<1>1. Good(m, D, ks) /\ vs = [x \in D |-> m.recs[x].val] /\ m.cur = c
  BY DEF Holds
<1>2. CASE m.first # k
  <2>1. /\ Good(n, D, <<k>> \o Skipped(ks, i)) /\ n.cur = m.cur
        /\ SameVals(n.recs, m.recs, D)
    BY <1>1, <1>2, ToFirstGood
  <2> QED
    BY <1>1, <2>1 DEF Holds, MovedFirst, SameVals
<1>3. CASE m.first = k
  <2>1. n = m
    BY <1>3 DEF ToFirst
  <2>2. Lists(ks, D) /\ ks \in Seq(D) /\ m.first = Follower(ks, 0)
    BY <1>1 DEF Good, Chain, Lists
  <2>3. i = 1
    <3>1. Len(ks) \in Nat /\ 1 \in 1 .. Len(ks)
      BY <2>2
    <3>2. m.first = ks[1]
      BY <2>2, <3>1 DEF Follower
    <3> QED
      BY <1>3, <2>2, <3>1, <3>2 DEF Lists
  <2>4. MovedFirst(ks, i) = ks
    BY <2>2, <2>3, MovedStays
  <2> QED
    BY <2>1, <2>4
<1> QED
  BY <1>2, <1>3

\* The iterator on a record that goes moves to the next one.
Past(ks, i, c) == IF c = ks[i] THEN Follower(ks, i) ELSE c

\* The record at i goes (tcmapout).
LEMMA RemovedHolds ==
  ASSUME NEW m, NEW D, NEW ks, NEW vs, NEW c, Holds(m, D, ks, vs, c),
         NEW i \in 1 .. Len(ks), NEW k, k = ks[i], NEW n, n = Removed(m, k)
  PROVE  Holds(n, D \ {k}, Skipped(ks, i), Less(vs, D, k), Past(ks, i, c))
<1>1. Good(m, D, ks) /\ vs = [x \in D |-> m.recs[x].val] /\ m.cur = c
  BY DEF Holds
<1>2. /\ Good(n, D \ {k}, Skipped(ks, i)) /\ n.cur = CurPast(m, k)
      /\ SameVals(n.recs, m.recs, D \ {k})
  <2>1. Good(m, D, ks)
    BY <1>1
  <2>2. Good(n, D \ {k}, Skipped(ks, i)) /\ SameVals(n.recs, m.recs, D \ {k})
    BY <2>1, RemovedGood
  <2>3. n.cur = CurPast(m, k)
    BY <2>1, <2>2, RemovedGood
  <2> QED
    BY <2>2, <2>3
<1>3. m.recs[k].next = Follower(ks, i)
  BY <1>1 DEF Good, Chain
<1>4. n.cur = Past(ks, i, c)
  BY <1>1, <1>2, <1>3 DEF CurPast, Past
<1>5. Less(vs, D, k) = [x \in D \ {k} |-> n.recs[x].val]
  BY <1>1, <1>2 DEF Less, SameVals
<1> QED
  BY <1>2, <1>4, <1>5 DEF Holds

\* The iterator is put on a record, or on none.
LEMMA CurHolds ==
  ASSUME NEW m, NEW D, NEW ks, NEW vs, NEW c, Holds(m, D, ks, vs, c),
         NEW d \in Ptr(D), NEW n, n = [m EXCEPT !.cur = d]
  PROVE  Holds(n, D, ks, vs, d)
<1>1. Good(m, D, ks) /\ vs = [x \in D |-> m.recs[x].val]
  BY DEF Holds
<1>2. Good(n, D, ks) /\ n.cur = d /\ n.recs = m.recs
  BY <1>1, CurGood
<1> QED
  BY <1>1, <1>2 DEF Holds

---------------------------------------------------------------------------
(* The calls on one record, and the iterator *)

\* Where k is in ks, ks without k, and the key behind it.
PlaceOf(ks, k) == CHOOSE i \in 1 .. Len(ks) : ks[i] = k

Dropped(ks, D, k) == IF k \in D THEN Skipped(ks, PlaceOf(ks, k)) ELSE ks

Behind(ks, k) == Follower(ks, PlaceOf(ks, k))

\* A stored key has its place in the list.
LEMMA PlaceIs ==
  ASSUME NEW D, NEW ks, Lists(ks, D), NEW k \in D
  PROVE  PlaceOf(ks, k) \in 1 .. Len(ks) /\ ks[PlaceOf(ks, k)] = k
<1>1. \E i \in 1 .. Len(ks) : ks[i] = k
  BY DEF Lists
<1> QED
  BY <1>1 DEF PlaceOf

\* What follows at once from what a map holds.
LEMMA HoldsFacts ==
  ASSUME NEW m, NEW D, NEW ks, NEW vs, NEW c, Holds(m, D, ks, vs, c)
  PROVE  /\ Good(m, D, ks) /\ Lists(ks, D) /\ D \subseteq Keys /\ None \notin D
         /\ \A k \in Keys : MapHas(m, k) <=> k \in D
         /\ vs = [x \in D |-> m.recs[x].val] /\ m.cur = c /\ c \in Ptr(D)
         /\ \A x \in D : m.recs[x].val = vs[x]
<1>1. Good(m, D, ks) /\ vs = [x \in D |-> m.recs[x].val] /\ m.cur = c
  BY DEF Holds
<1>2. Lists(ks, D) /\ c \in Ptr(D)
  BY <1>1 DEF Good, Chain
<1> QED
  BY <1>1, <1>2, HasIs, GoodMap

\* A call that stores a record leaves one with a key in its place, or at the end.
LEMMA PutHolds ==
  ASSUME NEW m, NEW D, NEW ks, NEW vs, NEW c, Holds(m, D, ks, vs, c),
         NEW k \in Keys, NEW v, NEW n,
         n = IF k \in D THEN Replaced(m, k, v) ELSE Added(m, k, v)
  PROVE  Holds(n, D \cup {k}, IF k \in D THEN ks ELSE Append(ks, k), With(vs, D, k, v), c)
<1>1. CASE k \in D
  <2>1. Holds(n, D, ks, With(vs, D, k, v), c)
    BY <1>1, ReplacedHolds
  <2>2. D \cup {k} = D
    BY <1>1
  <2> QED
    BY <1>1, <2>1, <2>2
<1>2. CASE k \notin D
  <2>1. Holds(n, D \cup {k}, Append(ks, k), With(vs, D, k, v), c)
    BY <1>2, AddedHolds
  <2> QED
    BY <1>2, <2>1
<1> QED
  BY <1>1, <1>2

\* tcmapput3 and tcmapputcat3: the record moves to the end.
LEMMA Put3Holds ==
  ASSUME NEW m, NEW D, NEW ks, NEW vs, NEW c, Holds(m, D, ks, vs, c),
         NEW k \in Keys, NEW v, NEW n,
         n = IF k \in D THEN ToLast(Replaced(m, k, v), k) ELSE Added(m, k, v)
  PROVE  Holds(n, D \cup {k}, Append(Dropped(ks, D, k), k), With(vs, D, k, v), c)
<1>1. CASE k \in D
  <2>1. PICK r : r = Replaced(m, k, v)
    OBVIOUS
  <2>2. Holds(r, D, ks, With(vs, D, k, v), c)
    BY <1>1, <2>1, ReplacedHolds
  <2>3. PICK i : i = PlaceOf(ks, k)
    OBVIOUS
  <2>4. i \in 1 .. Len(ks) /\ k = ks[i]
    BY <1>1, <2>3, HoldsFacts, PlaceIs
  <2>5. n = ToLast(r, k)
    BY <1>1, <2>1
  <2>6. Holds(n, D, MovedLast(ks, i), With(vs, D, k, v), c)
    BY <2>2, <2>4, <2>5, ToLastHolds
  <2>7. D \cup {k} = D /\ MovedLast(ks, i) = Append(Dropped(ks, D, k), k)
    BY <1>1, <2>3, <2>4 DEF MovedLast, Dropped
  <2> QED
    BY <2>6, <2>7
<1>2. CASE k \notin D
  <2>1. Holds(n, D \cup {k}, Append(ks, k), With(vs, D, k, v), c)
    BY <1>2, AddedHolds
  <2> QED
    BY <1>2, <2>1 DEF Dropped
<1> QED
  BY <1>1, <1>2

\* tcmapout of a stored key.
LEMMA OutHolds ==
  ASSUME NEW m, NEW D, NEW ks, NEW vs, NEW c, Holds(m, D, ks, vs, c),
         NEW k \in D, NEW n, n = Removed(m, k)
  PROVE  Holds(n, D \ {k}, Dropped(ks, D, k), Less(vs, D, k), IF c = k THEN Behind(ks, k) ELSE c)
<1>1. PICK i : i = PlaceOf(ks, k)
  OBVIOUS
<1>2. i \in 1 .. Len(ks) /\ k = ks[i]
  BY <1>1, HoldsFacts, PlaceIs
<1>3. Holds(n, D \ {k}, Skipped(ks, i), Less(vs, D, k), Past(ks, i, c))
  BY <1>2, RemovedHolds
<1> QED
  BY <1>1, <1>2, <1>3 DEF Dropped, Behind, Past

\* A stored key moves to the end.
LEMMA LastHolds ==
  ASSUME NEW m, NEW D, NEW ks, NEW vs, NEW c, Holds(m, D, ks, vs, c),
         NEW k \in D, NEW n, n = ToLast(m, k)
  PROVE  Holds(n, D, Append(Dropped(ks, D, k), k), vs, c)
<1>1. PICK i : i = PlaceOf(ks, k)
  OBVIOUS
<1>2. i \in 1 .. Len(ks) /\ k = ks[i]
  BY <1>1, HoldsFacts, PlaceIs
<1>3. Holds(n, D, MovedLast(ks, i), vs, c)
  BY <1>2, ToLastHolds
<1> QED
  BY <1>1, <1>2, <1>3 DEF Dropped, MovedLast

\* A stored key moves to the front.
LEMMA FirstHolds ==
  ASSUME NEW m, NEW D, NEW ks, NEW vs, NEW c, Holds(m, D, ks, vs, c),
         NEW k \in D, NEW n, n = ToFirst(m, k)
  PROVE  Holds(n, D, <<k>> \o Dropped(ks, D, k), vs, c)
<1>1. PICK i : i = PlaceOf(ks, k)
  OBVIOUS
<1>2. i \in 1 .. Len(ks) /\ k = ks[i]
  BY <1>1, HoldsFacts, PlaceIs
<1>3. Holds(n, D, MovedFirst(ks, i), vs, c)
  BY <1>2, ToFirstHolds
<1> QED
  BY <1>1, <1>2, <1>3 DEF Dropped, MovedFirst

\* The three calls that place the iterator.
LEMMA IterHolds ==
  ASSUME NEW m, NEW D, NEW ks, NEW vs, NEW c, Holds(m, D, ks, vs, c)
  PROVE  /\ Holds(MapIterInit(m), D, ks, vs, Follower(ks, 0))
         /\ Holds(MapIterNext(m), D, ks, vs, IF c = None THEN None ELSE Behind(ks, c))
         /\ \A k \in Keys : Holds(MapIterInit2(m, k), D, ks, vs, IF k \in D THEN k ELSE c)
<1>1. /\ Good(m, D, ks) /\ Lists(ks, D) /\ m.cur = c /\ c \in Ptr(D)
      /\ \A k \in Keys : MapHas(m, k) <=> k \in D
  BY HoldsFacts
<1>2. m.first = Follower(ks, 0) /\ m.first \in Ptr(D) /\ \A x \in D : m.recs[x].next \in Ptr(D)
  BY <1>1, GoodMap DEF Good, Chain
<1>3. Holds(MapIterInit(m), D, ks, vs, Follower(ks, 0))
  BY <1>2, CurHolds DEF MapIterInit
<1>4. Holds(MapIterNext(m), D, ks, vs, IF c = None THEN None ELSE Behind(ks, c))
  <2>1. CASE c = None
    BY <1>1, <2>1 DEF MapIterNext
  <2>2. CASE c # None
    <3>1. c \in D
      BY <1>1, <2>2 DEF Ptr
    <3>2. PICK d : d = m.recs[c].next
      OBVIOUS
    <3>3. d = Behind(ks, c) /\ d \in Ptr(D)
      <4>1. PlaceOf(ks, c) \in 1 .. Len(ks) /\ ks[PlaceOf(ks, c)] = c
        BY <1>1, <3>1, PlaceIs
      <4> QED
        BY <1>1, <1>2, <3>1, <3>2, <4>1 DEF Good, Chain, Behind
    <3>4. MapIterNext(m) = [m EXCEPT !.cur = d]
      <4>1. MapIterNext(m) = [m EXCEPT !.cur = m.recs[@].next]
        BY <1>1, <2>2 DEF MapIterNext
      <4>2. PICK o : o = [m EXCEPT !.cur = m.recs[@].next]
        OBVIOUS
      <4>3. PICK p : p = [m EXCEPT !.cur = d]
        OBVIOUS
      <4>4. IsMap(m, D)
        BY <1>1 DEF Good
      <4>5. o = [top |-> m.top, recs |-> m.recs, first |-> m.first, last |-> m.last,
                 cur |-> m.recs[m.cur].next, rnum |-> m.rnum, msiz |-> m.msiz]
        BY <4>2, <4>4 DEF IsMap
      <4>6. p = [top |-> m.top, recs |-> m.recs, first |-> m.first, last |-> m.last,
                 cur |-> d, rnum |-> m.rnum, msiz |-> m.msiz]
        BY <4>3, <4>4 DEF IsMap
      <4> QED
        BY <1>1, <3>2, <4>1, <4>2, <4>3, <4>5, <4>6
    <3>5. Holds(MapIterNext(m), D, ks, vs, d)
      BY <3>3, <3>4, CurHolds
    <3> QED
      BY <2>2, <3>3, <3>5
  <2> QED
    BY <2>1, <2>2
<1>5. ASSUME NEW k \in Keys
      PROVE  Holds(MapIterInit2(m, k), D, ks, vs, IF k \in D THEN k ELSE c)
  <2>1. CASE k \in D
    <3>1. MapIterInit2(m, k) = [m EXCEPT !.cur = k] /\ k \in Ptr(D)
      BY <1>1, <2>1 DEF MapIterInit2, Ptr
    <3>2. Holds(MapIterInit2(m, k), D, ks, vs, k)
      BY <3>1, CurHolds
    <3> QED
      BY <2>1, <3>2
  <2>2. CASE k \notin D
    BY <1>1, <2>2 DEF MapIterInit2
  <2> QED
    BY <2>1, <2>2
<1> QED
  BY <1>3, <1>4, <1>5

---------------------------------------------------------------------------
(* Records cut from the front *)

CutOne(m) == IF m.cur = None THEN m ELSE MapOut(MapIterNext(m), m.cur)

\* The rest of ks behind the place j, and its keys.
Rest(ks, j) == SubSeq(ks, j + 1, Len(ks))

RestKeys(ks, j) == {ks[i] : i \in j + 1 .. Len(ks)}

\* The values of the keys of E.
Of(vs, E) == [x \in E |-> vs[x]]

\* m is what is left when j records are gone, with the iterator on the first.
LeftAfter(m, ks, vs, j) ==
  Holds(m, RestKeys(ks, j), Rest(ks, j), Of(vs, RestKeys(ks, j)), Follower(Rest(ks, j), 0))

\* One record more goes from the front, by way of the iterator.
LEMMA CutOneHolds ==
  ASSUME NEW D, NEW ks, Lists(ks, D), NEW vs, NEW j \in Nat, NEW m, LeftAfter(m, ks, vs, j),
         NEW n, n = CutOne(m)
  PROVE  LeftAfter(n, ks, vs, j + 1)
<1>1. PICK h, E, rs : h = Len(ks) /\ E = RestKeys(ks, j) /\ rs = Rest(ks, j)
  OBVIOUS
<1>2. PICK c, ws : c = Follower(rs, 0) /\ ws = Of(vs, E)
  OBVIOUS
<1>3. Holds(m, E, rs, ws, c)
  BY <1>1, <1>2 DEF LeftAfter
<1>4. /\ Good(m, E, rs) /\ Lists(rs, E) /\ E \subseteq Keys /\ None \notin E /\ m.cur = c
  BY <1>3, HoldsFacts
<1>5. /\ ks \in Seq(D) /\ h \in Nat /\ \A i \in 1 .. h : ks[i] \in D
      /\ \A a, b \in 1 .. h : ks[a] = ks[b] => a = b
  BY <1>1 DEF Lists
<1>6. CASE h <= j
  <2>1. /\ Rest(ks, j) = <<>> /\ Rest(ks, j + 1) = <<>>
        /\ RestKeys(ks, j) = {} /\ RestKeys(ks, j + 1) = {}
    <3>1. SubSeq(ks, j + 1, h) = <<>>
      BY <1>5, <1>6, SubSeqEmpty
    <3>2. SubSeq(ks, j + 1 + 1, h) = <<>>
      BY <1>5, <1>6, SubSeqEmpty
    <3>3. j + 1 .. h = {} /\ j + 1 + 1 .. h = {}
      BY <1>5, <1>6
    <3> QED
      BY <1>1, <3>1, <3>2, <3>3 DEF Rest, RestKeys
  <2>2. c = None
    BY <1>1, <1>2, <2>1 DEF Follower
  <2>3. n = m
    BY <1>4, <2>2 DEF CutOne
  <2> QED
    BY <2>1, <2>3 DEF LeftAfter
<1>7. CASE ~(h <= j)
  <2>1. PICK k : k = ks[j + 1]
    OBVIOUS
  <2>2. j + 1 \in 1 .. h /\ k \in D
    BY <1>5, <1>7, <2>1
  <2>3. rs \in Seq(D) /\ Len(rs) = h - j /\ \A i \in 1 .. h - j : rs[i] = ks[j + i]
    <3>1. \A i \in j + 1 .. h : ks[i] \in D
      BY <1>5
    <3>2. /\ SubSeq(ks, j + 1, h) \in Seq(D)
          /\ Len(SubSeq(ks, j + 1, h)) = IF j + 1 <= h THEN h - (j + 1) + 1 ELSE 0
          /\ \A i \in 1 .. h - (j + 1) + 1 : SubSeq(ks, j + 1, h)[i] = ks[j + 1 + i - 1]
      <4>1. j + 1 \in Int /\ h \in Int
        BY <1>5
      <4> QED
        BY <3>1, <4>1, SubSeqProperties
    <3>3. rs = SubSeq(ks, j + 1, h)
      BY <1>1 DEF Rest
    <3>4. \A i \in 1 .. h - j : j + 1 + i - 1 = j + i
      BY <1>5
    <3> QED
      BY <1>5, <1>7, <3>2, <3>3, <3>4
  <2>4. c = k /\ k \in E /\ k # None
    <3>1. rs[1] = ks[j + 1] /\ Len(rs) # 0
      BY <1>5, <1>7, <2>3
    <3>2. k \in E
      BY <1>1, <2>1, <2>2, <1>5 DEF RestKeys
    <3> QED
      BY <1>2, <1>4, <2>1, <3>1, <3>2 DEF Follower
  <2>5. PICK o : o = MapIterNext(m)
    OBVIOUS
  <2>6. PICK d : d = Behind(rs, k)
    OBVIOUS
  <2>7. Holds(o, E, rs, ws, d)
    <3>1. Holds(MapIterNext(m), E, rs, ws, IF c = None THEN None ELSE Behind(rs, c))
      BY <1>3, IterHolds
    <3> QED
      BY <2>4, <2>5, <2>6, <3>1
  <2>8. n = Removed(o, k)
    <3>1. MapHas(o, k)
      BY <1>4, <2>4, <2>7, HoldsFacts
    <3> QED
      BY <1>4, <2>4, <2>5, <3>1 DEF CutOne, MapOut
  <2>9. Holds(n, E \ {k}, Dropped(rs, E, k), Less(ws, E, k), IF d = k THEN Behind(rs, k) ELSE d)
    BY <2>4, <2>7, <2>8, OutHolds
  <2>10. (IF d = k THEN Behind(rs, k) ELSE d) = d
    BY <2>6
  <2>11. PlaceOf(rs, k) = 1
    <3>1. PlaceOf(rs, k) \in 1 .. Len(rs) /\ rs[PlaceOf(rs, k)] = k
      BY <1>4, <2>4, PlaceIs
    <3>2. 1 \in 1 .. Len(rs) /\ rs[1] = k
      BY <1>5, <1>7, <2>1, <2>3
    <3> QED
      BY <1>4, <3>1, <3>2 DEF Lists
  <2>12. Dropped(rs, E, k) = Rest(ks, j + 1)
    <3>1. PICK ls, ts : ls = Skipped(rs, 1) /\ ts = Rest(ks, j + 1)
      OBVIOUS
    <3>2. IsSkip(ls, rs, 1) /\ Lists(ls, E \ {k})
      <4>1. 1 \in 1 .. Len(rs) /\ k = rs[1]
        BY <1>5, <1>7, <2>1, <2>3
      <4> QED
        BY <1>4, <3>1, <4>1, SkippedLists
    <3>3. ls \in Seq(D) /\ Len(ls) = h - j - 1 /\ \A i \in 1 .. h - j - 1 : ls[i] = ks[j + i + 1]
      <4>1. ls \in Seq(E \ {k}) /\ E \ {k} \subseteq D
        BY <1>1, <1>5, <3>2 DEF Lists, RestKeys
      <4>2. Len(ls) = h - j - 1
        BY <1>5, <2>3, <3>2 DEF IsSkip
      <4>3. ASSUME NEW i \in 1 .. h - j - 1
            PROVE  ls[i] = ks[j + i + 1]
        <5>1. ~(i < 1) /\ i + 1 \in 1 .. h - j /\ j + (i + 1) = j + i + 1
          BY <1>5
        <5> QED
          BY <2>3, <3>2, <4>2, <5>1 DEF IsSkip
      <4> QED
        BY <4>1, <4>2, <4>3
    <3>4. ts \in Seq(D) /\ Len(ts) = h - j - 1 /\ \A i \in 1 .. h - j - 1 : ts[i] = ks[j + i + 1]
      <4>1. \A i \in j + 1 + 1 .. h : ks[i] \in D
        BY <1>5
      <4>2. /\ SubSeq(ks, j + 1 + 1, h) \in Seq(D)
            /\ Len(SubSeq(ks, j + 1 + 1, h)) = IF j + 1 + 1 <= h THEN h - (j + 1 + 1) + 1 ELSE 0
            /\ \A i \in 1 .. h - (j + 1 + 1) + 1 : SubSeq(ks, j + 1 + 1, h)[i] = ks[j + 1 + 1 + i - 1]
        <5>1. j + 1 + 1 \in Int /\ h \in Int
          BY <1>5
        <5> QED
          BY <4>1, <5>1, SubSeqProperties
      <4>3. ts = SubSeq(ks, j + 1 + 1, h)
        BY <1>1, <3>1 DEF Rest
      <4>4. \A i \in 1 .. h - j - 1 : j + 1 + 1 + i - 1 = j + i + 1
        BY <1>5
      <4> QED
        BY <1>5, <1>7, <4>2, <4>3, <4>4
    <3>5. ls = ts
      BY <3>3, <3>4, SeqEqual
    <3> QED
      BY <2>4, <2>11, <3>1, <3>5 DEF Dropped
  <2>13. E \ {k} = RestKeys(ks, j + 1)
    <3>1. \A i \in 1 .. h : i \in j + 1 .. h <=> i = j + 1 \/ i \in j + 1 + 1 .. h
      BY <1>5, <2>2
    <3>2. \A i \in j + 1 + 1 .. h : i # j + 1 /\ i \in 1 .. h
      BY <1>5
    <3>3. \A i \in j + 1 .. h : i \in 1 .. h
      BY <1>5
    <3> QED
      BY <1>1, <1>5, <2>1, <2>2, <3>1, <3>2, <3>3 DEF RestKeys
  <2>14. Less(ws, E, k) = Of(vs, RestKeys(ks, j + 1))
    BY <1>2, <2>13 DEF Less, Of
  <2>15. d = Follower(Rest(ks, j + 1), 0)
    <3>1. PICK ts : ts = Rest(ks, j + 1)
      OBVIOUS
    <3>2. ts = Skipped(rs, 1)
      BY <2>4, <2>11, <2>12, <3>1 DEF Dropped
    <3>3. IsSkip(ts, rs, 1)
      <4>1. 1 \in 1 .. Len(rs) /\ k = rs[1]
        BY <1>5, <1>7, <2>1, <2>3
      <4> QED
        BY <1>4, <3>2, <4>1, SkippedLists
    <3>4. d = Follower(rs, 1)
      BY <2>6, <2>11 DEF Behind
    <3>5. Len(ts) = h - j - 1
      BY <1>5, <2>3, <3>3 DEF IsSkip
    <3>6. Len(ts) # 0 => 1 \in 1 .. Len(ts) /\ ts[1] = rs[1 + 1]
      BY <1>5, <1>7, <3>3, <3>5 DEF IsSkip
    <3> QED
      BY <1>5, <1>7, <2>3, <3>1, <3>4, <3>5, <3>6 DEF Follower
  <2> QED
    BY <2>9, <2>10, <2>12, <2>13, <2>14, <2>15 DEF LeftAfter
<1> QED
  BY <1>6, <1>7

IsCut(m, num, f) ==
  f = [i \in 0 .. num |-> IF i = 0 THEN MapIterInit(m) ELSE CutOne(f[i - 1])]

\* The recursive function of MapCutFront exists.
LEMMA CutExists ==
  ASSUME NEW m, NEW num \in Nat
  PROVE  \E f : IsCut(m, num, f)
<1>1. PICK P : P = {i \in 0 .. num : \E f : IsCut(m, i, f)}
  OBVIOUS
<1>2. 0 \in P
  <2>1. PICK f : f = [i \in 0 .. 0 |-> MapIterInit(m)]
    OBVIOUS
  <2>2. IsCut(m, 0, f)
    BY <2>1 DEF IsCut
  <2> QED
    BY <1>1, <2>2
<1>3. ASSUME NEW i \in 1 .. num, i - 1 \in P
      PROVE  i \in P
  <2>1. PICK f : IsCut(m, i - 1, f)
    BY <1>1, <1>3
  <2>2. PICK g : g = [j \in 0 .. i |-> IF j = i THEN CutOne(f[i - 1]) ELSE f[j]]
    OBVIOUS
  <2>3. ASSUME NEW j \in 0 .. i
        PROVE  g[j] = IF j = 0 THEN MapIterInit(m) ELSE CutOne(g[j - 1])
    <3>1. CASE j = i
      <4>1. g[j] = CutOne(f[i - 1]) /\ j # 0 /\ j - 1 \in 0 .. i /\ j - 1 # i
        BY <2>2, <3>1
      <4> QED
        BY <2>2, <3>1, <4>1
    <3>2. CASE j # i
      <4>1. j \in 0 .. i - 1 /\ g[j] = f[j]
        BY <2>2, <3>2
      <4>2. f[j] = IF j = 0 THEN MapIterInit(m) ELSE CutOne(f[j - 1])
        BY <2>1, <4>1 DEF IsCut
      <4>3. j # 0 => j - 1 \in 0 .. i /\ j - 1 # i
        BY <4>1
      <4> QED
        BY <2>2, <4>1, <4>2, <4>3
    <3> QED
      BY <3>1, <3>2
  <2>4. IsCut(m, i, g)
    BY <2>2, <2>3 DEF IsCut
  <2> QED
    BY <1>1, <2>4
<1>4. \A i \in 0 .. num : i \in P
  BY <1>2, <1>3, Reached
<1> QED
  BY <1>1, <1>4

\* tcmapcutfront leaves the records behind the first num ones.
LEMMA CutFrontHolds ==
  ASSUME NEW m, NEW D, NEW ks, NEW vs, NEW c, Holds(m, D, ks, vs, c), NEW num \in Nat
  PROVE  LeftAfter(MapCutFront(m, num), ks, vs, num)
<1>1. PICK f : IsCut(m, num, f) /\ MapCutFront(m, num) = f[num]
  <2>1. PICK f : f = CHOOSE g : IsCut(m, num, g)
    OBVIOUS
  <2>2. IsCut(m, num, f)
    BY <2>1, CutExists
  <2>3. MapCutFront(m, num) = (CHOOSE g : IsCut(m, num, g))[num]
    BY DEF MapCutFront, IsCut, CutOne
  <2> QED
    BY <2>1, <2>2, <2>3
<1>2. Lists(ks, D) /\ ks \in Seq(D) /\ vs = [x \in D |-> vs[x]]
  BY HoldsFacts DEF Lists
<1>3. PICK P : P = {i \in 0 .. num : LeftAfter(f[i], ks, vs, i)}
  OBVIOUS
<1>4. 0 \in P
  <2>1. f[0] = MapIterInit(m)
    BY <1>1 DEF IsCut
  <2>2. Holds(f[0], D, ks, vs, Follower(ks, 0))
    BY <2>1, IterHolds
  <2>3. Rest(ks, 0) = ks
    BY <1>2, SubSeqFull DEF Rest
  <2>4. RestKeys(ks, 0) = D
    BY <1>2 DEF RestKeys, Lists
  <2>5. Of(vs, D) = vs
    BY <1>2 DEF Of
  <2> QED
    BY <1>3, <2>2, <2>3, <2>4, <2>5 DEF LeftAfter
<1>5. ASSUME NEW i \in 1 .. num, i - 1 \in P
      PROVE  i \in P
  <2>1. f[i] = CutOne(f[i - 1])
    BY <1>1 DEF IsCut
  <2>2. PICK j : j = i - 1
    OBVIOUS
  <2>3. j \in Nat /\ LeftAfter(f[j], ks, vs, j) /\ i = j + 1
    BY <1>3, <1>5, <2>2
  <2>4. LeftAfter(f[i], ks, vs, j + 1)
    BY <1>2, <2>1, <2>2, <2>3, CutOneHolds
  <2> QED
    BY <1>3, <2>3, <2>4
<1>6. \A i \in 0 .. num : i \in P
  BY <1>4, <1>5, Reached
<1> QED
  BY <1>1, <1>3, <1>6

---------------------------------------------------------------------------
(* Copies *)

\* The first i keys of ks.
FirstKeys(ks, i) == {ks[j] : j \in 1 .. i}

\* m has the first i records.
CopiedTo(m, ks, vs, i) ==
  Holds(m, FirstKeys(ks, i), SubSeq(ks, 1, i), Of(vs, FirstKeys(ks, i)), None)

\* One more record is copied: its key is not in the copy yet.
LEMMA CopyOne ==
  ASSUME NEW D, NEW ks, Lists(ks, D), D \subseteq Keys, NEW vs, NEW i \in 1 .. Len(ks),
         NEW m, CopiedTo(m, ks, vs, i - 1), NEW other, NEW n,
         n = IF MapHas(m, ks[i]) THEN other ELSE Added(m, ks[i], vs[ks[i]])
  PROVE  CopiedTo(n, ks, vs, i)
<1>1. PICK j, k, E, ls, ws : /\ j = i - 1 /\ k = ks[i] /\ E = FirstKeys(ks, j)
                             /\ ls = SubSeq(ks, 1, j) /\ ws = Of(vs, E)
  OBVIOUS
<1>2. /\ ks \in Seq(D) /\ i \in 1 .. Len(ks) /\ j \in Nat /\ i = j + 1 /\ Len(ks) \in Nat
      /\ \A a, b \in 1 .. Len(ks) : ks[a] = ks[b] => a = b
      /\ k \in Keys
  BY <1>1 DEF Lists
<1>3. Holds(m, E, ls, ws, None)
  BY <1>1 DEF CopiedTo
<1>4. k \notin E
  <2>1. \A b \in 1 .. j : b \in 1 .. Len(ks) /\ b # i
    BY <1>2
  <2> QED
    BY <1>1, <1>2, <2>1 DEF FirstKeys
<1>5. n = Added(m, k, vs[k])
  <2>1. ~MapHas(m, k)
    BY <1>2, <1>3, <1>4, HoldsFacts
  <2> QED
    BY <1>1, <2>1
<1>6. Holds(n, E \cup {k}, Append(ls, k), With(ws, E, k, vs[k]), None)
  BY <1>2, <1>3, <1>4, <1>5, AddedHolds
<1>7. E \cup {k} = FirstKeys(ks, i)
  <2>1. \A b \in Int : b \in 1 .. i <=> b \in 1 .. j \/ b = i
    BY <1>2
  <2>2. i \in Int /\ \A b \in 1 .. i : b \in Int
    BY <1>2
  <2> QED
    BY <1>1, <2>1, <2>2 DEF FirstKeys
<1>8. Append(ls, k) = SubSeq(ks, 1, i)
  <2>1. SubSeq(ks, 1, i) = Append(SubSeq(ks, 1, i - 1), ks[i])
    <3>1. 1 \in 1 .. Len(ks) + 1 /\ i \in 1 .. Len(ks)
      BY <1>2
    <3> QED
      BY <1>2, <3>1, SubSeqRecursiveSecond
  <2> QED
    BY <1>1, <2>1
<1>9. With(ws, E, k, vs[k]) = Of(vs, FirstKeys(ks, i))
  <2>1. \A x \in E \cup {k} : (IF x = k THEN vs[k] ELSE ws[x]) = vs[x]
    BY <1>1 DEF Of
  <2>2. With(ws, E, k, vs[k]) = [x \in E \cup {k} |-> IF x = k THEN vs[k] ELSE ws[x]]
    BY DEF With
  <2>3. Of(vs, FirstKeys(ks, i)) = [x \in E \cup {k} |-> vs[x]]
    BY <1>7 DEF Of
  <2> QED
    BY <2>1, <2>2, <2>3
<1> QED
  BY <1>6, <1>7, <1>8, <1>9 DEF CopiedTo

\* The record i of a dump, put in either of the two ways.
PutOne(keep, m, pair) ==
  IF keep THEN MapPutKeep(m, pair[1], pair[2]) ELSE MapPut(m, pair[1], pair[2])

IsCopy(keep, dump, num, f) ==
  f = [i \in 0 .. num |-> IF i = 0 THEN NewMap ELSE PutOne(keep, f[i - 1], dump[i])]

\* The recursive functions of MapDup and MapLoad exist.
LEMMA CopyExists ==
  ASSUME NEW keep, NEW dump, NEW num \in Nat
  PROVE  \E f : IsCopy(keep, dump, num, f)
<1>1. PICK P : P = {i \in 0 .. num : \E f : IsCopy(keep, dump, i, f)}
  OBVIOUS
<1>2. 0 \in P
  <2>1. PICK f : f = [i \in 0 .. 0 |-> NewMap]
    OBVIOUS
  <2>2. IsCopy(keep, dump, 0, f)
    BY <2>1 DEF IsCopy
  <2> QED
    BY <1>1, <2>2
<1>3. ASSUME NEW i \in 1 .. num, i - 1 \in P
      PROVE  i \in P
  <2>1. PICK f : IsCopy(keep, dump, i - 1, f)
    BY <1>1, <1>3
  <2>2. PICK g : g = [j \in 0 .. i |-> IF j = i THEN PutOne(keep, f[i - 1], dump[i]) ELSE f[j]]
    OBVIOUS
  <2>3. ASSUME NEW j \in 0 .. i
        PROVE  g[j] = IF j = 0 THEN NewMap ELSE PutOne(keep, g[j - 1], dump[j])
    <3>1. CASE j = i
      <4>1. g[j] = PutOne(keep, f[i - 1], dump[i]) /\ j # 0 /\ j - 1 \in 0 .. i /\ j - 1 # i
        BY <2>2, <3>1
      <4> QED
        BY <2>2, <3>1, <4>1
    <3>2. CASE j # i
      <4>1. j \in 0 .. i - 1 /\ g[j] = f[j]
        BY <2>2, <3>2
      <4>2. f[j] = IF j = 0 THEN NewMap ELSE PutOne(keep, f[j - 1], dump[j])
        BY <2>1, <4>1 DEF IsCopy
      <4>3. j # 0 => j - 1 \in 0 .. i /\ j - 1 # i
        BY <4>1
      <4> QED
        BY <2>2, <4>1, <4>2, <4>3
    <3> QED
      BY <3>1, <3>2
  <2>4. IsCopy(keep, dump, i, g)
    BY <2>2, <2>3 DEF IsCopy
  <2> QED
    BY <1>1, <2>4
<1>4. \A i \in 0 .. num : i \in P
  BY <1>2, <1>3, Reached
<1> QED
  BY <1>1, <1>4

\* The whole copy, made in stored order, holds what the map holds.
LEMMA CopyIs ==
  ASSUME NEW D, NEW ks, Lists(ks, D), D \subseteq Keys, NEW vs, vs = [x \in D |-> vs[x]],
         NEW keep, NEW dump, \A i \in 1 .. Len(ks) : dump[i] = <<ks[i], vs[ks[i]]>>,
         NEW num, num = Len(ks), NEW f, IsCopy(keep, dump, num, f)
  PROVE  Holds(f[num], D, ks, vs, None)
<1>1. num \in Nat /\ ks \in Seq(D) /\ \A i \in 1 .. num : ks[i] \in Keys
  BY DEF Lists
<1>2. PICK P : P = {i \in 0 .. num : CopiedTo(f[i], ks, vs, i)}
  OBVIOUS
<1>3. 0 \in P
  <2>1. f[0] = NewMap
    BY <1>1 DEF IsCopy
  <2>2. FirstKeys(ks, 0) = {}
    BY DEF FirstKeys
  <2>3. SubSeq(ks, 1, 0) = <<>>
    BY <1>1, SubSeqEmpty
  <2>4. Of(vs, {}) = [x \in {} |-> None]
    BY DEF Of
  <2>5. CopiedTo(NewMap, ks, vs, 0)
    BY <2>2, <2>3, <2>4, NewHolds DEF CopiedTo
  <2>6. 0 \in 0 .. num
    BY <1>1
  <2> QED
    BY <1>2, <2>1, <2>5, <2>6
<1>4. ASSUME NEW i \in 1 .. num, i - 1 \in P
      PROVE  i \in P
  <2>1. f[i] = PutOne(keep, f[i - 1], dump[i]) /\ i \in 0 .. num
    BY <1>1 DEF IsCopy
  <2>2. PICK m, other : /\ m = f[i - 1]
                        /\ other = IF keep THEN m ELSE Replaced(m, ks[i], vs[ks[i]])
    OBVIOUS
  <2>3. CopiedTo(m, ks, vs, i - 1)
    BY <1>2, <1>4, <2>2
  <2>4. dump[i][1] = ks[i] /\ dump[i][2] = vs[ks[i]]
    <3>1. dump[i] = <<ks[i], vs[ks[i]]>>
      BY <1>1
    <3> QED
      BY <3>1
  <2>5. f[i] = IF MapHas(m, ks[i]) THEN other ELSE Added(m, ks[i], vs[ks[i]])
    BY <2>1, <2>2, <2>4 DEF PutOne, MapPutKeep, MapPut
  <2>6. CopiedTo(f[i], ks, vs, i)
    BY <1>1, <2>3, <2>5, CopyOne
  <2> QED
    BY <1>2, <2>1, <2>6
<1>5. num \in P
  <2>1. \A i \in 0 .. num : i \in P
    BY <1>1, <1>3, <1>4, Reached
  <2> QED
    BY <1>1, <2>1
<1>6. FirstKeys(ks, num) = D
  BY DEF FirstKeys, Lists
<1>7. SubSeq(ks, 1, num) = ks
  BY <1>1, SubSeqFull
<1> QED
  BY <1>2, <1>5, <1>6, <1>7 DEF CopiedTo, Of

\* A serialized map: the keys in order, each with its value.
LEMMA DumpIs ==
  ASSUME NEW m, NEW D, NEW ks, NEW vs, NEW c, Holds(m, D, ks, vs, c)
  PROVE  /\ Len(MapDump(m)) = Len(ks)
         /\ \A i \in 1 .. Len(ks) : MapDump(m)[i] = <<ks[i], vs[ks[i]]>>
<1>1. Order(m) = ks /\ ks \in Seq(D) /\ \A x \in D : m.recs[x].val = vs[x]
  BY HoldsFacts, GoodIsSound DEF Lists
<1>2. MapDump(m) = [i \in 1 .. Len(ks) |-> <<ks[i], m.recs[ks[i]].val>>]
  BY <1>1 DEF MapDump
<1>3. Len(MapDump(m)) = Len(ks)
  BY <1>1, <1>2
<1>4. \A i \in 1 .. Len(ks) : ks[i] \in D
  BY <1>1
<1> QED
  BY <1>1, <1>2, <1>3, <1>4

\* A copy holds the same records in the same order, its iterator nowhere.
LEMMA DupHolds ==
  ASSUME NEW m, NEW D, NEW ks, NEW vs, NEW c, Holds(m, D, ks, vs, c)
  PROVE  /\ Holds(MapDup(m), D, ks, vs, None)
         /\ Holds(MapLoad(MapDump(m)), D, ks, vs, None)
<1>1. PICK dump, num : dump = MapDump(m) /\ num = Len(dump)
  OBVIOUS
<1>2. num = Len(ks) /\ \A i \in 1 .. Len(ks) : dump[i] = <<ks[i], vs[ks[i]]>>
  BY <1>1, DumpIs
<1>3. Lists(ks, D) /\ D \subseteq Keys /\ vs = [x \in D |-> vs[x]] /\ num \in Nat
  BY <1>2, HoldsFacts DEF Lists
<1>4. ASSUME NEW keep, NEW f, f = CHOOSE g : IsCopy(keep, dump, num, g)
      PROVE  Holds(f[num], D, ks, vs, None)
  <2>1. IsCopy(keep, dump, num, f)
    BY <1>3, <1>4, CopyExists
  <2> QED
    BY <1>2, <1>3, <2>1, CopyIs
<1>5. MapDup(m) = (CHOOSE g : IsCopy(FALSE, dump, num, g))[num]
  BY <1>1 DEF MapDup, IsCopy, PutOne
<1>6. MapLoad(dump) = (CHOOSE g : IsCopy(TRUE, dump, num, g))[num]
  BY <1>1 DEF MapLoad, IsCopy, PutOne
<1> QED
  BY <1>1, <1>4, <1>5, <1>6

---------------------------------------------------------------------------
(* What every call keeps *)

\* What each call that stores makes of the map.
LEMMA StoreHolds ==
  ASSUME NEW m, NEW D, NEW ks, NEW vs, NEW c, Holds(m, D, ks, vs, c), NEW k \in Keys, NEW v,
         NEW n
  PROVE  /\ n = MapPut(m, k, v) =>
              Holds(n, D \cup {k}, IF k \in D THEN ks ELSE Append(ks, k), With(vs, D, k, v), c)
         /\ n = MapPut3(m, k, v) =>
              Holds(n, D \cup {k}, Append(Dropped(ks, D, k), k), With(vs, D, k, v), c)
<1>1. MapHas(m, k) <=> k \in D
  BY HoldsFacts
<1>2. ASSUME n = MapPut(m, k, v)
      PROVE  Holds(n, D \cup {k}, IF k \in D THEN ks ELSE Append(ks, k), With(vs, D, k, v), c)
  <2>1. n = IF k \in D THEN Replaced(m, k, v) ELSE Added(m, k, v)
    BY <1>1, <1>2 DEF MapPut
  <2> QED
    BY <2>1, PutHolds
<1>3. ASSUME n = MapPut3(m, k, v)
      PROVE  Holds(n, D \cup {k}, Append(Dropped(ks, D, k), k), With(vs, D, k, v), c)
  <2>1. n = IF k \in D THEN ToLast(Replaced(m, k, v), k) ELSE Added(m, k, v)
    BY <1>1, <1>3 DEF MapPut3
  <2> QED
    BY <2>1, Put3Holds
<1> QED
  BY <1>2, <1>3

\* A value that is extended is a value that is stored.
LEMMA CatIs ==
  ASSUME NEW m, NEW D, NEW ks, NEW vs, NEW c, Holds(m, D, ks, vs, c), NEW k \in Keys, NEW v
  PROVE  /\ MapPutCat(m, k, v) = MapPut(m, k, IF k \in D THEN vs[k] \o v ELSE v)
         /\ MapPutCat3(m, k, v) = MapPut3(m, k, IF k \in D THEN vs[k] \o v ELSE v)
<1>1. (MapHas(m, k) <=> k \in D) /\ (k \in D => m.recs[k].val = vs[k])
  BY HoldsFacts
<1> QED
  BY <1>1 DEF MapPutCat, MapPutCat3, MapPut, MapPut3

\* tcmapaddint: a new integer, one that is added to, or a value that is none.
LEMMA AddIntHolds ==
  ASSUME NEW m, NEW D, NEW ks, NEW vs, NEW c, Holds(m, D, ks, vs, c), NEW k \in Keys, NEW num,
         NEW n, n = MapAddInt(m, k, num)
  PROVE  /\ k \notin D => Holds(n, D \cup {k}, Append(ks, k), With(vs, D, k, <<num>>), c)
         /\ k \in D /\ IsInt(vs[k]) => Holds(n, D, ks, With(vs, D, k, Plus(vs[k], num)), c)
         /\ k \in D /\ ~IsInt(vs[k]) => n = m
<1>1. /\ MapHas(m, k) <=> k \in D
      /\ k \in D => m.recs[k].val = vs[k]
      /\ Good(m, D, ks)
  BY HoldsFacts
<1>2. ASSUME k \notin D
      PROVE  Holds(n, D \cup {k}, Append(ks, k), With(vs, D, k, <<num>>), c)
  <2>1. n = Attached(m, k, <<num>>)
    BY <1>1, <1>2 DEF MapAddInt
  <2> QED
    BY <1>2, <2>1, AttachedHolds
<1>3. ASSUME k \in D, IsInt(vs[k])
      PROVE  Holds(n, D, ks, With(vs, D, k, Plus(vs[k], num)), c)
  <2>1. PICK w : w = Plus(vs[k], num)
    OBVIOUS
  <2>2. n = [m EXCEPT !.recs[k].val = Plus(@, num)]
    BY <1>1, <1>3 DEF MapAddInt
  <2>3. k \in DOMAIN m.recs /\ IsMap(m, D)
    BY <1>1, <1>3, GoodMap DEF Good
  <2>4. n = [m EXCEPT !.recs[k].val = w]
    BY <1>1, <1>3, <2>1, <2>2, <2>3
  <2>5. Holds(n, D, ks, With(vs, D, k, w), c)
    BY <1>3, <2>4, ValueHolds
  <2> QED
    BY <2>1, <2>5
<1>4. ASSUME k \in D, ~IsInt(vs[k])
      PROVE  n = m
  BY <1>1, <1>4 DEF MapAddInt
<1> QED
  BY <1>2, <1>3, <1>4

\* m is in order: it holds some records in some order.
Intact(m) == \E D, ks, vs, c : Holds(m, D, ks, vs, c)

\* A map that is in order is sound, and its pointers are records of its own.
LEMMA IntactFacts ==
  ASSUME NEW m, Intact(m)
  PROVE  /\ MapSound(m) /\ m.cur \in Ptr(DOMAIN m.recs) /\ m.first \in Ptr(DOMAIN m.recs)
         /\ DOMAIN m.recs \subseteq Keys
<1>1. PICK D, ks, vs, c : Holds(m, D, ks, vs, c)
  BY DEF Intact
<1>2. Good(m, D, ks)
  BY <1>1 DEF Holds
<1> QED
  BY <1>2, GoodIsSound, GoodMap

\* The calls that store a record.
LEMMA StoresIntact ==
  ASSUME NEW m, Intact(m), NEW k \in Keys, NEW v
  PROVE  /\ Intact(MapPut(m, k, v)) /\ Intact(MapPut3(m, k, v)) /\ Intact(MapPutKeep(m, k, v))
         /\ Intact(MapPutCat(m, k, v)) /\ Intact(MapPutCat3(m, k, v))
<1>1. PICK D, ks, vs, c : Holds(m, D, ks, vs, c)
  BY DEF Intact
<1>2. ASSUME NEW w
      PROVE  Intact(MapPut(m, k, w)) /\ Intact(MapPut3(m, k, w))
  <2>1. PICK n1, n2 : n1 = MapPut(m, k, w) /\ n2 = MapPut3(m, k, w)
    OBVIOUS
  <2>2. Holds(n1, D \cup {k}, IF k \in D THEN ks ELSE Append(ks, k), With(vs, D, k, w), c)
    BY <1>1, <2>1, StoreHolds
  <2>3. Holds(n2, D \cup {k}, Append(Dropped(ks, D, k), k), With(vs, D, k, w), c)
    BY <1>1, <2>1, StoreHolds
  <2> QED
    BY <2>1, <2>2, <2>3 DEF Intact
<1>3. Intact(MapPutCat(m, k, v)) /\ Intact(MapPutCat3(m, k, v))
  <2>1. PICK w : w = IF k \in D THEN vs[k] \o v ELSE v
    OBVIOUS
  <2>2. MapPutCat(m, k, v) = MapPut(m, k, w) /\ MapPutCat3(m, k, v) = MapPut3(m, k, w)
    BY <1>1, <2>1, CatIs
  <2> QED
    BY <1>2, <2>2
<1>4. Intact(MapPutKeep(m, k, v))
  BY <1>2 DEF MapPutKeep, MapPut
<1> QED
  BY <1>2, <1>3, <1>4

\* The calls that may remove a record, and those that may change or move one.
LEMMA OutsIntact ==
  ASSUME NEW m, Intact(m), NEW k \in Keys, NEW v, NEW answer
  PROVE  /\ Intact(MapOut(m, k)) /\ Intact(MapGet3(m, k)) /\ Intact(MapAddInt(m, k, v))
         /\ Intact(MapPutProc(m, k, v, answer))
<1>1. PICK D, ks, vs, c : Holds(m, D, ks, vs, c)
  BY DEF Intact
<1>2. MapHas(m, k) <=> k \in D
  BY <1>1, HoldsFacts
<1>3. k \in D => Intact(Removed(m, k))
  <2>1. PICK n : n = Removed(m, k)
    OBVIOUS
  <2>2. ASSUME k \in D
        PROVE  Holds(n, D \ {k}, Dropped(ks, D, k), Less(vs, D, k), IF c = k THEN Behind(ks, k) ELSE c)
    BY <1>1, <2>1, <2>2, OutHolds
  <2> QED
    BY <2>1, <2>2 DEF Intact
<1>4. k \in D => Intact(ToLast(m, k))
  <2>1. PICK n : n = ToLast(m, k)
    OBVIOUS
  <2>2. ASSUME k \in D
        PROVE  Holds(n, D, Append(Dropped(ks, D, k), k), vs, c)
    BY <1>1, <2>1, <2>2, LastHolds
  <2> QED
    BY <2>1, <2>2 DEF Intact
<1>5. Intact(MapAddInt(m, k, v))
  <2>1. PICK n : n = MapAddInt(m, k, v)
    OBVIOUS
  <2>2. /\ k \notin D => Holds(n, D \cup {k}, Append(ks, k), With(vs, D, k, <<v>>), c)
        /\ k \in D /\ IsInt(vs[k]) => Holds(n, D, ks, With(vs, D, k, Plus(vs[k], v)), c)
        /\ k \in D /\ ~IsInt(vs[k]) => n = m
    BY <1>1, <2>1, AddIntHolds
  <2> QED
    BY <2>1, <2>2 DEF Intact
<1>6. Intact(MapPutProc(m, k, v, answer))
  <2>1. Intact(MapPut(m, k, v)) /\ Intact(MapPut(m, k, answer))
    BY StoresIntact
  <2> QED
    BY <1>2, <1>3, <2>1 DEF MapPutProc, MapPut
<1> QED
  BY <1>2, <1>3, <1>4, <1>5, <1>6 DEF MapOut, MapGet3

\* The calls on the whole map.
LEMMA CutsIntact ==
  ASSUME NEW m, Intact(m), NEW num \in Nat
  PROVE  Intact(MapCutFront(m, num)) /\ Intact(MapClear(m)) /\ Intact(NewMap)
<1>1. PICK D, ks, vs, c : Holds(m, D, ks, vs, c)
  BY DEF Intact
<1>2. Intact(MapCutFront(m, num))
  <2>1. PICK n : n = MapCutFront(m, num)
    OBVIOUS
  <2>2. LeftAfter(n, ks, vs, num)
    BY <1>1, <2>1, CutFrontHolds
  <2> QED
    BY <2>1, <2>2 DEF LeftAfter, Intact
<1> QED
  BY <1>2, NewHolds DEF MapClear, Intact

\* The calls that place the iterator, and a place that was kept aside.
LEMMA ItersIntact ==
  ASSUME NEW m, Intact(m)
  PROVE  /\ Intact(MapIterNext(m)) /\ \A k \in Keys : Intact(MapIterInit2(m, k))
         /\ \A d \in Ptr(DOMAIN m.recs) : Intact([m EXCEPT !.cur = d])
<1>1. PICK D, ks, vs, c : Holds(m, D, ks, vs, c)
  BY DEF Intact
<1>2. Intact(MapIterNext(m)) /\ \A k \in Keys : Intact(MapIterInit2(m, k))
  BY <1>1, IterHolds DEF Intact
<1>3. ASSUME NEW d \in Ptr(DOMAIN m.recs)
      PROVE  Intact([m EXCEPT !.cur = d])
  <2>1. PICK n : n = [m EXCEPT !.cur = d]
    OBVIOUS
  <2>2. d \in Ptr(D)
    BY <1>1, GoodMap DEF Holds
  <2>3. Holds(n, D, ks, vs, d)
    BY <1>1, <2>1, <2>2, CurHolds
  <2> QED
    BY <2>1, <2>3 DEF Intact
<1> QED
  BY <1>2, <1>3

\* They leave the records alone.
LEMMA ItersKeepKeys ==
  ASSUME NEW m, Intact(m), NEW d
  PROVE  /\ DOMAIN MapIterNext(m).recs = DOMAIN m.recs
         /\ \A k \in Keys : DOMAIN MapIterInit2(m, k).recs = DOMAIN m.recs
         /\ DOMAIN [m EXCEPT !.cur = d].recs = DOMAIN m.recs
<1>1. PICK D, ks, vs, c : Holds(m, D, ks, vs, c)
  BY DEF Intact
<1>2. IsMap(m, D)
  BY <1>1 DEF Holds, Good
<1>3. \A x : [m EXCEPT !.cur = x].recs = m.recs
  BY <1>2 DEF IsMap
<1> QED
  BY <1>3 DEF MapIterNext, MapIterInit2

---------------------------------------------------------------------------
(* What an iterator has still to return *)

\* On the way from c to the end of ks is x.
Reaches(ks, c, x) == \E a, b \in 1 .. Len(ks) : a <= b /\ ks[a] = c /\ ks[b] = x

\* The iterator of m is on the way to the record x.
Returns(m, x) == Reaches(Order(m), m.cur, x)

\* Both are keys of the list.
LEMMA ReachedKeys ==
  ASSUME NEW D, NEW ks, Lists(ks, D), NEW c, NEW x, Reaches(ks, c, x)
  PROVE  c \in D /\ x \in D
BY DEF Reaches, Lists

\* From the first key every key is reached.
LEMMA FirstReaches ==
  ASSUME NEW D, NEW ks, Lists(ks, D), NEW x \in D
  PROVE  Reaches(ks, Follower(ks, 0), x)
<1>1. PICK b \in 1 .. Len(ks) : ks[b] = x
  BY DEF Lists
<1>2. Len(ks) \in Nat
  BY DEF Lists
<1>3. 1 \in 1 .. Len(ks) /\ 1 <= b /\ Follower(ks, 0) = ks[1]
  BY <1>1, <1>2 DEF Follower
<1> QED
  BY <1>1, <1>3 DEF Reaches

\* From the key behind c every key but c that c reaches.
LEMMA NextReaches ==
  ASSUME NEW D, NEW ks, Lists(ks, D), NEW c, NEW x, Reaches(ks, c, x), x # c
  PROVE  Reaches(ks, Behind(ks, c), x)
<1>1. PICK a \in 1 .. Len(ks), b \in 1 .. Len(ks) : a <= b /\ ks[a] = c /\ ks[b] = x
  BY DEF Reaches
<1>2. Len(ks) \in Nat /\ c \in D
  BY <1>1 DEF Lists
<1>3. PlaceOf(ks, c) \in 1 .. Len(ks) /\ ks[PlaceOf(ks, c)] = c
  BY <1>2, PlaceIs
<1>4. PlaceOf(ks, c) = a
  BY <1>1, <1>3 DEF Lists
<1>5. a # b
  BY <1>1
<1>6. a + 1 \in 1 .. Len(ks) /\ a + 1 <= b /\ a # Len(ks)
  BY <1>1, <1>2, <1>5
<1>7. Behind(ks, c) = ks[a + 1]
  BY <1>4, <1>6 DEF Behind, Follower
<1> QED
  BY <1>1, <1>6, <1>7 DEF Reaches

\* A key at the end takes nothing from the way, and is on every way.
LEMMA AppendReaches ==
  ASSUME NEW D, NEW ks, Lists(ks, D), NEW k
  PROVE  /\ \A c, x : Reaches(ks, c, x) => Reaches(Append(ks, k), c, x)
         /\ \A c \in D \cup {k} : Reaches(Append(ks, k), c, k)
<1>1. PICK ls, n : ls = Append(ks, k) /\ n = Len(ks)
  OBVIOUS
<1>2. n \in Nat /\ Len(ls) = n + 1 /\ ls[n + 1] = k /\ \A j \in 1 .. n : ls[j] = ks[j]
  BY <1>1 DEF Lists
<1>3. ASSUME NEW c, NEW x, Reaches(ks, c, x)
      PROVE  Reaches(ls, c, x)
  <2>1. PICK a \in 1 .. n, b \in 1 .. n : a <= b /\ ks[a] = c /\ ks[b] = x
    BY <1>1, <1>3 DEF Reaches
  <2>2. a \in 1 .. n + 1 /\ b \in 1 .. n + 1 /\ ls[a] = c /\ ls[b] = x
    BY <1>2, <2>1
  <2> QED
    BY <1>2, <2>1, <2>2 DEF Reaches
<1>4. ASSUME NEW c \in D \cup {k}
      PROVE  Reaches(ls, c, k)
  <2>1. \E a \in 1 .. n + 1 : ls[a] = c
    <3>1. CASE c = k
      BY <1>2, <3>1
    <3>2. CASE c \in D
      <4>1. PICK a \in 1 .. n : ks[a] = c
        BY <1>1, <3>2 DEF Lists
      <4>2. a \in 1 .. n + 1 /\ ls[a] = c
        BY <1>2, <4>1
      <4> QED
        BY <4>2
    <3> QED
      BY <3>1, <3>2
  <2>2. PICK a \in 1 .. n + 1 : ls[a] = c
    BY <2>1
  <2>3. n + 1 \in 1 .. n + 1 /\ a <= n + 1
    BY <1>2
  <2> QED
    BY <1>2, <2>2, <2>3 DEF Reaches
<1> QED
  BY <1>1, <1>3, <1>4

\* A key that goes is left out of the way; from its place the way goes on with
\* the key behind it.
LEMMA SkippedReaches ==
  ASSUME NEW D, NEW ks, Lists(ks, D), NEW k \in D, NEW c, NEW x, Reaches(ks, c, x), x # k
  PROVE  Reaches(Dropped(ks, D, k), IF c = k THEN Behind(ks, k) ELSE c, x)
<1>1. PICK i, ls, n : i = PlaceOf(ks, k) /\ ls = Skipped(ks, i) /\ n = Len(ks)
  OBVIOUS
<1>2. i \in 1 .. n /\ ks[i] = k /\ ls = Dropped(ks, D, k) /\ n \in Nat
  BY <1>1, PlaceIs DEF Dropped, Lists
<1>3. Len(ls) = n - 1 /\ \A j \in 1 .. n - 1 : ls[j] = IF j < i THEN ks[j] ELSE ks[j + 1]
  <2>1. IsSkip(ls, ks, i)
    BY <1>1, <1>2, SkippedLists
  <2> QED
    BY <1>1, <2>1 DEF IsSkip
<1>4. ASSUME NEW d, d # k, Reaches(ks, d, x)
      PROVE  Reaches(ls, d, x)
  <2>1. PICK a \in 1 .. n, b \in 1 .. n : a <= b /\ ks[a] = d /\ ks[b] = x
    BY <1>1, <1>4 DEF Reaches
  <2>2. a # i /\ b # i
    BY <1>2, <1>4, <2>1
  <2>3. PICK p, q : p = (IF a < i THEN a ELSE a - 1) /\ q = (IF b < i THEN b ELSE b - 1)
    OBVIOUS
  <2>4. /\ p \in 1 .. n - 1 /\ q \in 1 .. n - 1 /\ p <= q
        /\ p < i => p = a
        /\ ~(p < i) => p + 1 = a
        /\ q < i => q = b
        /\ ~(q < i) => q + 1 = b
    BY <1>2, <2>1, <2>2, <2>3
  <2>5. ls[p] = ks[a] /\ ls[q] = ks[b]
    BY <1>3, <2>4
  <2> QED
    BY <1>3, <2>1, <2>4, <2>5 DEF Reaches
<1>5. CASE c = k
  <2>1. Reaches(ks, Behind(ks, k), x)
    BY <1>5, NextReaches
  <2>2. Behind(ks, k) # k
    <3>1. Behind(ks, k) \in D
      BY <2>1, ReachedKeys
    <3>2. CASE i = n
      <4>1. Behind(ks, k) = None
        BY <1>1, <3>2 DEF Behind, Follower
      <4>2. PICK a \in 1 .. n, b \in 1 .. n : a <= b /\ ks[a] = k /\ ks[b] = x
        BY <1>1, <1>5 DEF Reaches
      <4>3. a = i
        BY <1>1, <1>2, <4>2 DEF Lists
      <4>4. b = i
        BY <1>2, <3>2, <4>2, <4>3
      <4> QED
        BY <1>2, <4>2, <4>4
    <3>3. CASE i # n
      <4>1. i + 1 \in 1 .. n /\ Behind(ks, k) = ks[i + 1]
        BY <1>1, <1>2, <3>3 DEF Behind, Follower
      <4> QED
        BY <1>1, <1>2, <4>1 DEF Lists
    <3> QED
      BY <3>2, <3>3
  <2> QED
    BY <1>2, <1>4, <1>5, <2>1, <2>2
<1>6. CASE c # k
  BY <1>2, <1>4, <1>6
<1> QED
  BY <1>5, <1>6

\* A key that moves to the end is still on the way, and so is every other one
\* if the way does not begin with it.
LEMMA MovedReaches ==
  ASSUME NEW D, NEW ks, Lists(ks, D), NEW k, NEW c, NEW x, Reaches(ks, c, x), c # k \/ x = k
  PROVE  Reaches(Append(Dropped(ks, D, k), k), c, x)
<1>1. PICK ls, E : ls = Dropped(ks, D, k) /\ E = D \ {k}
  OBVIOUS
<1>2. c \in D /\ x \in D
  BY ReachedKeys
<1>3. Lists(ls, E)
  <2>1. CASE k \in D
    BY <1>1, <2>1, PlaceIs, SkippedLists DEF Dropped
  <2>2. CASE k \notin D
    <3>1. E = D /\ ls = ks
      BY <1>1, <2>2 DEF Dropped
    <3> QED
      BY <3>1
  <2> QED
    BY <2>1, <2>2
<1>4. CASE x = k
  <2>1. c \in E \cup {k}
    BY <1>1, <1>2
  <2> QED
    BY <1>1, <1>3, <1>4, <2>1, AppendReaches
<1>5. CASE x # k
  <2>1. Reaches(ls, c, x)
    <3>1. CASE k \in D
      BY <1>1, <1>5, <3>1, SkippedReaches
    <3>2. CASE k \notin D
      BY <1>1, <3>2 DEF Dropped
    <3> QED
      BY <3>1, <3>2
  <2> QED
    BY <1>1, <1>3, <2>1, AppendReaches
<1> QED
  BY <1>4, <1>5

\* A key of the list reaches itself and what the key behind it reaches.
LEMMA ReachesOn ==
  ASSUME NEW D, NEW ks, Lists(ks, D), None \notin D, NEW i \in 1 .. Len(ks), NEW x
  PROVE  Reaches(ks, ks[i], x) <=> x = ks[i] \/ Reaches(ks, Follower(ks, i), x)
<1>1. Len(ks) \in Nat /\ ks[i] \in D
  BY DEF Lists
<1>2. Reaches(ks, ks[i], ks[i])
  BY <1>1 DEF Reaches
<1>3. PlaceOf(ks, ks[i]) = i
  <2>1. PlaceOf(ks, ks[i]) \in 1 .. Len(ks) /\ ks[PlaceOf(ks, ks[i])] = ks[i]
    BY <1>1, PlaceIs
  <2> QED
    BY <2>1 DEF Lists
<1>4. ASSUME Reaches(ks, ks[i], x), x # ks[i]
      PROVE  Reaches(ks, Follower(ks, i), x)
  BY <1>3, <1>4, NextReaches DEF Behind
<1>5. ASSUME Reaches(ks, Follower(ks, i), x)
      PROVE  Reaches(ks, ks[i], x)
  <2>1. i # Len(ks)
    BY <1>5, ReachedKeys DEF Follower
  <2>2. PICK a \in 1 .. Len(ks), b \in 1 .. Len(ks) : a <= b /\ ks[a] = ks[i + 1] /\ ks[b] = x
    BY <1>5, <2>1 DEF Reaches, Follower
  <2>3. a = i + 1
    BY <1>1, <2>1, <2>2 DEF Lists
  <2>4. i <= b
    BY <1>1, <2>2, <2>3
  <2> QED
    BY <2>2, <2>4 DEF Reaches
<1> QED
  BY <1>2, <1>4, <1>5

\* The iterator of a map in order, by the list of its keys.
LEMMA ReturnsIs ==
  ASSUME NEW m, NEW D, NEW ks, NEW vs, NEW c, Holds(m, D, ks, vs, c), NEW x
  PROVE  /\ Order(m) = ks /\ m.cur = c /\ DOMAIN m.recs = D /\ m.first = Follower(ks, 0)
         /\ Returns(m, x) <=> Reaches(ks, c, x)
         /\ Returns(m, x) => x \in D /\ c \in D
<1>1. Good(m, D, ks) /\ m.cur = c /\ Lists(ks, D)
  BY HoldsFacts
<1>2. Order(m) = ks /\ DOMAIN m.recs = D /\ m.first = Follower(ks, 0)
  BY <1>1, GoodIsSound, GoodMap DEF Good, Chain
<1> QED
  BY <1>1, <1>2, ReachedKeys DEF Returns

\* Storing a record leaves the others to be returned, or moves it to the end.
LEMMA StoreReturns ==
  ASSUME NEW m, Intact(m), NEW k \in Keys, NEW v, NEW x, Returns(m, x)
  PROVE  /\ Returns(MapPut(m, k, v), x) /\ Returns(MapPutKeep(m, k, v), x)
         /\ Returns(MapPutCat(m, k, v), x)
         /\ k # m.cur \/ x = k => Returns(MapPut3(m, k, v), x) /\ Returns(MapPutCat3(m, k, v), x)
<1>1. PICK D, ks, vs, c : Holds(m, D, ks, vs, c)
  BY DEF Intact
<1>2. Lists(ks, D) /\ Reaches(ks, c, x) /\ m.cur = c
  BY <1>1, ReturnsIs, HoldsFacts
<1>3. ASSUME NEW w
      PROVE  Returns(MapPut(m, k, w), x)
  <2>1. PICK n, ls : n = MapPut(m, k, w) /\ ls = IF k \in D THEN ks ELSE Append(ks, k)
    OBVIOUS
  <2>2. Holds(n, D \cup {k}, ls, With(vs, D, k, w), c)
    BY <1>1, <2>1, StoreHolds
  <2>3. Reaches(ls, c, x)
    BY <1>2, <2>1, AppendReaches
  <2> QED
    BY <2>1, <2>2, <2>3, ReturnsIs
<1>4. ASSUME NEW w, k # c \/ x = k
      PROVE  Returns(MapPut3(m, k, w), x)
  <2>1. PICK n, ls : n = MapPut3(m, k, w) /\ ls = Append(Dropped(ks, D, k), k)
    OBVIOUS
  <2>2. Holds(n, D \cup {k}, ls, With(vs, D, k, w), c)
    BY <1>1, <2>1, StoreHolds
  <2>3. Reaches(ls, c, x)
    BY <1>2, <1>4, <2>1, MovedReaches
  <2> QED
    BY <2>1, <2>2, <2>3, ReturnsIs
<1>5. PICK w : /\ MapPutCat(m, k, v) = MapPut(m, k, w)
               /\ MapPutCat3(m, k, v) = MapPut3(m, k, w)
  BY <1>1, CatIs
<1>6. Returns(MapPutKeep(m, k, v), x)
  BY <1>3 DEF MapPutKeep, MapPut
<1> QED
  BY <1>2, <1>3, <1>4, <1>5, <1>6

\* A record that goes is the only one that is not returned any more.
LEMMA OutReturns ==
  ASSUME NEW m, Intact(m), NEW k \in Keys, NEW x, Returns(m, x),
         x \in DOMAIN Removed(m, k).recs, MapHas(m, k)
  PROVE  Returns(Removed(m, k), x)
<1>1. PICK D, ks, vs, c : Holds(m, D, ks, vs, c)
  BY DEF Intact
<1>2. Lists(ks, D) /\ Reaches(ks, c, x) /\ k \in D
  BY <1>1, ReturnsIs, HoldsFacts
<1>3. PICK n, d : n = Removed(m, k) /\ d = IF c = k THEN Behind(ks, k) ELSE c
  OBVIOUS
<1>4. Holds(n, D \ {k}, Dropped(ks, D, k), Less(vs, D, k), d)
  BY <1>1, <1>2, <1>3, OutHolds
<1>5. x # k
  <2>1. DOMAIN n.recs = D \ {k}
    BY <1>4, ReturnsIs
  <2> QED
    BY <1>3, <2>1
<1>6. Reaches(Dropped(ks, D, k), d, x)
  BY <1>2, <1>3, <1>5, SkippedReaches
<1> QED
  BY <1>3, <1>4, <1>6, ReturnsIs

\* The other calls on one record.
LEMMA ChangeReturns ==
  ASSUME NEW m, Intact(m), NEW k \in Keys, NEW v, NEW answer, NEW x, Returns(m, x)
  PROVE  /\ x \in DOMAIN MapOut(m, k).recs => Returns(MapOut(m, k), x)
         /\ Returns(MapAddInt(m, k, v), x)
         /\ x \in DOMAIN MapPutProc(m, k, v, answer).recs => Returns(MapPutProc(m, k, v, answer), x)
         /\ k # m.cur \/ x = k => Returns(MapGet3(m, k), x)
<1>1. PICK D, ks, vs, c : Holds(m, D, ks, vs, c)
  BY DEF Intact
<1>2. Lists(ks, D) /\ Reaches(ks, c, x) /\ m.cur = c /\ (MapHas(m, k) <=> k \in D)
  BY <1>1, ReturnsIs, HoldsFacts
<1>3. MapHas(m, k) /\ x \in DOMAIN Removed(m, k).recs => Returns(Removed(m, k), x)
  BY OutReturns
<1>4. Returns(MapAddInt(m, k, v), x)
  <2>1. PICK n : n = MapAddInt(m, k, v)
    OBVIOUS
  <2>2. CASE k \notin D
    <3>1. Holds(n, D \cup {k}, Append(ks, k), With(vs, D, k, <<v>>), c)
      BY <1>1, <2>1, <2>2, AddIntHolds
    <3>2. Reaches(Append(ks, k), c, x)
      BY <1>2, AppendReaches
    <3> QED
      BY <2>1, <3>1, <3>2, ReturnsIs
  <2>3. CASE k \in D /\ IsInt(vs[k])
    <3>1. Holds(n, D, ks, With(vs, D, k, Plus(vs[k], v)), c)
      BY <1>1, <2>1, <2>3, AddIntHolds
    <3> QED
      BY <1>2, <2>1, <3>1, ReturnsIs
  <2>4. CASE k \in D /\ ~IsInt(vs[k])
    <3>1. n = m
      BY <1>1, <2>1, <2>4, AddIntHolds
    <3> QED
      BY <2>1, <3>1
  <2> QED
    BY <2>2, <2>3, <2>4
<1>5. ASSUME k # m.cur \/ x = k
      PROVE  Returns(MapGet3(m, k), x)
  <2>1. CASE k \in D
    <3>1. PICK n : n = ToLast(m, k)
      OBVIOUS
    <3>2. Holds(n, D, Append(Dropped(ks, D, k), k), vs, c)
      BY <1>1, <2>1, <3>1, LastHolds
    <3>3. Reaches(Append(Dropped(ks, D, k), k), c, x)
      BY <1>2, <1>5, MovedReaches
    <3>4. Returns(n, x)
      BY <3>2, <3>3, ReturnsIs
    <3> QED
      BY <1>2, <2>1, <3>1, <3>4 DEF MapGet3
  <2>2. CASE k \notin D
    BY <1>2, <2>2 DEF MapGet3
  <2> QED
    BY <2>1, <2>2
<1>6. x \in DOMAIN MapPutProc(m, k, v, answer).recs => Returns(MapPutProc(m, k, v, answer), x)
  <2>1. Returns(MapPut(m, k, v), x) /\ Returns(MapPut(m, k, answer), x)
    BY StoreReturns
  <2> QED
    BY <1>3, <2>1 DEF MapPutProc, MapPut
<1> QED
  BY <1>3, <1>4, <1>5, <1>6 DEF MapOut

\* Records cut from the front leave all the others to be returned.
LEMMA CutReturns ==
  ASSUME NEW m, Intact(m), NEW num \in Nat, NEW x, x \in DOMAIN MapCutFront(m, num).recs
  PROVE  Returns(MapCutFront(m, num), x)
<1>1. PICK D, ks, vs, c : Holds(m, D, ks, vs, c)
  BY DEF Intact
<1>2. PICK n : n = MapCutFront(m, num)
  OBVIOUS
<1>3. PICK E, ls, ws, d : /\ E = RestKeys(ks, num) /\ ls = Rest(ks, num)
                          /\ ws = Of(vs, RestKeys(ks, num)) /\ d = Follower(Rest(ks, num), 0)
  OBVIOUS
<1>4. Holds(n, E, ls, ws, d)
  BY <1>1, <1>2, <1>3, CutFrontHolds DEF LeftAfter
<1>5. x \in E /\ Lists(ls, E)
  BY <1>2, <1>4, ReturnsIs, HoldsFacts
<1>6. Reaches(ls, d, x)
  BY <1>3, <1>5, FirstReaches
<1> QED
  BY <1>2, <1>4, <1>6, ReturnsIs

\* The iterator moves on by one record, and leaves only that one behind.
LEMMA NextReturns ==
  ASSUME NEW m, Intact(m), NEW x, Returns(m, x)
  PROVE  m.cur # None /\ (x # m.cur => Returns(MapIterNext(m), x))
<1>1. PICK D, ks, vs, c : Holds(m, D, ks, vs, c)
  BY DEF Intact
<1>2. Lists(ks, D) /\ Reaches(ks, c, x) /\ m.cur = c /\ c \in D /\ None \notin D
  BY <1>1, ReturnsIs, HoldsFacts
<1>3. ASSUME x # c
      PROVE  Returns(MapIterNext(m), x)
  <2>1. PICK n : n = MapIterNext(m)
    OBVIOUS
  <2>2. Holds(n, D, ks, vs, Behind(ks, c))
    BY <1>1, <1>2, <2>1, IterHolds
  <2>3. Reaches(ks, Behind(ks, c), x)
    BY <1>2, <1>3, NextReaches
  <2> QED
    BY <2>1, <2>2, <2>3, ReturnsIs
<1> QED
  BY <1>2, <1>3

\* An iterator put on d has what d reaches to return, and the first record
\* reaches them all.
LEMMA PutOnReturns ==
  ASSUME NEW m, Intact(m), NEW d \in Ptr(DOMAIN m.recs), NEW n, n = [m EXCEPT !.cur = d]
  PROVE  /\ Order(n) = Order(m) /\ n.first = m.first /\ n.cur = d
         /\ \A x : Returns(n, x) <=> Reaches(Order(m), d, x)
         /\ d = m.first => \A x \in DOMAIN m.recs : Returns(n, x)
<1>1. PICK D, ks, vs, c : Holds(m, D, ks, vs, c)
  BY DEF Intact
<1>2. DOMAIN m.recs = D /\ Order(m) = ks /\ m.first = Follower(ks, 0) /\ Lists(ks, D)
  BY <1>1, ReturnsIs, HoldsFacts
<1>3. Holds(n, D, ks, vs, d)
  BY <1>1, <1>2, CurHolds
<1>4. n.first = Follower(ks, 0) /\ Order(n) = ks /\ n.cur = d
  BY <1>3, ReturnsIs
<1>5. \A x : Returns(n, x) <=> Reaches(ks, d, x)
  BY <1>4 DEF Returns
<1> QED
  BY <1>2, <1>4, <1>5, FirstReaches
================================================================================
