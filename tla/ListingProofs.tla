--------------------------- MODULE ListingProofs ---------------------------
(***************************************************************************)
(* Theorems about the listings and the walk over their pages.              *)
(***************************************************************************)
EXTENDS Listing, DirectoriesProofs, FiniteSetTheorems, SequenceTheorems

(* The pages and sizes that clients may name are so far from the largest   *)
(* integer that no offset overflows.                                       *)
SizeOf(l) == IF l < 1 THEN DefaultPageSize ELSE l
NumberOf(p) == IF p < 1 THEN 1 ELSE p

PagesFit ==
    /\ IsFiniteSet(Dirs)
    /\ \A p \in FirstPages, l \in Limits :
         SizeOf(l) * NumberOf(p) + Cardinality(Dirs) + 1 <= MaxInt

----------------------------------------------------------------------------
(* Integers.                                                               *)

LEMMA WrapsNot ==
    ASSUME MaxInt \in Nat, NEW n \in 0 .. MaxInt
    PROVE  Wrap(n) = n
<1>1. PICK a, b : a = n + MaxInt + 1 /\ b = 2 * (MaxInt + 1)
  OBVIOUS
<1>2. a \in Nat /\ b \in Nat /\ b > 0 /\ a < b
  BY <1>1
<1>3. a % b = a
  BY <1>2
<1>4. QED
  BY <1>1, <1>3 DEF Wrap

----------------------------------------------------------------------------
(* A query: its rows, and the order they come in.                          *)

AgesDiffer == \A d, e \in Dirs : Exists(d) /\ born[d] = born[e] => d = e

(* What the table is like when it is read.                                 *)
Readable == TableInv /\ AgesDiffer /\ IsFiniteSet(Dirs) /\ ask \in Ask

LEMMA VisibleRows ==
    ASSUME TableInv, NEW t
    PROVE  /\ Visible(t) \subseteq Dirs
           /\ \A y \in Visible(t) : Exists(y) /\ born[y] \in Int
           /\ \A y \in Visible(t) : parent[y] \in Visible(t) => born[parent[y]] < born[y]
BY NoDirAssumption DEF Visible, ExistsAt, Exists, TableInv, TableTypeOK, Forest, Root

(* Nobody is above itself by way of others.                                *)
LEMMA AboveIsOlder ==
    ASSUME TableInv, NEW t, NEW x \in Visible(t), NEW y, Above(x, y, t)
    PROVE  y \in Visible(t) /\ (x = y \/ born[x] < born[y])
<1>1. PICK V : V = Visible(t)
  OBVIOUS
<1>2. y \in Below(parent, x, V) /\ x \in V
  BY <1>1 DEF Above
<1>3. /\ \A z \in V : born[z] \in Int
      /\ \A z \in V : parent[z] \in V => born[parent[z]] < born[z]
  BY <1>1, VisibleRows
<1>4. y \in V
  BY <1>2, BelowIsClosed
<1>5. y # x => born[x] < born[y]
  BY <1>2, <1>3, BelowIsYounger
<1>6. QED
  BY <1>1, <1>4, <1>5

LEMMA KindsOfListings ==
    ASSUME ask \in Ask
    PROVE  /\ ask.kind \in {"roots", "children", "parents", "until"}
           /\ ask.kind # "roots" => ask.dir \in Dirs
           /\ ask.kind = "until" => ask.anc \in Dirs
           /\ ask.deleted \in BOOLEAN
BY ListingAssumption DEF Ask

LEMMA RowsAreVisible ==
    ASSUME ask \in Ask, NEW t
    PROVE  RowsAt(t) \subseteq Visible(t)
<1>1. RootsAt(t) \subseteq Visible(t) /\ ParentsAt(t) \subseteq Visible(t)
  BY DEF RootsAt, ParentsAt
<1>2. ChildrenAt(t) \subseteq Visible(t)
  BY BelowIsClosed DEF ChildrenAt
<1>3. UntilAt(t) \subseteq Visible(t)
  BY <1>1 DEF UntilAt
<1>4. QED
  BY <1>1, <1>2, <1>3, KindsOfListings DEF RowsAt

LEMMA PairsAtATime ==
    ASSUME NEW t, NEW x, NEW y
    PROVE  <<x, y>> \in Pairs(t) <=> x \in RowsAt(t) /\ y \in RowsAt(t) /\ Above(x, y, t)
BY DEF Pairs, Above

LEMMA LevelIsANumber ==
    ASSUME IsFiniteSet(Dirs), NEW x, NEW pairs
    PROVE  Level(x, pairs) \in Nat
<1>1. /\ Cardinality({ y \in Dirs : <<y, x>> \in pairs }) \in Nat
      /\ Cardinality({ y \in Dirs : <<x, y>> \in pairs }) \in Nat
  <2>1. { y \in Dirs : <<y, x>> \in pairs } \subseteq Dirs /\ { y \in Dirs : <<x, y>> \in pairs } \subseteq Dirs
    OBVIOUS
  <2>2. QED
    BY <2>1, FS_Subset, FS_CardinalityType
<1>2. QED
  BY <1>1 DEF Level

LEMMA BeforeIsAnOrder ==
    ASSUME Readable, NEW t
    PROVE  /\ \A x \in RowsAt(t) : <<x, x>> \notin Before(t)
           /\ \A x, y, z \in RowsAt(t) :
                <<x, y>> \in Before(t) /\ <<y, z>> \in Before(t) => <<x, z>> \in Before(t)
           /\ \A x, y \in RowsAt(t) : x = y \/ <<x, y>> \in Before(t) \/ <<y, x>> \in Before(t)
<1>1. PICK S, pairs : S = RowsAt(t) /\ pairs = Pairs(t)
  OBVIOUS
<1>2. PICK level : level = [x \in S |-> Level(x, pairs)]
  OBVIOUS
<1>3. \A x \in S : level[x] \in Nat
  BY <1>2, LevelIsANumber DEF Readable
<1>4. \A x \in S : x \in Dirs /\ Exists(x) /\ born[x] \in Int
  BY <1>1, RowsAreVisible, VisibleRows DEF Readable
<1>5. \A x, y \in S : <<x, y>> \in Before(t) <=>
                        \/ level[x] < level[y]
                        \/ level[x] = level[y] /\ born[x] < born[y]
  BY <1>1, <1>2 DEF Before
<1>6. \A x \in S : <<x, x>> \notin Before(t)
  BY <1>3, <1>4, <1>5
<1>7. ASSUME NEW x \in S, NEW y \in S, NEW z \in S, <<x, y>> \in Before(t), <<y, z>> \in Before(t)
      PROVE  <<x, z>> \in Before(t)
  <2>1. /\ level[x] \in Nat /\ level[y] \in Nat /\ level[z] \in Nat
        /\ born[x] \in Int /\ born[y] \in Int /\ born[z] \in Int
    BY <1>3, <1>4
  <2>2. /\ level[x] < level[y] \/ (level[x] = level[y] /\ born[x] < born[y])
        /\ level[y] < level[z] \/ (level[y] = level[z] /\ born[y] < born[z])
    BY <1>5, <1>7
  <2>3. level[x] < level[z] \/ (level[x] = level[z] /\ born[x] < born[z])
    BY <2>1, <2>2
  <2>4. QED
    BY <1>5, <2>3
<1>8. ASSUME NEW x \in S, NEW y \in S, x # y
      PROVE  <<x, y>> \in Before(t) \/ <<y, x>> \in Before(t)
  <2>1. born[x] # born[y]
    BY <1>4, <1>8 DEF Readable, AgesDiffer
  <2>2. level[x] \in Nat /\ level[y] \in Nat /\ born[x] \in Int /\ born[y] \in Int
    BY <1>3, <1>4
  <2>3. QED
    BY <1>5, <2>1, <2>2
<1>9. QED
  BY <1>1, <1>6, <1>7, <1>8

PlaceAt(t) == Rank(RowsAt(t), Before(t))

(* The rows of a query are those of its set, each in its place.            *)
LEMMA QueryInOrder ==
    ASSUME Readable, NEW t
    PROVE  /\ IsFiniteSet(RowsAt(t)) /\ Cardinality(RowsAt(t)) \in Nat
           /\ Query(t) \in Seq(RowsAt(t)) /\ Len(Query(t)) = Cardinality(RowsAt(t))
           /\ \A x \in RowsAt(t) : /\ PlaceAt(t)[x] \in 0 .. Len(Query(t)) - 1
                                   /\ Query(t)[PlaceAt(t)[x] + 1] = x
           /\ \A i \in 1 .. Len(Query(t)) : Query(t)[i] \in RowsAt(t) /\ PlaceAt(t)[Query(t)[i]] = i - 1
           /\ \A x, y \in RowsAt(t) : <<x, y>> \in Before(t) => PlaceAt(t)[x] < PlaceAt(t)[y]
<1> DEFINE S == RowsAt(t)
           R == Before(t)
           n == Cardinality(S)
<1>1. S = RowsAt(t) /\ n = Cardinality(S)
  OBVIOUS
<1>a. R = Before(t)
  OBVIOUS
<1> HIDE DEF S, R, n
<1>2. IsFiniteSet(S) /\ n \in Nat
  BY <1>1, RowsAreVisible, FS_Subset, FS_CardinalityType DEF Readable, Visible
<1>3. PICK rank : rank = Rank(S, R)
  OBVIOUS
<1>4. /\ \A x \in S : rank[x] \in 0 .. n - 1
      /\ \A x, y \in S : <<x, y>> \in R => rank[x] < rank[y]
      /\ \A x, y \in S : rank[x] = rank[y] => x = y
      /\ \A i \in 0 .. n - 1 : \E x \in S : rank[x] = i
  <2>1. /\ \A x \in S : <<x, x>> \notin R
        /\ \A x, y, z \in S : <<x, y>> \in R /\ <<y, z>> \in R => <<x, z>> \in R
        /\ \A x, y \in S : x = y \/ <<x, y>> \in R \/ <<y, x>> \in R
    BY <1>1, <1>a, BeforeIsAnOrder
  <2>2. QED
    BY <1>1, <1>2, <1>3, <2>1, EachHasItsPlace
<1>5. Query(t) = [i \in 1 .. n |-> CHOOSE x \in S : rank[x] = i - 1]
  <2>1. Query(t) = [i \in 1 .. n |-> CHOOSE x \in S : Cardinality({ y \in S : <<y, x>> \in R }) = i - 1]
    BY DEF Query, S, R, n
  <2>2. \A x \in S : rank[x] = Cardinality({ y \in S : <<y, x>> \in R })
    BY <1>3 DEF Rank
  <2>3. \A i \in 1 .. n : (CHOOSE x \in S : Cardinality({ y \in S : <<y, x>> \in R }) = i - 1)
                            = (CHOOSE x \in S : rank[x] = i - 1)
    BY <2>2
  <2>4. QED
    BY <2>1, <2>3
<1>6. \A i \in 1 .. n : Query(t)[i] \in S /\ rank[Query(t)[i]] = i - 1
  <2> SUFFICES ASSUME NEW i \in 1 .. n
               PROVE  Query(t)[i] \in S /\ rank[Query(t)[i]] = i - 1
    OBVIOUS
  <2>1. i - 1 \in 0 .. n - 1
    BY <1>2
  <2>2. \E x \in S : rank[x] = i - 1
    BY <1>4, <2>1
  <2>3. Query(t)[i] = CHOOSE x \in S : rank[x] = i - 1
    BY <1>5
  <2>4. QED
    BY <2>2, <2>3
<1>7. Query(t) \in [1 .. n -> S]
  BY <1>5, <1>6
<1>8. Query(t) \in Seq(S) /\ Len(Query(t)) = n
  BY <1>2, <1>7
<1>9. ASSUME NEW x \in S
      PROVE  Query(t)[rank[x] + 1] = x
  <2>1. rank[x] + 1 \in 1 .. n /\ (rank[x] + 1) - 1 = rank[x]
    BY <1>2, <1>4
  <2>2. Query(t)[rank[x] + 1] \in S /\ rank[Query(t)[rank[x] + 1]] = rank[x]
    BY <1>6, <2>1
  <2>3. QED
    BY <1>4, <2>2
<1>10. PlaceAt(t) = rank
  BY <1>1, <1>a, <1>3 DEF PlaceAt
<1>11. QED
  BY <1>1, <1>a, <1>2, <1>4, <1>6, <1>8, <1>9, <1>10

----------------------------------------------------------------------------
(* The directory that is asked for comes first of its relatives.           *)

LEMMA RowsAreRelated ==
    ASSUME Readable, NEW t, ask.kind # "roots", NEW x \in RowsAt(t)
    PROVE  /\ ask.dir \in Visible(t) /\ x \in Visible(t)
           /\ ask.kind = "children" => Above(ask.dir, x, t)
           /\ ask.kind # "children" => Above(x, ask.dir, t)
<1>1. x \in Visible(t)
  BY RowsAreVisible DEF Readable
<1>2. UntilAt(t) \subseteq ParentsAt(t)
  BY DEF UntilAt
<1>3. ask.kind = "children" => x \in ChildrenAt(t)
  BY DEF RowsAt
<1>4. ask.kind # "children" => x \in ParentsAt(t)
  BY <1>2, KindsOfListings DEF RowsAt, Readable
<1>5. QED
  BY <1>1, <1>3, <1>4 DEF ChildrenAt, ParentsAt, Above

LEMMA DirIsARow ==
    ASSUME Readable, NEW t, ask.kind # "roots", ask.dir \in Visible(t)
    PROVE  ask.dir \in RowsAt(t)
<1>1. Above(ask.dir, ask.dir, t)
  BY BelowIsClosed DEF Above
<1>2. ask.dir \in ChildrenAt(t) /\ ask.dir \in ParentsAt(t)
  BY <1>1 DEF ChildrenAt, ParentsAt, Above
<1>3. ask.dir \in UntilAt(t)
  <2> SUFFICES ASSUME ask.anc \in ParentsAt(t), ask.dir # ask.anc, Above(ask.dir, ask.anc, t)
               PROVE  FALSE
    BY <1>2 DEF UntilAt
  <2>1. ask.anc \in Visible(t) /\ Above(ask.anc, ask.dir, t)
    BY DEF ParentsAt
  <2>2. born[ask.dir] < born[ask.anc] /\ born[ask.anc] < born[ask.dir]
    BY <2>1, AboveIsOlder DEF Readable
  <2>3. born[ask.dir] \in Int /\ born[ask.anc] \in Int
    BY <2>1, VisibleRows DEF Readable
  <2>4. QED
    BY <2>2, <2>3
<1>4. QED
  BY <1>2, <1>3, KindsOfListings DEF RowsAt, Readable

LEMMA DirComesFirst ==
    ASSUME Readable, NEW t, ask.kind # "roots", NEW x \in RowsAt(t)
    PROVE  /\ ask.dir \in RowsAt(t)
           /\ x # ask.dir => <<ask.dir, x>> \in Before(t)
<1>1. ask.dir \in RowsAt(t) /\ ask.dir \in Visible(t) /\ ask.dir \in Dirs
  BY RowsAreRelated, DirIsARow, KindsOfListings DEF Readable
<1> DEFINE d == ask.dir
           pairs == Pairs(t)
           L(z) == IF ask.kind = "children" THEN { y \in Dirs : <<y, z>> \in pairs }
                                            ELSE { y \in Dirs : <<z, y>> \in pairs }
<1>2. \A z : Level(z, pairs) = Cardinality(L(z))
  BY KindsOfListings DEF Level, Readable
<1>3. Above(d, d, t) /\ Above(x, x, t)
  BY <1>1, RowsAreVisible, BelowIsClosed DEF Above, Readable
<1>4. L(d) = {d}
  <2>1. d \in L(d)
    BY <1>1, <1>3, PairsAtATime
  <2>2. ASSUME NEW y \in L(d)
        PROVE  y = d
    <3>1. y \in RowsAt(t) /\ (IF ask.kind = "children" THEN Above(y, d, t) ELSE Above(d, y, t))
      BY <2>2, PairsAtATime
    <3>2. y \in Visible(t) /\ (IF ask.kind = "children" THEN Above(d, y, t) ELSE Above(y, d, t))
      BY <3>1, RowsAreRelated
    <3>3. (d = y \/ born[d] < born[y]) /\ (y = d \/ born[y] < born[d])
      BY <1>1, <3>1, <3>2, AboveIsOlder DEF Readable
    <3>4. born[d] \in Int /\ born[y] \in Int
      BY <1>1, <3>2, VisibleRows DEF Readable
    <3>5. QED
      BY <3>3, <3>4
  <2>3. QED
    BY <2>1, <2>2
<1>5. ASSUME x # d
      PROVE  <<d, x>> \in Before(t)
  <2>1. x \in L(x) /\ d \in L(x) /\ L(x) \subseteq Dirs
    BY <1>1, <1>3, PairsAtATime, RowsAreRelated, VisibleRows DEF Readable
  <2>2. IsFiniteSet(L(x)) /\ Cardinality(L(x)) \in Nat /\ Cardinality(L(d)) \in Nat
    BY <1>4, <2>1, FS_Subset, FS_CardinalityType DEF Readable
  <2>3. Cardinality(L(d)) <= Cardinality(L(x)) /\ Cardinality(L(d)) # Cardinality(L(x))
    BY <1>4, <1>5, <2>1, <2>2, FS_Subset
  <2>4. Level(d, pairs) < Level(x, pairs)
    BY <1>2, <2>2, <2>3
  <2>5. QED
    BY <1>1, <2>4 DEF Before
<1>6. QED
  BY <1>1, <1>5

----------------------------------------------------------------------------
(* What a query finds at time u that it found before, at time t.           *)

LEMMA VisibleGrows ==
    ASSUME Readable, NEW t \in Nat, NEW u \in Nat, t <= u,
           ask.deleted \/ Deletions(t, u) = {}
    PROVE  /\ Visible(t) \subseteq Visible(u)
           /\ \A y \in Visible(t) : born[y] <= t
           /\ \A y \in Visible(u) \ Visible(t) : t < born[y]
<1> USE DEF Readable, TableInv, TableTypeOK
<1>1. \A x \in Dirs : born[x] \in Nat /\ died[x] \in Nat
  OBVIOUS
<1>2. ASSUME NEW x \in Visible(t)
      PROVE  x \in Visible(u)
  <2>1. x \in Dirs /\ ExistsAt(x, t) /\ (ask.deleted \/ LiveAt(x, t))
    BY DEF Visible
  <2>2. ExistsAt(x, u)
    BY <1>1, <2>1 DEF ExistsAt
  <2>3. ask.deleted \/ LiveAt(x, u)
    BY <1>1, <2>1, <2>2 DEF LiveAt, Deletions
  <2>4. QED
    BY <2>1, <2>2, <2>3 DEF Visible
<1>3. ASSUME NEW y \in Visible(u), y \notin Visible(t)
      PROVE  t < born[y]
  <2>1. y \in Dirs /\ ExistsAt(y, u) /\ (ask.deleted \/ LiveAt(y, u))
    BY DEF Visible
  <2>2. ~ExistsAt(y, t) \/ (~ask.deleted /\ ~LiveAt(y, t))
    BY <1>3, <2>1 DEF Visible
  <2>3. ~ExistsAt(y, t)
    BY <1>1, <2>1, <2>2 DEF LiveAt, ExistsAt
  <2>4. QED
    BY <1>1, <2>1, <2>3 DEF ExistsAt
<1>4. QED
  BY <1>2, <1>3 DEF Visible, ExistsAt

LEMMA RelationsStay ==
    ASSUME Readable, NEW t \in Nat, NEW u \in Nat, t <= u,
           ask.deleted \/ Deletions(t, u) = {},
           NEW x \in Visible(u), NEW y \in Visible(t)
    PROVE  Above(x, y, u) <=> x \in Visible(t) /\ Above(x, y, t)
<1>1. PICK V, W : V = Visible(t) /\ W = Visible(u)
  OBVIOUS
<1>2. /\ V \subseteq W /\ \A z \in V : born[z] <= t
      /\ \A z \in W \ V : t < born[z]
      /\ \A z \in W : born[z] \in Int /\ (parent[z] \in W => born[parent[z]] < born[z])
  BY <1>1, VisibleGrows, VisibleRows DEF Readable
<1>3. \A z \in V : parent[z] \notin W \ V
  <2> SUFFICES ASSUME NEW z \in V, parent[z] \in W \ V
               PROVE  FALSE
    OBVIOUS
  <2>1. born[z] <= t /\ t < born[parent[z]] /\ born[parent[z]] < born[z]
    BY <1>2
  <2>2. born[z] \in Int /\ born[parent[z]] \in Int
    BY <1>2
  <2>3. QED
    BY <2>1, <2>2
<1>4. CASE x \in V
  <2>1. Below(parent, x, W) \cap V = Below(parent, x, V)
    BY <1>2, <1>3, <1>4, BelowIsKept
  <2>2. QED
    BY <1>1, <1>4, <2>1 DEF Above
<1>5. CASE x \notin V
  <2>1. t < born[x] /\ born[y] <= t /\ born[x] \in Int /\ born[y] \in Int
    BY <1>1, <1>2, <1>5
  <2>2. Above(x, y, u) => x = y \/ born[x] < born[y]
    BY AboveIsOlder DEF Readable
  <2>3. QED
    BY <1>1, <1>5, <2>1, <2>2
<1>6. QED
  BY <1>4, <1>5

LEMMA RowsGrow ==
    ASSUME Readable, NEW t \in Nat, NEW u \in Nat, t <= u,
           ask.deleted \/ Deletions(t, u) = {}
    PROVE  /\ RowsAt(t) \subseteq RowsAt(u)
           /\ ask.kind \notin {"roots", "children"} /\ RowsAt(t) # {} => RowsAt(u) = RowsAt(t)
<1> USE DEF Readable
<1>1. Visible(t) \subseteq Visible(u)
  BY VisibleGrows
<1>2. \A x \in Visible(u), y \in Visible(t) : Above(x, y, u) <=> x \in Visible(t) /\ Above(x, y, t)
  BY RelationsStay
<1>3. CASE ask.kind = "roots"
  BY <1>1, <1>3 DEF RowsAt, RootsAt
<1>4. CASE ask.kind = "children"
  <2> SUFFICES ASSUME NEW x \in RowsAt(t)
               PROVE  x \in RowsAt(u)
    BY <1>4
  <2>1. ask.dir \in Visible(t) /\ x \in Visible(t) /\ Above(ask.dir, x, t)
    BY <1>4, RowsAreRelated
  <2>2. ask.dir \in Visible(u) /\ Above(ask.dir, x, u)
    BY <1>1, <1>2, <2>1
  <2>3. QED
    BY <1>4, <2>2 DEF RowsAt, ChildrenAt, Above
<1>5. CASE ask.kind \in {"parents", "until"}
  <2>1. CASE ask.dir \in Visible(t)
    <3>1. ParentsAt(u) = ParentsAt(t)
      BY <1>1, <1>2, <2>1 DEF ParentsAt
    <3>2. ASSUME NEW x \in ParentsAt(t), ask.anc \in ParentsAt(t)
          PROVE  Above(x, ask.anc, u) <=> Above(x, ask.anc, t)
      BY <1>1, <1>2, <3>2 DEF ParentsAt
    <3>3. UntilAt(u) = UntilAt(t)
      BY <3>1, <3>2 DEF UntilAt
    <3>4. QED
      BY <1>5, <3>1, <3>3 DEF RowsAt
  <2>2. CASE ask.dir \notin Visible(t)
    <3>1. RowsAt(t) = {}
      BY <1>5, <2>2, RowsAreRelated
    <3>2. QED
      BY <1>5, <3>1
  <2>3. QED
    BY <2>1, <2>2
<1>6. QED
  BY <1>3, <1>4, <1>5, KindsOfListings

LEMMA OrderStays ==
    ASSUME Readable, NEW t \in Nat, NEW u \in Nat, t <= u,
           ask.deleted \/ Deletions(t, u) = {},
           NEW x \in RowsAt(t), NEW y \in RowsAt(t), <<x, y>> \in Before(t)
    PROVE  <<x, y>> \in Before(u)
<1> USE DEF Readable
<1>1. RowsAt(t) \subseteq RowsAt(u) /\ RowsAt(t) \subseteq Visible(t) /\ RowsAt(u) \subseteq Visible(u)
  BY RowsGrow, RowsAreVisible
<1>2. \A z \in Visible(u), w \in Visible(t) : Above(z, w, u) <=> z \in Visible(t) /\ Above(z, w, t)
  BY RelationsStay
<1>3. ASSUME NEW z \in RowsAt(t)
      PROVE  Level(z, Pairs(u)) = Level(z, Pairs(t))
  <2>1. CASE ask.kind = "roots"
    BY <2>1 DEF Level
  <2>2. CASE ask.kind = "children"
    <3>1. \A w \in Dirs : <<w, z>> \in Pairs(u) <=> <<w, z>> \in Pairs(t)
      <4> SUFFICES ASSUME NEW w \in Dirs
                   PROVE  <<w, z>> \in Pairs(u) <=> <<w, z>> \in Pairs(t)
        OBVIOUS
      <4>1. <<w, z>> \in Pairs(t) => <<w, z>> \in Pairs(u)
        BY <1>1, <1>2, PairsAtATime
      <4>2. ASSUME <<w, z>> \in Pairs(u)
            PROVE  w \in RowsAt(t) /\ Above(w, z, t)
        <5>1. w \in RowsAt(u) /\ Above(w, z, u)
          BY <4>2, PairsAtATime
        <5>2. w \in Visible(t) /\ Above(w, z, t)
          BY <1>1, <1>2, <5>1
        <5>3. Above(ask.dir, w, u) /\ ask.dir \in Visible(u)
          BY <2>2, <5>1, RowsAreRelated
        <5>4. Above(ask.dir, w, t) /\ ask.dir \in Visible(t)
          BY <1>2, <5>2, <5>3
        <5>5. QED
          BY <2>2, <5>2, <5>4 DEF RowsAt, ChildrenAt, Above
      <4>3. QED
        BY <4>1, <4>2, PairsAtATime
    <3>2. { w \in Dirs : <<w, z>> \in Pairs(u) } = { w \in Dirs : <<w, z>> \in Pairs(t) }
      BY <3>1
    <3>3. QED
      BY <2>2, <3>2 DEF Level
  <2>3. CASE ask.kind \in {"parents", "until"}
    <3>1. RowsAt(u) = RowsAt(t)
      BY <2>3, RowsGrow
    <3>2. \A w \in Dirs : <<z, w>> \in Pairs(u) <=> <<z, w>> \in Pairs(t)
      BY <1>1, <1>2, <3>1, PairsAtATime
    <3>3. { w \in Dirs : <<z, w>> \in Pairs(u) } = { w \in Dirs : <<z, w>> \in Pairs(t) }
      BY <3>2
    <3>4. QED
      BY <2>3, <3>3 DEF Level
  <2>4. QED
    BY <2>1, <2>2, <2>3, KindsOfListings
<1>4. \/ Level(x, Pairs(t)) < Level(y, Pairs(t))
      \/ Level(x, Pairs(t)) = Level(y, Pairs(t)) /\ born[x] < born[y]
  BY DEF Before
<1>5. QED
  BY <1>1, <1>3, <1>4 DEF Before

(* A row moves on to a later place, or stays where it is.                  *)
LEMMA PlacesGrow ==
    ASSUME Readable, NEW t \in Nat, NEW u \in Nat, t <= u,
           ask.deleted \/ Deletions(t, u) = {}, NEW x \in RowsAt(t)
    PROVE  x \in RowsAt(u) /\ PlaceAt(t)[x] <= PlaceAt(u)[x]
<1> DEFINE P == { y \in RowsAt(t) : <<y, x>> \in Before(t) }
           Q == { y \in RowsAt(u) : <<y, x>> \in Before(u) }
<1>1. x \in RowsAt(u) /\ RowsAt(t) \subseteq RowsAt(u)
  BY RowsGrow
<1>2. P \subseteq Q
  BY <1>1, OrderStays
<1>3. IsFiniteSet(Q) /\ Q \subseteq RowsAt(u)
  BY QueryInOrder, FS_Subset
<1>4. Cardinality(P) <= Cardinality(Q)
  BY <1>2, <1>3, FS_Subset
<1>5. PlaceAt(t)[x] = Cardinality(P) /\ PlaceAt(u)[x] = Cardinality(Q)
  BY <1>1 DEF PlaceAt, Rank
<1>6. QED
  BY <1>1, <1>4, <1>5

----------------------------------------------------------------------------
(* The past is fixed: no step of the table changes what was there at a     *)
(* time that has gone by.                                                  *)
LEMMA PastIsFixed ==
    ASSUME TableInv, TableInv', [TableNext]_tableVars, NEW t \in 0 .. now
    PROVE  /\ \A x \in Dirs : /\ ExistsAt(x, t)' <=> ExistsAt(x, t)
                              /\ LiveAt(x, t)' <=> LiveAt(x, t)
           /\ now <= now' /\ follower <= follower'
           /\ \A x \in Dirs : died'[x] = died[x] \/ (died[x] = 0 /\ now < died'[x])
<1> USE DEF TableInv, TableTypeOK
<1>1. now \in Nat /\ \A x \in Dirs : born[x] \in 0 .. now /\ died[x] \in 0 .. now
  OBVIOUS
<1>2. ASSUME NEW d \in Dirs, NEW p \in Dirs \cup {NoDir}, NEW text \in Text, Insert(d, p, text)
      PROVE  /\ died' = died /\ follower' = follower /\ now' = now + 1
             /\ born[d] = 0 /\ born'[d] = now + 1 /\ \A x \in Dirs \ {d} : born'[x] = born[x]
  BY <1>2 DEF Insert, Commit, Exists
<1>3. ASSUME NEW d \in Dirs, SoftDelete(d)
      PROVE  /\ born' = born /\ follower' = follower /\ now <= now'
             /\ \A x \in Dirs : died'[x] = died[x] \/ (died[x] = 0 /\ died'[x] = now + 1)
  BY <1>3, DoomedRows DEF SoftDelete, Commit, Live
<1>4. CASE born' = born /\ died' = died
  <2>1. now <= now' /\ follower <= follower'
    BY <1>1, <1>4 DEF TableNext, Insert, UpdateRow, SoftDelete, CatchUp, Commit, tableVars
  <2>2. QED
    BY <1>4, <2>1 DEF ExistsAt, LiveAt
<1>5. ASSUME NEW d \in Dirs, NEW p \in Dirs \cup {NoDir}, NEW text \in Text, Insert(d, p, text)
      PROVE  /\ \A x \in Dirs : /\ ExistsAt(x, t)' <=> ExistsAt(x, t)
                                /\ LiveAt(x, t)' <=> LiveAt(x, t)
             /\ now <= now' /\ follower <= follower' /\ died' = died
  <2>1. /\ died' = died /\ follower' = follower /\ now' = now + 1
        /\ born[d] = 0 /\ born'[d] = now + 1 /\ \A x \in Dirs \ {d} : born'[x] = born[x]
    BY <1>2, <1>5
  <2>2. follower \in Nat
    OBVIOUS
  <2>3. ASSUME NEW x \in Dirs
        PROVE  ExistsAt(x, t)' <=> ExistsAt(x, t)
    BY <1>1, <2>1 DEF ExistsAt
  <2>4. \A x \in Dirs : LiveAt(x, t)' <=> LiveAt(x, t)
    BY <2>1, <2>3 DEF LiveAt
  <2>5. QED
    BY <1>1, <2>1, <2>2, <2>3, <2>4
<1>6. ASSUME NEW d \in Dirs, SoftDelete(d)
      PROVE  /\ \A x \in Dirs : /\ ExistsAt(x, t)' <=> ExistsAt(x, t)
                                /\ LiveAt(x, t)' <=> LiveAt(x, t)
             /\ now <= now' /\ follower <= follower'
             /\ \A x \in Dirs : died'[x] = died[x] \/ (died[x] = 0 /\ now < died'[x])
  BY <1>1, <1>3, <1>6 DEF ExistsAt, LiveAt
<1>7. QED
  BY <1>4, <1>5, <1>6 DEF TableNext, UpdateRow, CatchUp, tableVars

LEMMA RowsAreFixed ==
    ASSUME TableInv, TableInv', [TableNext]_tableVars, ask' = ask, ask \in Ask, NEW t \in 0 .. now
    PROVE  Visible(t)' = Visible(t) /\ RowsAt(t)' = RowsAt(t) /\ Before(t)' = Before(t)
<1>1. Visible(t)' = Visible(t)
  BY PastIsFixed DEF Visible
<1>2. \A x \in Visible(t) : parent'[x] = parent[x] /\ born'[x] = born[x]
  BY HistoryStep DEF Visible, ExistsAt, Exists, TableInv
<1>3. \A x \in Visible(t) : Below(parent', x, Visible(t)) = Below(parent, x, Visible(t))
  <2> SUFFICES ASSUME NEW x \in Visible(t)
               PROVE  Below(parent', x, Visible(t)) = Below(parent, x, Visible(t))
    OBVIOUS
  <2>1. PICK V : V = Visible(t)
    OBVIOUS
  <2>2. Below(parent', x, V) \subseteq Below(parent, x, V) /\ Below(parent, x, V) \subseteq Below(parent', x, V)
    BY <1>2, <2>1, BelowGrows
  <2>3. QED
    BY <2>1, <2>2
<1>4. \A x \in Visible(t) : \A y : Above(x, y, t)' <=> Above(x, y, t)
  BY <1>1, <1>3 DEF Above
<1>5. RowsAt(t)' = RowsAt(t)
  <2>1. RootsAt(t)' = RootsAt(t)
    BY <1>1, <1>2 DEF RootsAt, Root
  <2>2. ChildrenAt(t)' = ChildrenAt(t)
    BY <1>1, <1>3 DEF ChildrenAt
  <2>3. ParentsAt(t)' = ParentsAt(t)
    BY <1>1, <1>4 DEF ParentsAt
  <2>4. UntilAt(t)' = UntilAt(t)
    BY <1>4, <2>3 DEF UntilAt, ParentsAt
  <2>5. QED
    BY <2>1, <2>2, <2>3, <2>4 DEF RowsAt
<1>6. RowsAt(t) \subseteq Visible(t)
  BY RowsAreVisible
<1>7. Pairs(t)' = Pairs(t)
  BY <1>1, <1>3, <1>5, <1>6 DEF Pairs
<1>8. Before(t)' = Before(t)
  BY <1>2, <1>5, <1>6, <1>7 DEF Before, Level
<1>9. QED
  BY <1>1, <1>5, <1>8

----------------------------------------------------------------------------
(* Pages.                                                                  *)

(* rows[from : from + size], as far as there are rows.                     *)
Cut(rows, from, size) ==
    IF from >= Len(rows)
      THEN <<>>
      ELSE SubSeq(rows, from + 1, IF from + size > Len(rows) THEN Len(rows) ELSE from + size)

LEMMA CutsOut ==
    ASSUME NEW S, NEW rows \in Seq(S), NEW from \in Nat, NEW size \in Nat \ {0},
           NEW cut, cut = Cut(rows, from, size)
    PROVE  /\ cut \in Seq(S) /\ Len(cut) <= size
           /\ \A i \in 1 .. Len(cut) : from + i \in 1 .. Len(rows) /\ cut[i] = rows[from + i]
           /\ \A j \in 1 .. Len(rows) :
                from < j /\ j <= from + size => j - from \in 1 .. Len(cut)
           /\ Len(cut) = size => from + size <= Len(rows)
           /\ Len(cut) # size => Len(rows) < from + size
<1>1. PICK n \in Nat : n = Len(rows)
  BY LenProperties
<1>2. CASE from >= n
  <2>1. cut = <<>> /\ Len(cut) = 0
    BY <1>1, <1>2 DEF Cut
  <2>2. cut \in Seq(S)
    BY <2>1
  <2>3. QED
    BY <1>1, <1>2, <2>1, <2>2
<1>3. CASE from < n
  <2>1. PICK to : to = IF from + size > n THEN n ELSE from + size
    OBVIOUS
  <2>2. /\ to \in from + 1 - 1 .. n /\ from + 1 \in 1 .. n + 1
        /\ to - (from + 1) + 1 = to - from
    BY <1>1, <1>3, <2>1
  <2>3. cut = SubSeq(rows, from + 1, to)
    BY <1>1, <1>3, <2>1 DEF Cut
  <2>4. /\ cut \in Seq(S) /\ Len(cut) = to - from
        /\ \A i \in 1 .. to - from : cut[i] = rows[from + 1 + i - 1]
    BY <1>1, <2>2, <2>3, SubSeqProperties
  <2>5. \A i \in 1 .. to - from : from + 1 + i - 1 = from + i
    OBVIOUS
  <2>6. \A i \in 1 .. Len(cut) : from + i \in 1 .. n /\ cut[i] = rows[from + i]
    BY <1>1, <1>3, <2>1, <2>4, <2>5
  <2>7. QED
    BY <1>1, <1>3, <2>1, <2>4, <2>6
<1>4. QED
  BY <1>1, <1>2, <1>3

(* cut is what Cut gives, with its length.                                 *)
IsCut(cut, rows, from, size) ==
    /\ cut \in Seq(Dirs) /\ Len(cut) \in Nat
    /\ Len(cut) = IF from >= Len(rows) THEN 0
                  ELSE IF from + size > Len(rows) THEN Len(rows) - from ELSE size
    /\ \A i \in 1 .. Len(cut) : from + i \in 1 .. Len(rows) /\ cut[i] = rows[from + i]

LEMMA LengthOfCut ==
    ASSUME NEW rows \in Seq(Dirs), NEW from \in Nat, NEW size \in Nat \ {0}
    PROVE  IsCut(Cut(rows, from, size), rows, from, size)
<1>1. PICK n \in Nat : n = Len(rows)
  BY LenProperties
<1>2. PICK cut : cut = Cut(rows, from, size)
  OBVIOUS
<1>3. CASE from >= n
  <2>1. cut = <<>> /\ Len(cut) = 0
    BY <1>1, <1>2, <1>3 DEF Cut
  <2>2. cut \in Seq(Dirs)
    BY <2>1
  <2>3. QED
    BY <1>1, <1>2, <1>3, <2>1, <2>2 DEF IsCut
<1>4. CASE from < n
  <2>1. PICK to : to = IF from + size > n THEN n ELSE from + size
    OBVIOUS
  <2>2. /\ to \in from + 1 - 1 .. n /\ from + 1 \in 1 .. n + 1
        /\ to - (from + 1) + 1 = to - from
    BY <1>1, <1>4, <2>1
  <2>3. cut = SubSeq(rows, from + 1, to)
    BY <1>1, <1>2, <1>4, <2>1 DEF Cut
  <2>4. /\ cut \in Seq(Dirs) /\ Len(cut) = to - from
        /\ \A i \in 1 .. to - from : cut[i] = rows[from + 1 + i - 1]
    BY <1>1, <2>2, <2>3, SubSeqProperties
  <2>5. \A i \in 1 .. to - from : from + 1 + i - 1 = from + i
    OBVIOUS
  <2>6. \A i \in 1 .. Len(cut) : from + i \in 1 .. n /\ cut[i] = rows[from + i]
    BY <1>1, <1>4, <2>1, <2>4, <2>5
  <2>7. QED
    BY <1>1, <1>2, <1>4, <2>1, <2>4, <2>6 DEF IsCut
<1>5. QED
  BY <1>1, <1>3, <1>4

Skip == IF ask.kind = "roots" THEN 0 ELSE 1

CutAt(t) == IF ask.kind = "roots" THEN PageOfRoots(Query(t)) ELSE PageOf(Query(t))

(* The page asked for is in the range of the integers, and what comes      *)
(* after it, too.                                                          *)
Fits ==
    /\ GetPageSize \in Nat \ {0} /\ GetPage \in Nat \ {0}
    /\ GetPageSize + Cardinality(Dirs) + 1 <= MaxInt
    /\ GetPageSize * GetPage + 1 <= MaxInt

(* What then comes in a page, of the rows in their places.                 *)
LEMMA NoOverflow ==
    ASSUME IsFiniteSet(Dirs), Fits, NEW S, NEW rows \in Seq(S)
    PROVE  /\ GetPageSize * (GetPage - 1) \in Nat
           /\ GetPageSize * (GetPage - 1) + GetPageSize = GetPageSize * GetPage
           /\ GetPageOffset = GetPageSize * (GetPage - 1)
           /\ PageOfRoots(rows) = Cut(rows, GetPageSize * (GetPage - 1), GetPageSize)
           /\ PageOf(rows) = Cut(rows, 1 + GetPageSize * (GetPage - 1), GetPageSize)
           /\ ~SlicePanics(rows)
<1>1. PICK s, p : s = GetPageSize /\ p = GetPage
  OBVIOUS
<1>2. s \in Nat \ {0} /\ p \in Nat \ {0} /\ p - 1 \in Nat
  BY <1>1 DEF Fits
<1>3. PICK o : o = s * (p - 1)
  OBVIOUS
<1>4. o \in Nat /\ o + s = s * p
  BY <1>2, <1>3, OnePageMore, NoLess
<1>5. MaxInt \in Nat /\ o + s + 1 <= MaxInt
  <2>1. MaxInt \in Nat
    BY ListingAssumption
  <2>2. s * p + 1 <= MaxInt
    BY <1>1 DEF Fits
  <2>3. QED
    BY <1>4, <2>1, <2>2
<1>6. o \in 0 .. MaxInt /\ o + 1 \in 0 .. MaxInt /\ o + 1 + s \in 0 .. MaxInt
  BY <1>2, <1>4, <1>5
<1>7. GetPageOffset = o
  <2>1. GetPageOffset = Wrap(o)
    BY <1>1, <1>3 DEF GetPageOffset
  <2>2. QED
    BY <1>5, <1>6, <2>1, WrapsNot
<1>8. From = o + 1
  BY <1>5, <1>6, <1>7, WrapsNot DEF From
<1>9. Wrap(From + GetPageSize) = o + 1 + s
  BY <1>1, <1>5, <1>6, <1>8, WrapsNot
<1>10. Len(rows) \in Nat
  BY LenProperties
<1>11. PageOfRoots(rows) = Cut(rows, o, s)
  BY <1>1, <1>7 DEF PageOfRoots, Cut
<1>12. PageOf(rows) = Cut(rows, 1 + o, s)
  <2>1. To(rows) = IF 1 + o + s > Len(rows) THEN Len(rows) ELSE 1 + o + s
    BY <1>2, <1>4, <1>9 DEF To
  <2>2. From = 1 + o
    BY <1>4, <1>8
  <2>3. QED
    BY <2>1, <2>2 DEF PageOf, PastTheEnd, Cut
<1>13. ~SlicePanics(rows)
  BY <1>2, <1>4, <1>8, <1>9, <1>10 DEF SlicePanics, PastTheEnd, To
<1>14. QED
  BY <1>1, <1>3, <1>4, <1>7, <1>11, <1>12, <1>13

LEMMA PagesOfQueries ==
    ASSUME Readable, Fits, NEW t, NEW cut, cut = CutAt(t)
    PROVE  /\ cut \in Seq(Dirs) /\ (cut = <<>> \/ Len(cut) > 0)
           /\ Len(cut) <= GetPageSize
           /\ \A i \in 1 .. Len(cut) :
                /\ cut[i] \in RowsAt(t)
                /\ ask.kind # "roots" => cut[i] # ask.dir
                /\ PlaceAt(t)[cut[i]] = Skip + GetPageSize * (GetPage - 1) + i - 1
           /\ \A x \in RowsAt(t) :
                /\ PlaceAt(t)[x] \in Nat
                /\ Skip + GetPageSize * (GetPage - 1) <= PlaceAt(t)[x]
                   /\ PlaceAt(t)[x] < Skip + GetPageSize * GetPage
                     => \E i \in 1 .. Len(cut) : cut[i] = x
           /\ Len(cut) = GetPageSize => GetPageSize * GetPage <= Cardinality(Dirs)
           /\ Len(cut) # GetPageSize =>
                \A x \in RowsAt(t) : PlaceAt(t)[x] < Skip + GetPageSize * GetPage
           /\ Query(t) = <<>> <=> RowsAt(t) = {}
<1> DEFINE rows == Query(t)
           s == GetPageSize
           o == GetPageSize * (GetPage - 1)
<1>1. /\ rows \in Seq(RowsAt(t)) /\ Len(rows) = Cardinality(RowsAt(t)) /\ Len(rows) \in Nat
      /\ \A x \in RowsAt(t) : PlaceAt(t)[x] \in 0 .. Len(rows) - 1 /\ rows[PlaceAt(t)[x] + 1] = x
      /\ \A i \in 1 .. Len(rows) : rows[i] \in RowsAt(t) /\ PlaceAt(t)[rows[i]] = i - 1
      /\ \A x, y \in RowsAt(t) : <<x, y>> \in Before(t) => PlaceAt(t)[x] < PlaceAt(t)[y]
  BY QueryInOrder
<1>2. s \in Nat \ {0} /\ o \in Nat /\ o + s = GetPageSize * GetPage
  BY <1>1, NoOverflow DEF Fits, Readable
<1>3. cut = Cut(rows, Skip + o, s)
  <2>1. PageOfRoots(rows) = Cut(rows, o, s) /\ PageOf(rows) = Cut(rows, 1 + o, s)
    BY <1>1, NoOverflow DEF Readable
  <2>2. 0 + o = o
    BY <1>2
  <2>3. QED
    BY <2>1, <2>2 DEF CutAt, Skip
<1>4. Skip \in {0, 1} /\ Skip + o \in Nat
  BY <1>2 DEF Skip
<1> HIDE DEF rows, s, o
<1>5. /\ cut \in Seq(RowsAt(t)) /\ Len(cut) <= s
      /\ \A i \in 1 .. Len(cut) : Skip + o + i \in 1 .. Len(rows) /\ cut[i] = rows[Skip + o + i]
      /\ \A j \in 1 .. Len(rows) :
            Skip + o < j /\ j <= Skip + o + s => j - (Skip + o) \in 1 .. Len(cut)
      /\ Len(cut) = s => Skip + o + s <= Len(rows)
      /\ Len(cut) # s => Len(rows) < Skip + o + s
  BY <1>1, <1>2, <1>3, <1>4, CutsOut
<1>6. RowsAt(t) \subseteq Dirs
  BY RowsAreVisible DEF Visible, Readable
<1>7. ASSUME NEW i \in 1 .. Len(cut)
      PROVE  /\ cut[i] \in RowsAt(t) /\ (ask.kind # "roots" => cut[i] # ask.dir)
             /\ PlaceAt(t)[cut[i]] = Skip + o + i - 1
  <2>1. cut[i] \in RowsAt(t) /\ PlaceAt(t)[cut[i]] = Skip + o + i - 1
    <3>1. PICK j : j = Skip + o + i
      OBVIOUS
    <3>2. j \in 1 .. Len(rows) /\ cut[i] = rows[j]
      BY <1>5, <3>1
    <3>3. rows[j] \in RowsAt(t) /\ PlaceAt(t)[rows[j]] = j - 1
      BY <1>1, <3>2
    <3>4. j - 1 = Skip + o + i - 1
      BY <1>4, <1>5, <3>1
    <3>5. QED
      BY <3>2, <3>3, <3>4
  <2>2. ASSUME ask.kind # "roots", cut[i] = ask.dir
        PROVE  FALSE
    <3>1. PlaceAt(t)[ask.dir] > 0
      BY <1>2, <2>1, <2>2 DEF Skip
    <3>2. 1 \in 1 .. Len(rows)
      BY <1>1, <1>5
    <3>3. PICK x \in RowsAt(t) : PlaceAt(t)[x] = 0
      BY <1>1, <3>2
    <3>4. x # ask.dir
      BY <3>1, <3>3
    <3>5. PlaceAt(t)[ask.dir] < 0
      BY <1>1, <2>2, <3>3, <3>4, DirComesFirst
    <3>6. PlaceAt(t)[ask.dir] \in Nat
      BY <1>1, <2>1, <2>2
    <3>7. QED
      BY <3>5, <3>6
  <2>3. QED
    BY <2>1, <2>2
<1>8. ASSUME NEW x \in RowsAt(t), Skip + o <= PlaceAt(t)[x], PlaceAt(t)[x] < Skip + (o + s)
      PROVE  \E i \in 1 .. Len(cut) : cut[i] = x
  <2>1. PICK j : j = PlaceAt(t)[x] + 1
    OBVIOUS
  <2>2. j \in 1 .. Len(rows) /\ rows[j] = x /\ Skip + o < j /\ j <= Skip + o + s
    BY <1>1, <1>2, <1>4, <1>8, <2>1
  <2>3. PICK i : i = j - (Skip + o)
    OBVIOUS
  <2>4. i \in 1 .. Len(cut) /\ Skip + o + i = j
    BY <1>4, <1>5, <2>2, <2>3
  <2>5. cut[i] = x
    BY <1>5, <2>2, <2>4
  <2>6. QED
    BY <2>4, <2>5
<1>9. Cardinality(RowsAt(t)) <= Cardinality(Dirs) /\ Cardinality(Dirs) \in Nat
  BY <1>6, FS_Subset, FS_CardinalityType DEF Readable
<1>10. Len(cut) = s => o + s <= Cardinality(Dirs)
  BY <1>1, <1>2, <1>4, <1>5, <1>9
<1>11. Len(cut) # s => \A x \in RowsAt(t) : PlaceAt(t)[x] < Skip + (o + s)
  BY <1>1, <1>2, <1>4, <1>5
<1>12. rows = <<>> <=> RowsAt(t) = {}
  <2>1. rows = <<>> <=> Len(rows) = 0
    <3>1. rows # <<>> => Len(rows) \in Nat \ {0}
      BY <1>1, EmptySeq
    <3>2. rows = <<>> => Len(rows) = 0
      OBVIOUS
    <3>3. QED
      BY <3>1, <3>2
  <2>2. RowsAt(t) = {} => Len(rows) = 0
    BY <1>1, FS_EmptySet
  <2>3. Len(rows) = 0 => RowsAt(t) = {}
    BY <1>1
  <2>4. QED
    BY <2>1, <2>2, <2>3
<1>13. cut \in Seq(Dirs) /\ (cut = <<>> \/ Len(cut) > 0)
  <2>1. cut \in Seq(Dirs)
    BY <1>5, <1>6
  <2>2. QED
    BY <2>1, EmptySeq, LenProperties
<1>14. \A x \in RowsAt(t) : PlaceAt(t)[x] \in Nat
  BY <1>1
<1>15. s = GetPageSize /\ o = GetPageSize * (GetPage - 1) /\ rows = Query(t)
  BY DEF s, o, rows
<1>16. QED
  BY <1>2, <1>5, <1>7, <1>8, <1>10, <1>11, <1>12, <1>13, <1>14, <1>15

(* What arrives of a page before the connection breaks.                    *)
StartOf(part, cut) ==
    /\ part \in Seq(Dirs) /\ Len(part) <= Len(cut)
    /\ \A i \in 1 .. Len(part) : part[i] = cut[i]
    /\ part # cut => Len(part) < Len(cut)

LEMMA StartOfRows ==
    ASSUME NEW all \in Seq(Dirs), NEW rows \in Arriving(all)
    PROVE  StartOf(rows, all)
<1>1. PICK n \in 0 .. Len(all) : rows = SubSeq(all, 1, n)
  BY DEF Arriving
<1>2. Len(all) \in Nat /\ n \in 1 - 1 .. Len(all) /\ 1 \in 1 .. Len(all) + 1 /\ n - 1 + 1 = n
  BY <1>1, LenProperties
<1>3. /\ rows \in Seq(Dirs) /\ Len(rows) = n
      /\ \A i \in 1 .. n : rows[i] = all[1 + i - 1]
  BY <1>1, <1>2, SubSeqProperties
<1>4. \A i \in 1 .. n : 1 + i - 1 = i
  OBVIOUS
<1>5. \A i \in 1 .. n : rows[i] = all[i]
  BY <1>3, <1>4
<1>6. n = Len(all) => rows = all
  BY <1>2, <1>3, <1>5, SeqEqual
<1>7. QED
  BY <1>2, <1>3, <1>5, <1>6 DEF StartOf

(* A page of the rows that have come is the start of the page.             *)
LEMMA StartOfPage ==
    ASSUME NEW all \in Seq(Dirs), NEW rows \in Arriving(all),
           NEW from \in Nat, NEW size \in Nat \ {0}
    PROVE  StartOf(Cut(rows, from, size), Cut(all, from, size))
<1>1. PICK part, cut : part = Cut(rows, from, size) /\ cut = Cut(all, from, size)
  OBVIOUS
<1>2. StartOf(rows, all)
  BY StartOfRows
<1>3. rows \in Seq(Dirs) /\ Len(rows) \in Nat /\ Len(all) \in Nat /\ Len(rows) <= Len(all)
  BY <1>2, LenProperties DEF StartOf
<1>4. /\ part \in Seq(Dirs) /\ Len(part) \in Nat
      /\ Len(part) = IF from >= Len(rows) THEN 0
                     ELSE IF from + size > Len(rows) THEN Len(rows) - from ELSE size
      /\ \A i \in 1 .. Len(part) : from + i \in 1 .. Len(rows) /\ part[i] = rows[from + i]
  <2>1. IsCut(part, rows, from, size)
    BY <1>1, <1>3, LengthOfCut
  <2>2. QED
    BY <2>1 DEF IsCut
<1>5. /\ cut \in Seq(Dirs) /\ Len(cut) \in Nat
      /\ Len(cut) = IF from >= Len(all) THEN 0
                    ELSE IF from + size > Len(all) THEN Len(all) - from ELSE size
      /\ \A i \in 1 .. Len(cut) : from + i \in 1 .. Len(all) /\ cut[i] = all[from + i]
  <2>1. IsCut(cut, all, from, size)
    BY <1>1, LengthOfCut
  <2>2. QED
    BY <2>1 DEF IsCut
<1>6. Len(part) <= Len(cut)
  BY <1>3, <1>4, <1>5
<1>7. ASSUME NEW i \in 1 .. Len(part)
      PROVE  part[i] = cut[i]
  <2>1. i \in 1 .. Len(cut)
    BY <1>4, <1>5, <1>6
  <2>2. PICK j : j = from + i
    OBVIOUS
  <2>3. part[i] = rows[j] /\ j \in 1 .. Len(rows) /\ cut[i] = all[j]
    BY <1>4, <1>5, <2>1, <2>2
  <2>4. QED
    BY <1>2, <2>3 DEF StartOf
<1>8. Len(part) = Len(cut) => part = cut
  BY <1>4, <1>5, <1>7, SeqEqual
<1>9. QED
  BY <1>1, <1>4, <1>5, <1>6, <1>7, <1>8 DEF StartOf

----------------------------------------------------------------------------
(* The walk.                                                               *)

Walking == pc \in {"lookup", "ancestor", "list"}

WalkOK ==
    /\ pc \in {"idle", "lookup", "ancestor", "list", "done"}
    /\ got \in Seq(Dirs) /\ reply \in {0, 200, 404, 500} /\ limit \in 0 .. MaxInt
    /\ broken \in BOOLEAN
    /\ looked \in Nat /\ first \in Nat /\ last \in Nat
    /\ looked <= ReadTime /\ first <= last /\ last <= ReadTime
    /\ pc # "idle" => /\ ask \in Ask
                      /\ \A d \in {ask.dir, ask.anc} \ {NoDir} : Exists(d)
                      /\ page \in FirstPages \cup 1 .. Cardinality(Dirs) + 1
    /\ pc = "idle" => got = <<>> /\ reply = 0 /\ first = 0 /\ last = 0
    /\ Walking => /\ reply = 0 /\ Fits
                  /\ got = <<>> => page \in FirstPages /\ first = 0 /\ last = 0
    /\ pc \in {"lookup", "ancestor"} => ask.kind # "roots"
    /\ pc \in {"ancestor", "list"} /\ ask.kind # "roots" => ask.dir \in Visible(looked)

ListInv == TableInv /\ AgesDiffer /\ WalkOK

(* What has been read by then is given, or its place is on a page to come, *)
(* after all that is given.                                                *)
NothingIsSkipped ==
    (Walking /\ (ask.deleted \/ Deletions(first, last) = {})) =>
        \A d \in (Wanted(first) \cap Wanted(last)) \ Given :
            /\ Skip + GetPageSize * (GetPage - 1) <= PlaceAt(last)[d]
            /\ ComesAfterGiven(d)

LEMMA StepsOfTheTable ==
    [Next]_vars => [TableNext]_tableVars
<1> SUFFICES ASSUME [Next]_vars
             PROVE  [TableNext]_tableVars
  OBVIOUS
<1>1. CASE TableChanges
  <2>1. Seed.text \in Text
    BY SeedAssumption
  <2>2. QED
    BY <1>1, <2>1 DEF TableChanges, TableNext
<1>2. CASE UNCHANGED tableVars
  BY <1>2
<1>3. QED
  BY <1>1, <1>2 DEF Next, Begin, LookUp, LookUpAncestor, ListRoots, ListNothing, ListRelatives,
     StatementFails, Give, Fails, vars, tableVars

LEMMA AgesInit == Init => AgesDiffer
  BY ListingAssumption DEF Init, TableInit, AgesDiffer, Exists

LEMMA AgesStep == TableInv /\ AgesDiffer /\ [TableNext]_tableVars => AgesDiffer'
<1> SUFFICES ASSUME TableInv, AgesDiffer, [TableNext]_tableVars
             PROVE  AgesDiffer'
  OBVIOUS
<1>1. ASSUME NEW d \in Dirs, NEW p \in Dirs \cup {NoDir}, NEW text \in Text, Insert(d, p, text)
      PROVE  AgesDiffer'
  <2>1. /\ now \in Nat /\ \A x \in Dirs : born[x] \in 0 .. now
        /\ \A x \in Dirs : born'[x] = IF x = d THEN now + 1 ELSE born[x]
    BY <1>1 DEF Insert, TableInv, TableTypeOK
  <2>2. QED
    BY <2>1 DEF AgesDiffer, Exists
<1>2. CASE born' = born
  BY <1>2 DEF AgesDiffer, Exists
<1>3. QED
  BY <1>1, <1>2 DEF TableNext, UpdateRow, SoftDelete, CatchUp, tableVars

LEMMA ReadTimes == TableInv => ReadTime \in Nat /\ ReadTime \in 0 .. now
  BY DEF ReadTime, TableInv, TableTypeOK

LEMMA TimesGoneBy ==
    ASSUME TableInv, WalkOK
    PROVE  {ReadTime, looked, first, last} \subseteq 0 .. now
<1>1. now \in Nat /\ ReadTime \in 0 .. now
  BY ReadTimes DEF TableInv, TableTypeOK
<1>2. QED
  BY <1>1 DEF WalkOK

LEMMA FitsAtFirst ==
    ASSUME PagesFit, NEW p \in FirstPages, NEW l \in Limits
    PROVE  /\ SizeOf(l) \in Nat \ {0} /\ NumberOf(p) \in Nat \ {0}
           /\ SizeOf(l) + Cardinality(Dirs) + 1 <= MaxInt
           /\ SizeOf(l) * NumberOf(p) + 1 <= MaxInt
<1>1. PICK s, n : s = SizeOf(l) /\ n = NumberOf(p)
  OBVIOUS
<1>2. s \in Nat \ {0} /\ n \in Nat \ {0}
  BY <1>1, ListingAssumption DEF SizeOf, NumberOf
<1>3. s * n \in Nat /\ s <= s * n /\ MaxInt \in Nat
  <2>1. s * n = n * s
    BY <1>2
  <2>2. QED
    BY <1>2, <2>1, NoLess, ListingAssumption
<1>4. s * n + Cardinality(Dirs) + 1 <= MaxInt /\ Cardinality(Dirs) \in Nat
  BY <1>1, FS_CardinalityType DEF PagesFit
<1>5. s + Cardinality(Dirs) + 1 <= MaxInt /\ s * n + 1 <= MaxInt
  BY <1>2, <1>3, <1>4
<1>6. QED
  BY <1>1, <1>2, <1>5

(* The page after a full one.                                              *)
LEMMA FitsNext ==
    ASSUME IsFiniteSet(Dirs), Fits, GetPageSize * GetPage <= Cardinality(Dirs),
           page' = GetPage + 1, limit' = GetPageSize
    PROVE  /\ Fits' /\ GetPageSize' = GetPageSize /\ GetPage' = GetPage + 1
           /\ page' \in 1 .. Cardinality(Dirs) + 1 /\ limit' \in 0 .. MaxInt
<1>1. PICK s, p : s = GetPageSize /\ p = GetPage
  OBVIOUS
<1>2. s \in Nat \ {0} /\ p \in Nat \ {0}
  BY <1>1 DEF Fits
<1>3. GetPageSize' = s /\ GetPage' = p + 1
  <2>1. limit' = s /\ page' = p + 1
    BY <1>1
  <2>2. QED
    BY <1>2, <2>1 DEF GetPageSize, GetPage
<1>4. PICK m : m = s * p
  OBVIOUS
<1>5. m \in Nat /\ p <= m /\ m <= Cardinality(Dirs) /\ Cardinality(Dirs) \in Nat
  BY <1>1, <1>2, <1>4, NoLess, FS_CardinalityType
<1>6. s * (p + 1) = m + s
  BY <1>2, <1>4
<1>7. s + Cardinality(Dirs) + 1 <= MaxInt /\ MaxInt \in Nat
  BY <1>1, ListingAssumption DEF Fits
<1>8. s * (p + 1) + 1 <= MaxInt
  BY <1>2, <1>5, <1>6, <1>7
<1>9. Fits'
  BY <1>2, <1>3, <1>7, <1>8 DEF Fits
<1>10. QED
  BY <1>1, <1>2, <1>3, <1>5, <1>7, <1>9

(* The actions that give a page, as one.                                   *)
LEMMA WhatIsGiven ==
    ASSUME IsFiniteSet(Dirs), ListInv, ListRoots \/ ListNothing \/ ListRelatives
    PROVE  /\ Readable /\ Fits /\ pc = "list"
           /\ \/ /\ ~AsksNothing
                 /\ \E part : /\ StartOf(part, CutAt(ReadTime))
                              /\ Give(part, CutAt(ReadTime))
              \/ AsksNothing /\ Give(<<>>, <<>>)
              \/ /\ Fails /\ broken' \in BOOLEAN
                 /\ ~broken' => ask.kind # "roots" /\ RowsAt(ReadTime) = {}
<1>1. Readable /\ Fits
  BY DEF ListInv, WalkOK, Walking, Readable, ListRoots, ListNothing, ListRelatives
<1>2. PICK all, o, s :
        /\ all = Query(ReadTime) /\ s = GetPageSize /\ o = GetPageSize * (GetPage - 1)
  OBVIOUS
<1>3. all \in Seq(Dirs)
  <2>1. all \in Seq(RowsAt(ReadTime)) /\ RowsAt(ReadTime) \subseteq Dirs
    BY <1>1, <1>2, QueryInOrder, RowsAreVisible DEF Visible, Readable
  <2>2. QED
    BY <2>1
<1>4. /\ o \in Nat /\ 1 + o \in Nat /\ s \in Nat \ {0} /\ GetPageOffset = o
      /\ PageOfRoots(all) = Cut(all, o, s)
      /\ \A rows \in Seq(Dirs) : PageOf(rows) = Cut(rows, 1 + o, s) /\ ~SlicePanics(rows)
  BY <1>1, <1>2, <1>3, NoOverflow DEF Fits
<1>5. all = <<>> <=> RowsAt(ReadTime) = {}
  BY <1>1, <1>2, PagesOfQueries
<1>6. CASE ListRoots
  <2>1. PICK rows \in Arriving(PageOfRoots(all)) : Give(rows, PageOfRoots(all))
    BY <1>2, <1>4, <1>6 DEF ListRoots
  <2>2. PageOfRoots(all) = CutAt(ReadTime)
    BY <1>2, <1>6 DEF CutAt, ListRoots
  <2>3. PageOfRoots(all) \in Seq(Dirs)
    BY <1>3, <1>4, LengthOfCut DEF IsCut
  <2>4. StartOf(rows, PageOfRoots(all))
    BY <2>1, <2>3, StartOfRows
  <2>5. ~AsksNothing /\ pc = "list"
    BY <1>6 DEF ListRoots, AsksNothing
  <2>6. QED
    BY <1>1, <2>1, <2>2, <2>4, <2>5
<1>7. CASE ListNothing
  BY <1>1, <1>7 DEF ListNothing
<1>8. CASE ListRelatives
  <2>1. /\ pc = "list" /\ ask.kind # "roots" /\ ~AsksNothing
        /\ \E rows \in Arriving(all) :
             IF rows = <<>> \/ SlicePanics(rows)
               THEN Fails /\ broken' = ~(all = <<>> \/ SlicePanics(all))
               ELSE Give(PageOf(rows), PageOf(all))
    BY <1>2, <1>8 DEF ListRelatives
  <2>2. PICK rows \in Arriving(all) :
             IF rows = <<>> \/ SlicePanics(rows)
               THEN Fails /\ broken' = ~(all = <<>> \/ SlicePanics(all))
               ELSE Give(PageOf(rows), PageOf(all))
    BY <2>1
  <2>3. rows \in Seq(Dirs)
    BY <1>3, StartOfRows DEF StartOf
  <2>4. CASE rows = <<>>
    BY <1>1, <1>3, <1>4, <1>5, <2>1, <2>2, <2>4
  <2>5. CASE rows # <<>>
    <3>1. Give(PageOf(rows), PageOf(all))
      BY <1>4, <2>2, <2>3, <2>5
    <3>2. StartOf(PageOf(rows), PageOf(all))
      BY <1>3, <1>4, <2>3, StartOfPage
    <3>3. PageOf(all) = CutAt(ReadTime)
      BY <1>2, <2>1 DEF CutAt
    <3>4. QED
      BY <1>1, <2>1, <3>1, <3>2, <3>3
  <2>6. QED
    BY <2>4, <2>5
<1>9. QED
  BY <1>6, <1>7, <1>8

LEMMA ListInit == Init => ListInv
<1> SUFFICES ASSUME Init
             PROVE  ListInv
  OBVIOUS
<1>1. TableInv /\ AgesDiffer
  BY TableInvInit, AgesInit DEF Init
<1>2. WalkOK
  <2>1. ReadTime \in Nat
    BY <1>1, ReadTimes
  <2>2. <<>> \in Seq(Dirs) /\ MaxInt \in Nat
    BY ListingAssumption
  <2>3. broken \in BOOLEAN
    BY DEF Init
  <2>4. QED
    BY <2>1, <2>2, <2>3 DEF Init, WalkOK, Walking
<1>3. QED
  BY <1>1, <1>2 DEF ListInv

(* What time does to the walk, when it does not move itself.               *)
LEMMA WalkWaits ==
    ASSUME IsFiniteSet(Dirs), ListInv, TableInv', [TableNext]_tableVars, UNCHANGED walkVars
    PROVE  WalkOK'
<1>1. now \in Nat /\ ReadTime \in 0 .. now /\ ReadTime <= ReadTime' /\ ReadTime' \in Nat
  <2>1. now \in Nat /\ 0 \in 0 .. now /\ follower \in 0 .. now
    BY DEF ListInv, TableInv, TableTypeOK
  <2>2. now <= now' /\ follower <= follower'
    BY <2>1, PastIsFixed DEF ListInv
  <2>3. now' \in Nat /\ follower' \in Nat
    BY DEF TableInv, TableTypeOK
  <2>4. QED
    BY <2>1, <2>2, <2>3 DEF ReadTime
<1>2. ASSUME pc # "idle"
      PROVE  \A d \in {ask.dir, ask.anc} \ {NoDir} : Exists(d)'
  <2>1. ask \in Ask /\ \A d \in {ask.dir, ask.anc} \ {NoDir} : Exists(d) /\ d \in Dirs
    BY <1>2 DEF ListInv, WalkOK, Ask
  <2>2. \A d \in Dirs : Exists(d) => born'[d] = born[d]
    BY HistoryStep DEF ListInv, TableInv
  <2>3. QED
    BY <2>1, <2>2 DEF Exists
<1>3. ASSUME pc \in {"ancestor", "list"}
      PROVE  Visible(looked)' = Visible(looked)
  <2>1. PICK t : t = looked
    OBVIOUS
  <2>2. t \in 0 .. now
    BY <1>1, <2>1 DEF ListInv, WalkOK
  <2>3. Visible(t)' = Visible(t)
    BY <1>3, <2>2, RowsAreFixed DEF ListInv, WalkOK, walkVars
  <2>4. looked' = t
    BY <2>1 DEF walkVars
  <2>5. QED
    BY <2>1, <2>3, <2>4
<1>4. Fits' <=> Fits
  BY DEF Fits, GetPage, GetPageSize, walkVars
<1>5. QED
  BY <1>1, <1>2, <1>3, <1>4 DEF ListInv, WalkOK, Walking, walkVars

LEMMA FailureKeeps ==
    ASSUME WalkOK, Walking, Fails, broken' \in BOOLEAN
    PROVE  WalkOK'
<1>1. /\ pc' = "done" /\ reply' = 500
      /\ UNCHANGED <<tableVars, ask, page, limit, got, looked, first, last>>
  BY DEF Fails, Ends
<1>2. ReadTime' = ReadTime /\ (\A d : Exists(d)' <=> Exists(d))
  BY <1>1 DEF ReadTime, Exists, tableVars
<1>3. QED
  BY <1>1, <1>2 DEF WalkOK, Walking

LEMMA ListStep ==
    ASSUME PagesFit, ListInv, [Next]_vars
    PROVE  ListInv'
<1>1. [TableNext]_tableVars
  BY StepsOfTheTable
<1>2. TableInv' /\ AgesDiffer'
  BY <1>1, TableInvStep, AgesStep DEF ListInv
<1>3. IsFiniteSet(Dirs)
  BY DEF PagesFit
<1>4. ReadTime \in Nat /\ WalkOK
  BY ReadTimes DEF ListInv
<1>5. CASE UNCHANGED walkVars
  BY <1>1, <1>2, <1>3, <1>5, WalkWaits DEF ListInv
<1>6. CASE Begin
  <2>1. /\ UNCHANGED <<tableVars, got, reply, looked, first, last, broken>>
        /\ ask' \in Ask /\ page' \in FirstPages /\ limit' \in Limits
        /\ pc' = IF ask'.kind = "roots" THEN "list" ELSE "lookup"
        /\ \A d \in {ask'.dir, ask'.anc} \ {NoDir} : Exists(d)
        /\ pc = "idle"
    BY <1>6 DEF Begin
  <2>2. Fits'
    <3>1. GetPageSize' = SizeOf(limit') /\ GetPage' = NumberOf(page')
      BY DEF GetPageSize, GetPage, SizeOf, NumberOf
    <3>2. /\ SizeOf(limit') \in Nat \ {0} /\ NumberOf(page') \in Nat \ {0}
          /\ SizeOf(limit') + Cardinality(Dirs) + 1 <= MaxInt
          /\ SizeOf(limit') * NumberOf(page') + 1 <= MaxInt
      BY <2>1, FitsAtFirst
    <3>3. QED
      BY <3>1, <3>2 DEF Fits
  <2>3. ReadTime' = ReadTime /\ \A d : Exists(d)' <=> Exists(d)
    BY <2>1 DEF ReadTime, Exists, tableVars
  <2>4. limit' \in 0 .. MaxInt
    BY <2>1, ListingAssumption
  <2>5. WalkOK'
    BY <1>4, <2>1, <2>2, <2>3, <2>4 DEF WalkOK, Walking
  <2>6. QED
    BY <1>2, <2>5 DEF ListInv
<1>7. CASE LookUp \/ LookUpAncestor
  <2>1. /\ UNCHANGED <<tableVars, ask, page, limit, got, first, last, broken>>
        /\ pc \in {"lookup", "ancestor"}
        /\ \/ pc' = "done" /\ reply' = 404
           \/ /\ pc' \in {"ancestor", "list"} /\ reply' = reply
              /\ pc' = "ancestor" => ask.kind # "roots"
        /\ looked' = ReadTime \/ (looked' = looked /\ pc = "ancestor")
        /\ pc = "lookup" => looked' = ReadTime /\ (pc' # "done" => ask.dir \in Visible(ReadTime))
    BY <1>7 DEF LookUp, LookUpAncestor, Ends
  <2>2. ReadTime' = ReadTime /\ (\A d : Exists(d)' <=> Exists(d)) /\ (Fits' <=> Fits)
    BY <2>1 DEF ReadTime, Exists, tableVars, Fits, GetPage, GetPageSize
  <2>3. pc' # "done" => ask.dir \in Visible(looked)'
    <3>1. CASE pc = "lookup"
      <4>1. pc' # "done" => ask.dir \in Visible(looked')
        BY <2>1, <3>1
      <4>2. Visible(looked)' = Visible(looked')
        BY <2>1 DEF Visible, ExistsAt, LiveAt, tableVars
      <4>3. QED
        BY <4>1, <4>2
    <3>2. CASE pc = "ancestor"
      <4>1. looked' = looked
        BY <1>7, <3>2 DEF LookUp, LookUpAncestor
      <4>2. Visible(looked)' = Visible(looked)
        BY <2>1, <4>1 DEF Visible, ExistsAt, LiveAt, tableVars
      <4>3. ask.dir \in Visible(looked)
        BY <1>4, <3>2 DEF WalkOK
      <4>4. QED
        BY <4>2, <4>3
    <3>3. QED
      BY <2>1, <3>1, <3>2
  <2>4. WalkOK'
    BY <1>4, <2>1, <2>2, <2>3 DEF WalkOK, Walking
  <2>5. QED
    BY <1>2, <2>4 DEF ListInv
<1>8. CASE ListRoots \/ ListNothing \/ ListRelatives
  <2>1. /\ Readable /\ Fits /\ pc = "list"
        /\ \/ \E part : /\ StartOf(part, CutAt(ReadTime))
                        /\ Give(part, CutAt(ReadTime))
           \/ Give(<<>>, <<>>)
           \/ Fails /\ broken' \in BOOLEAN
    BY <1>3, <1>8, WhatIsGiven
  <2>2. ASSUME NEW cut \in Seq(Dirs), NEW whole, Give(cut, whole),
               Len(cut) = GetPageSize => GetPageSize * GetPage <= Cardinality(Dirs)
        PROVE  WalkOK'
    <3>1. /\ UNCHANGED <<tableVars, ask, looked>>
          /\ got' = got \o cut /\ last' = ReadTime
          /\ first' = IF got = <<>> THEN ReadTime ELSE first
          /\ broken' \in BOOLEAN
      BY <2>2 DEF Give
    <3>2. ReadTime' = ReadTime /\ (\A d : Exists(d)' <=> Exists(d))
      BY <3>1 DEF ReadTime, Exists, tableVars
    <3>3. got' \in Seq(Dirs) /\ Len(got') = Len(got) + Len(cut) /\ Len(got) \in Nat /\ Len(cut) \in Nat
      BY <1>4, <2>2, <3>1, ConcatProperties, LenProperties DEF WalkOK
    <3>4. first' <= last' /\ last' = ReadTime' /\ first' \in Nat
      BY <1>4, <3>1, <3>2 DEF WalkOK
    <3>5. CASE HasNext(Len(cut))
      <4>1. /\ page' = GetPage + 1 /\ limit' = GetPageSize /\ pc' = Asking /\ reply' = reply
            /\ Len(cut) = GetPageSize
        BY <2>2, <3>5 DEF Give, HasNext
      <4>2. Fits' /\ page' \in 1 .. Cardinality(Dirs) + 1 /\ limit' \in 0 .. MaxInt
        BY <1>3, <2>1, <2>2, <4>1, FitsNext
      <4>3. got' # <<>>
        <5>1. Len(got') # 0
          BY <2>1, <3>3, <4>1 DEF Fits
        <5>2. QED
          BY <5>1
      <4>4. pc' = "list" => ask.kind = "roots"
        BY <4>1 DEF Asking
      <4>5. pc' \in {"list", "lookup"} /\ (pc' = "lookup" => ask.kind # "roots")
        BY <4>1 DEF Asking
      <4>6. QED
        BY <1>4, <2>1, <3>1, <3>2, <3>3, <3>4, <4>1, <4>2, <4>3, <4>4, <4>5 DEF WalkOK, Walking
    <3>6. CASE ~HasNext(Len(cut))
      <4>1. pc' = "done" /\ reply' = 200 /\ UNCHANGED <<page, limit>>
        BY <2>2, <3>6 DEF Give, Ends
      <4>2. QED
        BY <1>4, <2>1, <3>1, <3>2, <3>3, <3>4, <4>1 DEF WalkOK, Walking
    <3>7. QED
      BY <3>5, <3>6
  <2>3. CASE \E part : StartOf(part, CutAt(ReadTime)) /\ Give(part, CutAt(ReadTime))
    <3>1. PICK cut, part : /\ cut = CutAt(ReadTime)
                           /\ StartOf(part, cut) /\ Give(part, cut)
      BY <2>3
    <3>2. /\ Len(cut) <= GetPageSize /\ cut \in Seq(Dirs)
          /\ Len(cut) = GetPageSize => GetPageSize * GetPage <= Cardinality(Dirs)
      BY <2>1, <3>1, PagesOfQueries
    <3>3. part \in Seq(Dirs) /\ Len(part) \in Nat /\ Len(cut) \in Nat /\ Len(part) <= Len(cut)
      BY <3>1, <3>2, LenProperties DEF StartOf
    <3>4. Len(part) = GetPageSize => Len(cut) = GetPageSize
      BY <2>1, <3>2, <3>3 DEF Fits
    <3>5. QED
      BY <1>2, <2>2, <3>1, <3>2, <3>3, <3>4 DEF ListInv
  <2>4. CASE Give(<<>>, <<>>)
    <3>1. <<>> \in Seq(Dirs) /\ Len(<<>>) = 0 /\ GetPageSize # 0
      BY <2>1 DEF Fits
    <3>2. QED
      BY <1>2, <2>2, <2>4, <3>1 DEF ListInv
  <2>5. CASE Fails /\ broken' \in BOOLEAN
    BY <1>2, <1>4, <2>1, <2>5, FailureKeeps DEF Walking, ListInv
  <2>6. QED
    BY <2>1, <2>3, <2>4, <2>5
<1>9. CASE StatementFails
  BY <1>2, <1>4, <1>9, FailureKeeps DEF StatementFails, Walking, ListInv
<1>10. QED
  BY <1>5, <1>6, <1>7, <1>8, <1>9 DEF Next, TableChanges, vars

LEMMA ListInvHolds ==
    ASSUME PagesFit
    PROVE  Spec => []ListInv
<1>1. ListInv /\ [Next]_vars => ListInv'
  BY ListStep
<1>2. QED
  BY <1>1, ListInit, PTL DEF Spec

(* The walk is well typed, and asks for no page that is beyond the first   *)
(* after all directories.                                                  *)
THEOREM TypeCorrect ==
    ASSUME PagesFit
    PROVE  Spec => []TypeOK
<1>1. ListInv => TypeOK
  <2> SUFFICES ASSUME ListInv
               PROVE  TypeOK
    OBVIOUS
  <2>1. {looked, first, last} \subseteq 0 .. now
    BY TimesGoneBy DEF ListInv
  <2>2. QED
    BY <2>1 DEF ListInv, TableInv, WalkOK, TypeOK
<1>2. QED
  BY <1>1, ListInvHolds, PTL

----------------------------------------------------------------------------
(* What the walk has reported.                                             *)

LEMMA DoneIsDone ==
    ASSUME ListInv, [Next]_vars, pc = "done"
    PROVE  UNCHANGED vars
BY DEF Next, Begin, LookUp, LookUpAncestor, ListRoots, ListNothing, ListRelatives, StatementFails,
   TableChanges, vars

LEMMA FailsByDeletion ==
    ASSUME Readable, NEW t \in Nat, NEW u \in Nat, t <= u,
           ask.kind # "roots", ask.dir \in Visible(t), RowsAt(u) = {}
    PROVE  t < died[ask.dir] /\ died[ask.dir] <= u
<1>1. ask.dir \notin Visible(u)
  BY DirIsARow
<1>2. /\ ask.dir \in Dirs /\ ExistsAt(ask.dir, t) /\ (ask.deleted \/ LiveAt(ask.dir, t))
      /\ born[ask.dir] \in Nat /\ died[ask.dir] \in Nat
  BY DEF Visible, Readable, TableInv, TableTypeOK
<1>3. ExistsAt(ask.dir, u)
  BY <1>2 DEF ExistsAt
<1>4. ~ask.deleted /\ ~LiveAt(ask.dir, u)
  BY <1>1, <1>2, <1>3 DEF Visible
<1>5. QED
  BY <1>2, <1>3, <1>4 DEF LiveAt

(* Unless a statement fails or loses its connection, a listing answers     *)
(* with an internal error only for a directory that was deleted between    *)
(* the look-up and the listing: while no integer overflows no page,        *)
(* however far beyond the end, is a reason to.                             *)
THEOREM OnlyDeletionsFail ==
    ASSUME PagesFit
    PROVE  Spec => []FailsOnlyByDeletion
<1>1. Init => FailsOnlyByDeletion
  BY DEF Init, FailsOnlyByDeletion
<1>2. ASSUME ListInv, FailsOnlyByDeletion, [Next]_vars
      PROVE  FailsOnlyByDeletion'
  <2>1. CASE pc = "done"
    <3>1. UNCHANGED vars
      BY <1>2, <2>1, DoneIsDone
    <3>2. QED
      BY <1>2, <3>1 DEF vars, tableVars, walkVars, FailsOnlyByDeletion, ReadTime
  <2>2. CASE pc # "done"
    <3>1. reply # 500
      BY <1>2, <2>2 DEF ListInv, WalkOK, Walking
    <3>2. CASE ListRoots \/ ListNothing \/ ListRelatives
      <4>1. /\ Readable /\ pc = "list"
            /\ \/ \E rows, whole : Give(rows, whole)
               \/ Fails /\ (~broken' => ask.kind # "roots" /\ RowsAt(ReadTime) = {})
        BY <1>2, <3>2, WhatIsGiven DEF PagesFit
      <4>2. CASE \E rows, whole : Give(rows, whole)
        BY <3>1, <4>2 DEF Give, Ends, FailsOnlyByDeletion
      <4>3. CASE ask.kind # "roots" /\ RowsAt(ReadTime) = {} /\ Fails
        <5>1. PICK t, u : t = looked /\ u = ReadTime
          OBVIOUS
        <5>2. t \in Nat /\ u \in Nat /\ t <= u /\ ask.dir \in Visible(t) /\ RowsAt(u) = {}
          BY <1>2, <4>1, <4>3, <5>1, ReadTimes DEF ListInv, WalkOK
        <5>3. t < died[ask.dir] /\ died[ask.dir] <= u
          BY <4>1, <4>3, <5>2, FailsByDeletion
        <5>4. UNCHANGED <<tableVars, ask, looked>>
          BY <4>3 DEF Fails
        <5>5. QED
          BY <4>3, <5>1, <5>3, <5>4 DEF FailsOnlyByDeletion, ReadTime, tableVars
      <4>4. CASE broken' = TRUE
        BY <4>4 DEF FailsOnlyByDeletion
      <4>5. QED
        BY <4>1, <4>2, <4>3, <4>4 DEF FailsOnlyByDeletion
    <3>3. CASE ~(ListRoots \/ ListNothing \/ ListRelatives)
      BY <1>2, <3>1, <3>3 DEF Next, Begin, LookUp, LookUpAncestor, StatementFails, TableChanges,
         Ends, vars, walkVars, FailsOnlyByDeletion
    <3>4. QED
      BY <3>2, <3>3
  <2>3. QED
    BY <2>1, <2>2
<1>3. QED
  BY <1>1, <1>2, ListInvHolds, PTL DEF Spec

(* The rows that exist, deleted or not.                                    *)
Rows == { z \in Dirs : Exists(z) }

LEMMA ExistingRows ==
    ASSUME TableInv
    PROVE  /\ \A y \in Rows : born[y] \in Int
           /\ \A y \in Rows : parent[y] \in Rows => born[parent[y]] < born[y]
           /\ \A y \in Rows : parent[y] \in Rows \/ parent[y] = NoDir
BY NoDirAssumption DEF Rows, Exists, TableInv, TableTypeOK, Forest, Root

LEMMA StrictlyAboveStays ==
    ASSUME TableInv, TableInv', [TableNext]_tableVars, NEW x \in Rows, NEW y \in Rows
    PROVE  StrictlyAbove(x, y)' <=> StrictlyAbove(x, y)
<1>1. PICK V, W, up : V = Rows /\ W = Rows' /\ up = parent'
  OBVIOUS
<1>2. \A z \in V : z \in Dirs /\ up[z] = parent[z] /\ z \in W
  BY <1>1, HistoryStep DEF TableInv, Rows, Exists
<1>3. \A z \in V : up[z] \notin W \ V
  <2>1. NoDir \notin W
    BY <1>1, NoDirAssumption DEF Rows
  <2>2. QED
    BY <1>1, <1>2, <2>1, ExistingRows
<1>4. Below(up, x, W) \cap V = Below(parent, x, V)
  BY <1>1, <1>2, <1>3, BelowIsKept
<1>5. StrictlyAbove(x, y) <=> x # y /\ y \in Below(parent, x, V)
  BY <1>1 DEF StrictlyAbove, Rows
<1>6. StrictlyAbove(x, y)' <=> x # y /\ y \in Below(up, x, W)
  BY <1>1 DEF StrictlyAbove, Rows
<1>7. QED
  BY <1>1, <1>4, <1>5, <1>6

LEMMA AboveStrictly ==
    ASSUME TableInv, NEW t, NEW x \in Visible(t), NEW y, Above(x, y, t), x # y
    PROVE  StrictlyAbove(x, y)
<1>1. Visible(t) \subseteq Rows
  BY DEF Visible, Rows, ExistsAt, Exists
<1>2. Below(parent, x, Visible(t)) \subseteq Below(parent, x, Rows)
  BY <1>1, BelowGrows
<1>3. QED
  BY <1>2 DEF Above, StrictlyAbove, Rows

(* A row but the directory itself belongs to the listing as the whole tree *)
(* has it, whatever part of the tree the query saw.                        *)
LEMMA RowsBelong ==
    ASSUME Readable, NEW t, NEW x \in RowsAt(t), ask.kind # "roots" => x # ask.dir,
           ask.kind = "until" => ask.dir # ask.anc /\ Exists(ask.anc)
    PROVE  Belongs(x)
<1>1. CASE ask.kind = "roots"
  BY <1>1 DEF RowsAt, RootsAt, Belongs
<1>2. CASE ask.kind # "roots"
  <2>1. /\ ask.dir \in Visible(t) /\ x \in Visible(t) /\ x # ask.dir
        /\ ask.kind = "children" => Above(ask.dir, x, t)
        /\ ask.kind # "children" => Above(x, ask.dir, t)
    BY <1>2, RowsAreRelated
  <2>2. /\ ask.kind = "children" => StrictlyAbove(ask.dir, x)
        /\ ask.kind # "children" => StrictlyAbove(x, ask.dir)
    BY <2>1, AboveStrictly DEF Readable
  <2>3. ASSUME ask.kind = "until", StrictlyAbove(x, ask.anc), StrictlyAbove(ask.anc, ask.dir)
        PROVE  FALSE
    <3>1. PICK a, V : a = ask.anc /\ V = Visible(t)
      OBVIOUS
    <3>2. /\ a # x /\ a \in Below(parent, x, Rows) /\ ask.dir \in Below(parent, a, Rows)
      BY <2>3, <3>1 DEF StrictlyAbove, Rows
    <3>3. V \subseteq Rows /\ x \in V /\ ask.dir \in Below(parent, x, V) /\ a \in Rows
      <4>1. a \in Rows
        BY <2>3, <3>1, KindsOfListings DEF Rows, Readable
      <4>2. QED
        BY <2>1, <2>3, <3>1, <4>1 DEF Above, Visible, Rows, ExistsAt, Exists
    <3>4. x \notin Below(parent, a, Rows)
      <4>1. /\ \A y \in Rows : born[y] \in Int
            /\ \A y \in Rows : parent[y] \in Rows => born[parent[y]] < born[y]
        BY ExistingRows DEF Readable
      <4>2. x \in Rows /\ born[x] < born[a]
        BY <3>2, <3>3, <4>1, BelowIsYounger
      <4>3. x \in Below(parent, a, Rows) => born[a] < born[x]
        BY <3>2, <3>3, <4>1, BelowIsYounger
      <4>4. QED
        BY <3>3, <4>1, <4>2, <4>3
    <3>5. a \in Below(parent, x, V) /\ ask.dir \in Below(parent, a, V)
      BY <3>2, <3>3, <3>4, BelowBetween
    <3>6. a \in ParentsAt(t)
      <4>1. a \in V
        BY <3>5, BelowIsClosed
      <4>2. QED
        BY <2>1, <3>1, <3>5, <4>1 DEF ParentsAt, Above
    <3>7. x \in UntilAt(t)
      BY <2>3 DEF RowsAt
    <3>8. QED
      BY <3>1, <3>2, <3>5, <3>6, <3>7 DEF UntilAt, Above
  <2>4. QED
    BY <1>2, <2>2, <2>3, KindsOfListings DEF Belongs, Readable
<1>3. QED
  BY <1>1, <1>2

LEMMA BelongsStays ==
    ASSUME TableInv, TableInv', [TableNext]_tableVars, ask' = ask, ask \in Ask,
           \A d \in {ask.dir, ask.anc} \ {NoDir} : Exists(d), NEW x \in Rows
    PROVE  Belongs(x)' <=> Belongs(x)
<1>1. ask.kind # "roots" => ask.dir \in Rows
  BY KindsOfListings, NoDirAssumption DEF Rows
<1>2. ask.kind = "until" => ask.anc \in Rows
  BY KindsOfListings, NoDirAssumption DEF Rows
<1>3. \A y, z \in Rows : StrictlyAbove(y, z)' <=> StrictlyAbove(y, z)
  BY StrictlyAboveStays
<1>4. Root(x)' <=> Root(x)
  BY HistoryStep DEF Root, Rows, TableInv
<1>5. PICK d, a : d = ask.dir /\ a = ask.anc /\ ask'.dir = d /\ ask'.anc = a
  OBVIOUS
<1>6. CASE ask.kind = "roots"
  BY <1>4, <1>6 DEF Belongs
<1>7. CASE ask.kind = "children"
  <2>1. StrictlyAbove(d, x)' <=> StrictlyAbove(d, x)
    BY <1>1, <1>3, <1>5, <1>7
  <2>2. QED
    BY <1>5, <1>7, <2>1 DEF Belongs
<1>8. CASE ask.kind = "parents"
  <2>1. StrictlyAbove(x, d)' <=> StrictlyAbove(x, d)
    BY <1>1, <1>3, <1>5, <1>8
  <2>2. QED
    BY <1>5, <1>8, <2>1 DEF Belongs
<1>9. CASE ask.kind = "until"
  <2>1. /\ StrictlyAbove(x, d)' <=> StrictlyAbove(x, d)
        /\ StrictlyAbove(x, a)' <=> StrictlyAbove(x, a)
        /\ StrictlyAbove(a, d)' <=> StrictlyAbove(a, d)
    BY <1>1, <1>2, <1>3, <1>5, <1>9
  <2>2. QED
    BY <1>5, <1>9, <2>1 DEF Belongs
<1>10. QED
  BY <1>6, <1>7, <1>8, <1>9, KindsOfListings

LEMMA NothingNewIsMadeUp ==
    ASSUME Readable, WalkOK, pc = "list", NothingIsMadeUp, NEW u, u = ReadTime, u \in Nat,
           NEW cut \in Seq(Dirs), NEW whole, Give(cut, whole),
           \A i \in 1 .. Len(cut) : /\ cut[i] \in RowsAt(u)
                                    /\ ask.kind # "roots" => cut[i] # ask.dir,
           cut # <<>> /\ ask.kind = "until" => ask.dir # ask.anc
    PROVE  NothingIsMadeUp'
<1>1. /\ UNCHANGED <<tableVars, ask>>
      /\ got' = got \o cut /\ last' = u
      /\ first' = IF got = <<>> THEN u ELSE first
  BY DEF Give
<1>2. /\ got \in Seq(Dirs) /\ Len(got) \in Nat /\ Len(cut) \in Nat
      /\ first \in Nat /\ last \in Nat /\ first <= last /\ last <= u /\ first' <= u /\ first' \in Nat
  BY <1>1, LenProperties DEF WalkOK
<1>3. /\ Len(got') = Len(got) + Len(cut)
      /\ \A i \in 1 .. Len(got) + Len(cut) :
           got'[i] = IF i <= Len(got) THEN got[i] ELSE cut[i - Len(got)]
  BY <1>1, <1>2, ConcatProperties
<1>4. ASSUME NEW x \in Dirs, x \in RowsAt(u), ask.kind # "roots" => x # ask.dir, cut # <<>>
      PROVE  Belongs(x) /\ ExistsAt(x, u) /\ (ask.deleted \/ died[x] = 0 \/ first' < died[x])
  <2>1. Belongs(x)
    <3>1. ask.kind = "until" => ask.dir # ask.anc /\ Exists(ask.anc)
      BY <1>4, KindsOfListings, NoDirAssumption DEF WalkOK, Readable
    <3>2. QED
      BY <1>4, <3>1, RowsBelong
  <2>2. ExistsAt(x, u) /\ (ask.deleted \/ LiveAt(x, u))
    BY <1>4, RowsAreVisible DEF Visible, Readable
  <2>3. died[x] \in Nat
    BY DEF Readable, TableInv, TableTypeOK
  <2>4. QED
    BY <1>2, <2>1, <2>2, <2>3 DEF LiveAt
<1>5. ASSUME NEW i \in 1 .. Len(got)
      PROVE  /\ Belongs(got[i]) /\ ExistsAt(got[i], u)
             /\ ask.deleted \/ died[got[i]] = 0 \/ first' < died[got[i]]
  <2>1. /\ Belongs(got[i]) /\ ExistsAt(got[i], last)
        /\ ask.deleted \/ died[got[i]] = 0 \/ first < died[got[i]]
    BY DEF NothingIsMadeUp
  <2>2. got # <<>>
    OBVIOUS
  <2>3. got[i] \in Dirs
    BY <1>2, ElementOfSeq
  <2>4. born[got[i]] \in Nat
    BY <2>3 DEF Readable, TableInv, TableTypeOK
  <2>5. ExistsAt(got[i], u)
    BY <1>2, <2>1, <2>4 DEF ExistsAt
  <2>6. first' = first
    BY <1>1, <2>2
  <2>7. QED
    BY <2>1, <2>5, <2>6
<1>6. ASSUME NEW i \in 1 .. Len(got) + Len(cut)
      PROVE  /\ Belongs(got'[i]) /\ ExistsAt(got'[i], u)
             /\ ask.deleted \/ died[got'[i]] = 0 \/ first' < died[got'[i]]
  <2>1. CASE i <= Len(got)
    BY <1>2, <1>3, <1>5, <2>1
  <2>2. CASE i > Len(got)
    <3>1. PICK j : j = i - Len(got)
      OBVIOUS
    <3>2. j \in 1 .. Len(cut) /\ got'[i] = cut[j]
      BY <1>2, <1>3, <2>2, <3>1
    <3>3. cut # <<>> /\ cut[j] \in Dirs
      BY <3>2, ElementOfSeq
    <3>4. QED
      BY <1>4, <3>2, <3>3
  <2>3. QED
    BY <1>2, <2>1, <2>2
<1>7. \A x : /\ Belongs(x)' <=> Belongs(x)
             /\ ExistsAt(x, u)' <=> ExistsAt(x, u)
  BY <1>1 DEF Belongs, Root, StrictlyAbove, Exists, ExistsAt, tableVars
<1>8. died' = died /\ ask' = ask
  BY <1>1 DEF tableVars
<1>9. ASSUME NEW i \in 1 .. Len(got')
      PROVE  /\ Belongs(got[i])' /\ ExistsAt(got[i], last)'
             /\ (ask.deleted \/ died[got[i]] = 0 \/ first < died[got[i]])'
  <2>1. PICK x : x = got'[i]
    OBVIOUS
  <2>2. Belongs(x) /\ ExistsAt(x, u) /\ (ask.deleted \/ died[x] = 0 \/ first' < died[x])
    BY <1>3, <1>6, <2>1
  <2>3. Belongs(x)' /\ ExistsAt(x, u)'
    BY <1>7, <2>2
  <2>4. QED
    BY <1>1, <1>8, <2>1, <2>2, <2>3 DEF Belongs, ExistsAt
<1>10. QED
  BY <1>9 DEF NothingIsMadeUp

LEMMA WhatWasGivenStays ==
    ASSUME ListInv, TableInv', [TableNext]_tableVars, UNCHANGED walkVars, ask \in Ask,
           NothingIsMadeUp, \A d \in {ask.dir, ask.anc} \ {NoDir} : Exists(d)
    PROVE  NothingIsMadeUp'
<1>1. PICK t : t = last
  OBVIOUS
<1>2. /\ now \in Nat /\ t \in 0 .. now /\ first \in Nat /\ first <= now
      /\ got \in Seq(Dirs)
  BY <1>1, ReadTimes DEF ListInv, WalkOK, TableInv, TableTypeOK
<1>3. /\ \A x \in Dirs : ExistsAt(x, t)' <=> ExistsAt(x, t)
      /\ \A x \in Dirs : died'[x] = died[x] \/ (died[x] = 0 /\ now < died'[x])
  BY <1>2, PastIsFixed DEF ListInv
<1>4. ASSUME NEW i \in 1 .. Len(got)
      PROVE  /\ Belongs(got[i])' /\ ExistsAt(got[i], last)'
             /\ (ask.deleted \/ died[got[i]] = 0 \/ first < died[got[i]])'
  <2>1. PICK x : x = got[i]
    OBVIOUS
  <2>2. x \in Dirs
    BY <1>2, <2>1, ElementOfSeq
  <2>3. Belongs(x) /\ ExistsAt(x, t) /\ (ask.deleted \/ died[x] = 0 \/ first < died[x])
    BY <1>1, <2>1 DEF NothingIsMadeUp
  <2>4. x \in Rows
    BY <2>2, <2>3 DEF Rows, ExistsAt, Exists
  <2>5. Belongs(x)'
    BY <2>3, <2>4, BelongsStays DEF ListInv, walkVars
  <2>6. ExistsAt(x, t)'
    BY <1>3, <2>2, <2>3
  <2>7. ask.deleted \/ died'[x] = 0 \/ first < died'[x]
    <3>1. died[x] \in 0 .. now /\ died'[x] \in Nat
      BY <2>2 DEF ListInv, TableInv, TableTypeOK
    <3>2. QED
      BY <1>2, <1>3, <2>2, <2>3, <3>1
  <2>8. QED
    BY <1>1, <2>1, <2>5, <2>6, <2>7 DEF walkVars, Belongs, ExistsAt
<1>5. QED
  BY <1>4 DEF NothingIsMadeUp, walkVars

(* Whatever is created and deleted while a client goes from page to page,  *)
(* all it is given belongs to the listing it asked for, and was there at   *)
(* some time in between; and no failure makes it up.                       *)
THEOREM AllIsReal ==
    ASSUME PagesFit
    PROVE  Spec => []NothingIsMadeUp
<1>1. Init => NothingIsMadeUp
  BY DEF Init, NothingIsMadeUp
<1>2. ASSUME ListInv, NothingIsMadeUp, [Next]_vars
      PROVE  NothingIsMadeUp'
  <2>1. [TableNext]_tableVars
    BY <1>2, StepsOfTheTable
  <2>2. TableInv'
    BY <1>2, <2>1, TableInvStep DEF ListInv
  <2>3. CASE TableChanges
    BY <1>2, <2>1, <2>2, <2>3, WhatWasGivenStays DEF TableChanges, ListInv, WalkOK
  <2>4. CASE Begin
    <3>1. got' = <<>>
      BY <1>2, <2>4 DEF Begin, ListInv, WalkOK
    <3>2. QED
      BY <3>1 DEF NothingIsMadeUp
  <2>5. CASE ListRoots \/ ListNothing \/ ListRelatives
    <3>1. /\ Readable /\ Fits /\ pc = "list"
          /\ \/ /\ ask.kind = "until" => ask.dir # ask.anc
                /\ \E part : /\ StartOf(part, CutAt(ReadTime))
                             /\ Give(part, CutAt(ReadTime))
             \/ Give(<<>>, <<>>)
             \/ Fails
      BY <1>2, <2>5, WhatIsGiven DEF PagesFit, AsksNothing
    <3>2. PICK u : u = ReadTime
      OBVIOUS
    <3>3. u \in Nat /\ WalkOK
      BY <1>2, <3>2, ReadTimes DEF ListInv
    <3>4. CASE /\ ask.kind = "until" => ask.dir # ask.anc
               /\ \E part : StartOf(part, CutAt(ReadTime)) /\ Give(part, CutAt(ReadTime))
      <4>1. PICK cut, part : cut = CutAt(u) /\ StartOf(part, cut) /\ Give(part, cut)
        BY <3>2, <3>4
      <4>2. /\ cut \in Seq(Dirs)
            /\ \A i \in 1 .. Len(cut) : /\ cut[i] \in RowsAt(u)
                                        /\ ask.kind # "roots" => cut[i] # ask.dir
        BY <3>1, <4>1, PagesOfQueries
      <4>3. /\ part \in Seq(Dirs)
            /\ \A i \in 1 .. Len(part) : i \in 1 .. Len(cut) /\ part[i] = cut[i]
        BY <4>1, <4>2, LenProperties DEF StartOf
      <4>4. QED
        BY <1>2, <3>1, <3>2, <3>3, <3>4, <4>1, <4>2, <4>3, NothingNewIsMadeUp
    <3>5. CASE Give(<<>>, <<>>)
      <4>1. PICK cut : cut = <<>>
        OBVIOUS
      <4>2. cut \in Seq(Dirs) /\ 1 .. Len(cut) = {}
        BY <4>1
      <4>3. Give(cut, cut)
        BY <3>5, <4>1
      <4>4. QED
        BY <1>2, <3>1, <3>2, <3>3, <4>1, <4>2, <4>3, NothingNewIsMadeUp
    <3>6. CASE Fails
      <4>1. UNCHANGED <<tableVars, ask, got, first, last>>
        BY <3>6 DEF Fails
      <4>2. QED
        BY <1>2, <4>1 DEF NothingIsMadeUp, Belongs, Root, StrictlyAbove, Exists, ExistsAt, tableVars
    <3>7. QED
      BY <3>1, <3>4, <3>5, <3>6
  <2>6. CASE LookUp \/ LookUpAncestor \/ StatementFails \/ UNCHANGED vars
    <3>1. UNCHANGED <<tableVars, ask, got, first, last>>
      BY <2>6 DEF LookUp, LookUpAncestor, StatementFails, Fails, vars, walkVars
    <3>2. QED
      BY <1>2, <3>1 DEF NothingIsMadeUp, Belongs, Root, StrictlyAbove, Exists, ExistsAt, tableVars
  <2>7. QED
    BY <1>2, <2>3, <2>4, <2>5, <2>6 DEF Next
<1>3. QED
  BY <1>1, <1>2, ListInvHolds, PTL DEF Spec

(* Nothing is above a directory and strictly below it, too.                *)
LEMMA NothingUpToItself ==
    ASSUME ask \in Ask, ask.kind = "until", ask.dir = ask.anc, NEW t
    PROVE  Wanted(t) = {}
<1> SUFFICES ASSUME NEW x \in UntilAt(t), x # ask.dir
             PROVE  FALSE
  BY DEF Wanted, RowsAt
<1>1. x \in ParentsAt(t) /\ ask.dir \in Visible(t) /\ Above(x, ask.dir, t)
  BY DEF UntilAt, ParentsAt
<1>2. Above(ask.dir, ask.dir, t)
  BY <1>1, BelowIsClosed DEF Above
<1>3. ask.anc \in ParentsAt(t)
  BY <1>1, <1>2 DEF ParentsAt
<1>4. QED
  BY <1>1, <1>3 DEF UntilAt

(* The relatives of a directory are not in the first place.                *)
LEMMA PlacesOfRelatives ==
    ASSUME Readable, NEW t, NEW d \in Wanted(t)
    PROVE  PlaceAt(t)[d] \in Nat /\ Skip <= PlaceAt(t)[d]
<1>1. d \in RowsAt(t) /\ d # ask.dir
  BY DEF Wanted
<1>2. PlaceAt(t)[d] \in Nat
  BY <1>1, QueryInOrder
<1>3. CASE ask.kind = "roots"
  BY <1>2, <1>3 DEF Skip
<1>4. CASE ask.kind # "roots"
  <2>1. ask.dir \in RowsAt(t) /\ <<ask.dir, d>> \in Before(t)
    BY <1>1, <1>4, DirComesFirst
  <2>2. PlaceAt(t)[ask.dir] < PlaceAt(t)[d] /\ PlaceAt(t)[ask.dir] \in Nat
    BY <1>1, <2>1, QueryInOrder
  <2>3. QED
    BY <1>2, <1>4, <2>2 DEF Skip
<1>5. QED
  BY <1>3, <1>4

(* When a page is read, what was there all along is given already, or its  *)
(* place is on this page or beyond.                                        *)
LEMMA NothingIsPassed ==
    ASSUME Readable, WalkOK, Walking, FirstPages \subseteq {0, 1}, NothingIsSkipped,
           NEW t, t = (IF got = <<>> THEN ReadTime ELSE first),
           NEW u, u = ReadTime, u \in Nat,
           ask.deleted \/ Deletions(t, u) = {},
           NEW d \in (Wanted(t) \cap Wanted(u)) \ Given
    PROVE  /\ Skip + GetPageSize * (GetPage - 1) <= PlaceAt(u)[d]
           /\ \A i \in 1 .. Len(got) : <<got[i], d>> \in Before(u)
<1>1. Fits
  BY DEF WalkOK
<1>2. CASE got = <<>>
  <2>1. GetPage = 1
    <3>1. page \in {0, 1}
      BY <1>2 DEF WalkOK
    <3>2. QED
      BY <3>1 DEF GetPage
  <2>2. GetPageSize * (GetPage - 1) = 0
    BY <1>1, <2>1 DEF Fits
  <2>3. PlaceAt(u)[d] \in Nat /\ Skip <= PlaceAt(u)[d] /\ Skip \in {0, 1}
    BY PlacesOfRelatives DEF Skip
  <2>4. QED
    BY <1>2, <2>2, <2>3
<1>3. CASE got # <<>>
  <2>1. PICK v : v = last
    OBVIOUS
  <2>2. t = first /\ t \in Nat /\ v \in Nat /\ t <= v /\ v <= u
    BY <1>3, <2>1 DEF WalkOK
  <2>3. \A x \in Dirs : died[x] \in Nat
    BY DEF Readable, TableInv, TableTypeOK
  <2>4. ask.deleted \/ (Deletions(t, v) = {} /\ Deletions(v, u) = {})
    BY <2>2, <2>3 DEF Deletions
  <2>5. d \in RowsAt(t) /\ d # ask.dir
    BY DEF Wanted
  <2>6. d \in RowsAt(v)
    BY <2>2, <2>4, <2>5, PlacesGrow
  <2>7. PlaceAt(v)[d] <= PlaceAt(u)[d]
    BY <2>2, <2>4, <2>6, PlacesGrow
  <2>8. d \in Wanted(first) \cap Wanted(last)
    BY <2>1, <2>2, <2>5, <2>6 DEF Wanted
  <2>9. /\ Skip + GetPageSize * (GetPage - 1) <= PlaceAt(v)[d]
        /\ \A i \in 1 .. Len(got) : <<got[i], d>> \in Before(v)
    BY <2>1, <2>2, <2>4, <2>8 DEF NothingIsSkipped, ComesAfterGiven
  <2>10. /\ PlaceAt(v)[d] \in Nat /\ PlaceAt(u)[d] \in Nat
         /\ Skip \in {0, 1} /\ GetPageSize * (GetPage - 1) \in Nat
    <3>1. PlaceAt(v)[d] \in Nat /\ PlaceAt(u)[d] \in Nat
      BY <2>6, QueryInOrder DEF Wanted
    <3>2. GetPageSize * (GetPage - 1) \in Nat
      <4>1. PICK s, p : s = GetPageSize /\ p = GetPage
        OBVIOUS
      <4>2. s \in Nat /\ p - 1 \in Nat
        BY <1>1, <4>1 DEF Fits
      <4>3. s * (p - 1) \in Nat
        BY <4>2
      <4>4. QED
        BY <4>1, <4>3
    <3>3. QED
      BY <3>1, <3>2 DEF Skip
  <2>11. ASSUME NEW i \in 1 .. Len(got)
         PROVE  <<got[i], d>> \in Before(u)
    <3>1. PICK x : x = got[i]
      OBVIOUS
    <3>2. <<x, d>> \in Before(v)
      BY <2>9, <3>1
    <3>3. x \in RowsAt(v)
      BY <3>2 DEF Before
    <3>4. <<x, d>> \in Before(u)
      BY <2>2, <2>4, <2>6, <3>2, <3>3, OrderStays
    <3>5. QED
      BY <3>1, <3>4
  <2>12. QED
    BY <2>7, <2>9, <2>10, <2>11
<1>4. QED
  BY <1>2, <1>3

(* What the next state says of times gone by is what this one says.        *)
LEMMA AsBefore ==
    ASSUME TableInv, [TableNext]_tableVars, ask' = ask, ask \in Ask,
           NEW t \in 0 .. now, NEW u \in 0 .. now, first' = t, last' = u
    PROVE  /\ Wanted(first)' = Wanted(t) /\ Wanted(last)' = Wanted(u)
           /\ PlaceAt(last)' = PlaceAt(u) /\ Before(last)' = Before(u)
           /\ Deletions(first, last)' = Deletions(t, u)
<1>1. TableInv'
  BY TableInvStep
<1>2. RowsAt(t)' = RowsAt(t) /\ RowsAt(u)' = RowsAt(u) /\ Before(u)' = Before(u)
  BY <1>1, RowsAreFixed
<1>3. Wanted(t)' = Wanted(t) /\ Wanted(u)' = Wanted(u) /\ PlaceAt(u)' = PlaceAt(u)
  BY <1>2 DEF Wanted, PlaceAt
<1>4. Deletions(t, u)' = Deletions(t, u)
  <2>1. \A x \in Dirs : died'[x] = died[x] \/ (died[x] = 0 /\ now < died'[x])
    BY <1>1, PastIsFixed
  <2>2. now \in Nat /\ \A x \in Dirs : died[x] \in Nat /\ died'[x] \in Nat
    BY <1>1 DEF TableInv, TableTypeOK
  <2>3. \A x \in Dirs : t < died'[x] /\ died'[x] <= u <=> t < died[x] /\ died[x] <= u
    BY <2>1, <2>2
  <2>4. QED
    BY <2>3 DEF Deletions
<1>5. Wanted(first)' = Wanted(t)' /\ Wanted(last)' = Wanted(u)'
  OBVIOUS
<1>6. PlaceAt(last)' = PlaceAt(u)' /\ Deletions(first, last)' = Deletions(t, u)'
  OBVIOUS
<1>7. Before(last)' = Before(u)'
  OBVIOUS
<1>8. QED
  BY <1>2, <1>3, <1>4, <1>5, <1>6, <1>7

(* Of two rows, the one in the earlier place comes before the other.       *)
LEMMA PlacesAreInOrder ==
    ASSUME Readable, NEW t, NEW x \in RowsAt(t), NEW y \in RowsAt(t),
           PlaceAt(t)[x] < PlaceAt(t)[y]
    PROVE  <<x, y>> \in Before(t)
<1>1. PlaceAt(t)[x] \in Nat /\ PlaceAt(t)[y] \in Nat
  BY QueryInOrder
<1>2. <<y, x>> \notin Before(t)
  <2>1. <<y, x>> \in Before(t) => PlaceAt(t)[y] < PlaceAt(t)[x]
    BY QueryInOrder
  <2>2. QED
    BY <1>1, <2>1
<1>3. x # y
  BY <1>1
<1>4. QED
  BY <1>2, <1>3, BeforeIsAnOrder

(* When a page is given, or the start of one, what the walk has missed     *)
(* comes after all that it has been given, and on a page to come if the    *)
(* page was full.                                                          *)
LEMMA WhatIsMissed ==
    ASSUME Readable, WalkOK, Walking, FirstPages \subseteq {0, 1}, NothingIsSkipped,
           NEW t, t = (IF got = <<>> THEN ReadTime ELSE first),
           NEW u, u = ReadTime, u \in Nat,
           ask.deleted \/ Deletions(t, u) = {},
           NEW cut, cut = CutAt(u), NEW part, StartOf(part, cut),
           NEW d \in (Wanted(t) \cap Wanted(u)) \ Given, \A i \in 1 .. Len(part) : part[i] # d
    PROVE  /\ \A i \in 1 .. Len(got) : <<got[i], d>> \in Before(u)
           /\ \A i \in 1 .. Len(part) : <<part[i], d>> \in Before(u)
           /\ part # cut \/ Skip + GetPageSize * GetPage <= PlaceAt(u)[d]
           /\ part # cut \/ Len(part) = GetPageSize
           /\ Len(part) = GetPageSize => part = cut
<1>1. PICK o, s, k, p : /\ o = GetPageSize * (GetPage - 1) /\ s = GetPageSize
                        /\ k = Skip /\ p = PlaceAt(u)[d]
  OBVIOUS
<1>2. Fits /\ d \in RowsAt(u)
  BY DEF WalkOK, Wanted
<1>3. /\ cut \in Seq(Dirs) /\ Len(cut) <= s
      /\ \A i \in 1 .. Len(cut) : /\ cut[i] \in RowsAt(u)
                                  /\ PlaceAt(u)[cut[i]] = k + o + i - 1
      /\ \A x \in RowsAt(u) :
           /\ PlaceAt(u)[x] \in Nat
           /\ k + o <= PlaceAt(u)[x] /\ PlaceAt(u)[x] < k + GetPageSize * GetPage
                => \E i \in 1 .. Len(cut) : cut[i] = x
      /\ Len(cut) # s => \A x \in RowsAt(u) : PlaceAt(u)[x] < k + GetPageSize * GetPage
  BY <1>1, <1>2, PagesOfQueries
<1>4. o \in Nat /\ s \in Nat \ {0} /\ GetPageSize * GetPage = o + s /\ k \in {0, 1} /\ p \in Nat
  BY <1>1, <1>2, <1>3, NoOverflow DEF Fits, Skip, Readable
<1>5. /\ part \in Seq(Dirs) /\ Len(part) \in Nat /\ Len(cut) \in Nat /\ Len(part) <= Len(cut)
      /\ \A i \in 1 .. Len(part) : part[i] = cut[i]
      /\ part # cut => Len(part) < Len(cut)
  BY <1>3, LenProperties DEF StartOf
<1>6. k + o <= p /\ \A i \in 1 .. Len(got) : <<got[i], d>> \in Before(u)
  BY <1>1, NothingIsPassed
<1>7. p < k + o + s => k + o + Len(part) <= p
  <2> SUFFICES ASSUME p < k + o + s
               PROVE  k + o + Len(part) <= p
    OBVIOUS
  <2>1. PICK i \in 1 .. Len(cut) : cut[i] = d
    <3>1. p < k + GetPageSize * GetPage
      BY <1>4
    <3>2. QED
      BY <1>1, <1>2, <1>3, <1>6, <3>1
  <2>2. p = k + o + i - 1
    BY <1>1, <1>3, <2>1
  <2>3. ~(i <= Len(part))
    <3>1. i <= Len(part) => i \in 1 .. Len(part)
      BY <1>5
    <3>2. QED
      BY <1>5, <2>1, <3>1
  <2>4. QED
    BY <1>4, <1>5, <2>2, <2>3
<1>8. k + o + Len(part) <= p
  BY <1>3, <1>4, <1>5, <1>7
<1>9. ASSUME NEW i \in 1 .. Len(part)
      PROVE  <<part[i], d>> \in Before(u)
  <2>1. PICK x : x = part[i]
    OBVIOUS
  <2>2. i \in 1 .. Len(cut) /\ x = cut[i]
    BY <1>5, <2>1
  <2>3. x \in RowsAt(u) /\ PlaceAt(u)[x] = k + o + i - 1
    BY <1>3, <2>2
  <2>4. PlaceAt(u)[x] < PlaceAt(u)[d]
    <3>1. PICK n, q : n = Len(part) /\ q = PlaceAt(u)[x]
      OBVIOUS
    <3>2. n \in Nat /\ i \in 1 .. n /\ q = k + o + i - 1 /\ k + o + n <= p
      BY <1>5, <1>8, <2>3, <3>1
    <3>3. q < p
      BY <1>4, <3>2
    <3>4. QED
      BY <1>1, <3>1, <3>3
  <2>5. QED
    BY <1>2, <2>1, <2>3, <2>4, PlacesAreInOrder
<1>10. part = cut => k + o + s <= p /\ Len(cut) = s
  <2> SUFFICES ASSUME part = cut
               PROVE  k + o + s <= p /\ Len(cut) = s
    OBVIOUS
  <2>1. Len(cut) = s
    <3>1. Len(cut) # s => p < k + o + s
      BY <1>1, <1>2, <1>3, <1>4
    <3>2. PICK n : n = k + o
      OBVIOUS
    <3>3. p < k + o + s => \E i \in 1 .. Len(cut) : cut[i] = d
      <4>1. p < k + o + s => p < k + GetPageSize * GetPage
        BY <1>4
      <4>2. QED
        BY <1>1, <1>2, <1>3, <1>6, <4>1
    <3>4. QED
      BY <1>5, <3>1, <3>3
  <2>2. QED
    BY <1>8, <2>1
<1>11. Len(part) = s => part = cut
  BY <1>3, <1>4, <1>5
<1>12. part # cut \/ Skip + GetPageSize * GetPage <= PlaceAt(u)[d]
  <2>1. k + o + s = k + (o + s)
    BY <1>4
  <2>2. QED
    BY <1>1, <1>4, <1>10, <2>1
<1>13. QED
  BY <1>1, <1>6, <1>9, <1>10, <1>11, <1>12

LEMMA NothingGoesMissing ==
    ASSUME Readable, WalkOK, pc = "list", FirstPages \subseteq {0, 1}, NothingIsSkipped,
           NEW u, u = ReadTime, NEW cut, cut = CutAt(u),
           NEW part, StartOf(part, cut), Give(part, cut)
    PROVE  NothingIsSkipped' /\ NothingIsOmitted'
<1>1. PICK t : t = IF got = <<>> THEN ReadTime ELSE first
  OBVIOUS
<1>2. u \in Nat /\ u \in 0 .. now /\ t \in 0 .. now /\ Fits /\ Walking
  BY <1>1, ReadTimes, TimesGoneBy DEF WalkOK, Walking, Readable
<1>3. /\ UNCHANGED <<tableVars, ask>>
      /\ got' = got \o part /\ last' = u /\ first' = t /\ broken' = (part # cut)
  BY <1>1 DEF Give
<1>4. /\ Wanted(first)' = Wanted(t) /\ Wanted(last)' = Wanted(u)
      /\ PlaceAt(last)' = PlaceAt(u) /\ Before(last)' = Before(u)
      /\ Deletions(first, last)' = Deletions(t, u)
  BY <1>2, <1>3, AsBefore DEF Readable
<1>5. /\ part \in Seq(Dirs) /\ Len(part) \in Nat /\ got \in Seq(Dirs) /\ Len(got) \in Nat
      /\ Len(got') = Len(got) + Len(part)
      /\ \A i \in 1 .. Len(got) + Len(part) :
           got'[i] = IF i <= Len(got) THEN got[i] ELSE part[i - Len(got)]
  BY <1>3, ConcatProperties, LenProperties DEF WalkOK, StartOf
<1>6. /\ \A i \in 1 .. Len(got) : i \in 1 .. Len(got') /\ got'[i] = got[i]
      /\ \A j \in 1 .. Len(part) : /\ Len(got) + j \in 1 .. Len(got')
                                   /\ got'[Len(got) + j] = part[j]
      /\ \A i \in 1 .. Len(got') : \/ i \in 1 .. Len(got) /\ got'[i] = got[i]
                                   \/ /\ i - Len(got) \in 1 .. Len(part)
                                      /\ got'[i] = part[i - Len(got)]
  <2>1. \A i \in 1 .. Len(got) : i \in 1 .. Len(got') /\ got'[i] = got[i]
    BY <1>5
  <2>2. \A j \in 1 .. Len(part) : /\ Len(got) + j \in 1 .. Len(got')
                                  /\ got'[Len(got) + j] = part[j]
    BY <1>5
  <2>3. ASSUME NEW i \in 1 .. Len(got')
        PROVE  \/ i \in 1 .. Len(got) /\ got'[i] = got[i]
               \/ i - Len(got) \in 1 .. Len(part) /\ got'[i] = part[i - Len(got)]
    BY <1>5
  <2>4. QED
    BY <2>1, <2>2, <2>3
<1>7. ASSUME (ask.deleted \/ Deletions(first, last) = {})',
             NEW d \in ((Wanted(first) \cap Wanted(last)) \ Given)'
      PROVE  /\ ComesAfterGiven(d)'
             /\ part # cut \/ Skip + GetPageSize * GetPage <= PlaceAt(u)[d]
             /\ part # cut \/ Len(part) = GetPageSize
             /\ Len(part) = GetPageSize => part = cut
  <2>1. d \in Wanted(t) \cap Wanted(u) /\ (ask.deleted \/ Deletions(t, u) = {})
    BY <1>3, <1>4, <1>7
  <2>2. \A i \in 1 .. Len(got') : got'[i] # d
    BY <1>7 DEF Given
  <2>3. d \notin Given /\ \A i \in 1 .. Len(part) : part[i] # d
    BY <1>6, <2>2 DEF Given
  <2>4. /\ \A i \in 1 .. Len(got) : <<got[i], d>> \in Before(u)
        /\ \A i \in 1 .. Len(part) : <<part[i], d>> \in Before(u)
        /\ part # cut \/ Skip + GetPageSize * GetPage <= PlaceAt(u)[d]
        /\ part # cut \/ Len(part) = GetPageSize
        /\ Len(part) = GetPageSize => part = cut
    BY <1>1, <1>2, <2>1, <2>3, WhatIsMissed
  <2>5. \A i \in 1 .. Len(got') : <<got'[i], d>> \in Before(u)
    BY <1>6, <2>4
  <2>6. ComesAfterGiven(d)'
    BY <1>4, <2>5 DEF ComesAfterGiven
  <2>7. QED
    BY <2>4, <2>6
<1>8. CASE HasNext(Len(part))
  <2>1. /\ Len(part) = GetPageSize /\ page' = GetPage + 1 /\ limit' = GetPageSize
        /\ reply' = reply /\ reply = 0
    BY <1>2, <1>8 DEF Give, HasNext, WalkOK
  <2>2. GetPageSize' = GetPageSize /\ GetPage' = GetPage + 1 /\ GetPage \in Nat
    <3>1. Len(cut) <= GetPageSize /\ Len(cut) \in Nat /\ Len(part) <= Len(cut)
      BY <1>2, LenProperties, PagesOfQueries DEF StartOf
    <3>2. Len(cut) = GetPageSize
      BY <1>2, <1>5, <2>1, <3>1 DEF Fits
    <3>3. GetPageSize * GetPage <= Cardinality(Dirs)
      BY <1>2, <3>2, PagesOfQueries
    <3>4. QED
      BY <1>2, <2>1, <3>3, FitsNext DEF Readable, Fits
  <2>3. Skip' = Skip
    BY <1>3 DEF Skip
  <2>4. GetPageSize' * (GetPage' - 1) = GetPageSize * GetPage
    <3>1. PICK p : p = GetPage
      OBVIOUS
    <3>2. p \in Nat /\ GetPage' - 1 = p
      BY <2>2, <3>1
    <3>3. QED
      BY <2>2, <3>1, <3>2
  <2>5. NothingIsSkipped'
    <3> SUFFICES ASSUME (ask.deleted \/ Deletions(first, last) = {})',
                        NEW d \in ((Wanted(first) \cap Wanted(last)) \ Given)'
                 PROVE  /\ Skip' + GetPageSize' * (GetPage' - 1) <= PlaceAt(last)'[d]
                        /\ ComesAfterGiven(d)'
      BY DEF NothingIsSkipped
    <3>1. Skip + GetPageSize * GetPage <= PlaceAt(u)[d] /\ ComesAfterGiven(d)'
      BY <1>7, <2>1
    <3>2. QED
      BY <1>4, <2>3, <2>4, <3>1
  <2>6. NothingIsOmitted'
    BY <2>1 DEF NothingIsOmitted
  <2>7. QED
    BY <2>5, <2>6
<1>9. CASE ~HasNext(Len(part))
  <2>1. Len(part) # GetPageSize /\ pc' = "done"
    BY <1>9 DEF Give, Ends, HasNext
  <2>2. NothingIsSkipped'
    BY <2>1 DEF NothingIsSkipped, Walking
  <2>3. NothingIsOmitted'
    <3> SUFFICES ASSUME (ask.deleted \/ Deletions(first, last) = {})',
                        NEW d \in ((Wanted(first) \cap Wanted(last)) \ Given)'
                 PROVE  broken' /\ ComesAfterGiven(d)'
      BY DEF NothingIsOmitted
    <3>1. part # cut /\ ComesAfterGiven(d)'
      BY <1>7, <2>1
    <3>2. QED
      BY <1>3, <3>1
  <2>4. QED
    BY <2>2, <2>3
<1>10. QED
  BY <1>8, <1>9

(* What was there from the first page to the last is on one of the pages,  *)
(* whatever is created meanwhile, if the walk starts at the first page and *)
(* nothing is deleted or deleted directories are listed too.  Unless a     *)
(* page was cut short, that is: then the walk ends there, and what is      *)
(* missing comes after all that it was given.                              *)
THEOREM AllIsGiven ==
    ASSUME PagesFit, FirstPages \subseteq {0, 1}
    PROVE  Spec => []NothingIsOmitted
<1> DEFINE Inv == NothingIsSkipped /\ NothingIsOmitted
<1>1. Init => Inv
  BY DEF Init, NothingIsSkipped, NothingIsOmitted, Walking
<1>2. ASSUME ListInv, Inv, [Next]_vars
      PROVE  Inv'
  <2>1. [TableNext]_tableVars /\ TableInv /\ WalkOK
    BY <1>2, StepsOfTheTable DEF ListInv
  <2>2. ASSUME pc # "idle", pc # "done", UNCHANGED <<ask, page, limit, got, first, last>>,
               pc' = "done" \/ Walking, reply' # 200
        PROVE  Inv'
    <3>1. NothingIsOmitted'
      BY <2>2 DEF NothingIsOmitted
    <3>2. NothingIsSkipped'
      <4>1. PICK t, u : t = first /\ u = last
        OBVIOUS
      <4>2. t \in 0 .. now /\ u \in 0 .. now /\ ask \in Ask /\ Walking
        BY <2>1, <2>2, <4>1, TimesGoneBy DEF WalkOK, Walking
      <4>3. first' = t /\ last' = u /\ ask' = ask
        BY <2>2, <4>1
      <4>4. /\ Wanted(first)' = Wanted(first) /\ Wanted(last)' = Wanted(last)
            /\ PlaceAt(last)' = PlaceAt(last) /\ Before(last)' = Before(last)
            /\ Deletions(first, last)' = Deletions(first, last)
        BY <2>1, <4>1, <4>2, <4>3, AsBefore
      <4>5. Given' = Given /\ Skip' = Skip /\ GetPageSize' = GetPageSize /\ GetPage' = GetPage
        BY <2>2 DEF Given, Skip, GetPageSize, GetPage
      <4>6. \A d : ComesAfterGiven(d) => ComesAfterGiven(d)'
        BY <2>2, <4>4 DEF ComesAfterGiven
      <4>7. QED
        BY <1>2, <4>2, <4>3, <4>4, <4>5, <4>6 DEF NothingIsSkipped
    <3>3. QED
      BY <3>1, <3>2
  <2>3. CASE pc = "done"
    <3>1. UNCHANGED vars
      BY <1>2, <2>3, DoneIsDone
    <3>2. NothingIsSkipped'
      BY <2>3, <3>1 DEF NothingIsSkipped, Walking, vars, walkVars
    <3>3. NothingIsOmitted'
      <4>1. UNCHANGED tableVars /\ UNCHANGED <<ask, got, first, last, reply, broken>>
        BY <3>1 DEF vars, walkVars
      <4>2. PICK t, u : t = first /\ u = last
        OBVIOUS
      <4>3. t \in 0 .. now /\ u \in 0 .. now /\ ask \in Ask /\ first' = t /\ last' = u
        BY <2>1, <2>3, <4>1, <4>2, TimesGoneBy DEF WalkOK
      <4>4. /\ Wanted(first)' = Wanted(first) /\ Wanted(last)' = Wanted(last)
            /\ Before(last)' = Before(last)
            /\ Deletions(first, last)' = Deletions(first, last)
        BY <2>1, <4>1, <4>2, <4>3, AsBefore
      <4>5. Given' = Given /\ \A d : ComesAfterGiven(d) => ComesAfterGiven(d)'
        BY <4>1, <4>4 DEF Given, ComesAfterGiven
      <4>6. QED
        BY <1>2, <4>1, <4>4, <4>5 DEF NothingIsOmitted
    <3>4. QED
      BY <3>2, <3>3
  <2>4. CASE UNCHANGED vars
    <3>1. CASE pc = "idle"
      BY <2>1, <2>4, <3>1 DEF NothingIsSkipped, NothingIsOmitted, Walking, vars, walkVars, WalkOK
    <3>2. CASE pc # "idle" /\ pc # "done"
      BY <2>1, <2>2, <2>4, <3>2 DEF WalkOK, Walking, vars, walkVars
    <3>3. QED
      BY <2>3, <3>1, <3>2
  <2>5. CASE TableChanges \/ LookUp \/ LookUpAncestor
    BY <2>1, <2>2, <2>5 DEF TableChanges, LookUp, LookUpAncestor, Ends, WalkOK, Walking, walkVars
  <2>6. CASE Begin
    <3>1. /\ UNCHANGED tableVars /\ first' = 0 /\ last' = 0 /\ reply' = 0 /\ ask' \in Ask
      BY <2>1, <2>6 DEF Begin, WalkOK
    <3>2. TableInv'
      BY <2>1, TableInvStep
    <3>3. Wanted(first)' = {}
      <4>1. Visible(0)' = {}
        BY <3>2 DEF Visible, ExistsAt, TableInv, TableTypeOK
      <4>2. Visible(first)' = Visible(0)'
        BY <3>1
      <4>3. PICK V : V = Visible(first)' /\ V = {}
        BY <4>1, <4>2
      <4>4. RootsAt(first)' = {} /\ ChildrenAt(first)' = {} /\ ParentsAt(first)' = {}
        BY <4>3 DEF RootsAt, ChildrenAt, ParentsAt
      <4>5. UntilAt(first)' = {}
        BY <4>4 DEF UntilAt
      <4>6. ask'.kind \in {"roots", "children", "parents", "until"}
        BY <3>1, ListingAssumption DEF Ask
      <4>7. QED
        BY <4>4, <4>5, <4>6 DEF Wanted, RowsAt
    <3>4. QED
      BY <3>1, <3>3 DEF NothingIsSkipped, NothingIsOmitted
  <2>7. CASE ListRoots \/ ListNothing \/ ListRelatives
    <3>1. /\ Readable /\ Fits /\ pc = "list"
          /\ \/ \E part : StartOf(part, CutAt(ReadTime)) /\ Give(part, CutAt(ReadTime))
             \/ ask.kind = "until" /\ ask.dir = ask.anc /\ Give(<<>>, <<>>)
             \/ Fails
      BY <1>2, <2>7, WhatIsGiven DEF PagesFit, AsksNothing
    <3>2. PICK u : u = ReadTime
      OBVIOUS
    <3>3. CASE \E part : StartOf(part, CutAt(ReadTime)) /\ Give(part, CutAt(ReadTime))
      <4>1. PICK cut, part : cut = CutAt(u) /\ StartOf(part, cut) /\ Give(part, cut)
        BY <3>2, <3>3
      <4>2. QED
        BY <1>2, <2>1, <3>1, <3>2, <4>1, NothingGoesMissing
    <3>4. CASE ask.kind = "until" /\ ask.dir = ask.anc /\ Give(<<>>, <<>>)
      <4>1. PICK none : none = <<>>
        OBVIOUS
      <4>2. Give(none, none) /\ Len(none) = 0
        BY <3>4, <4>1
      <4>3. pc' = "done" /\ ask' = ask /\ last' = u
        BY <3>1, <3>2, <4>2 DEF Give, HasNext, Ends, Fits
      <4>4. Wanted(last)' = {}
        <5>1. PICK t : t = IF got = <<>> THEN ReadTime ELSE first
          OBVIOUS
        <5>2. u \in 0 .. now /\ t \in 0 .. now /\ ask \in Ask /\ first' = t
          BY <2>1, <3>1, <3>2, <4>2, <5>1, TimesGoneBy DEF Readable, WalkOK, Give
        <5>3. Wanted(last)' = Wanted(u)
          BY <2>1, <4>3, <5>2, AsBefore
        <5>4. QED
          BY <3>4, <5>2, <5>3, NothingUpToItself
      <4>5. QED
        BY <4>3, <4>4 DEF NothingIsSkipped, NothingIsOmitted, Walking
    <3>5. CASE Fails
      <4>1. /\ pc' = "done" /\ reply' = 500
        BY <3>5 DEF Fails, Ends
      <4>2. QED
        BY <4>1 DEF NothingIsSkipped, NothingIsOmitted, Walking
    <3>6. QED
      BY <3>1, <3>3, <3>4, <3>5
  <2>8. CASE StatementFails
    <3>1. pc' = "done" /\ reply' = 500
      BY <2>8 DEF StatementFails, Fails, Ends
    <3>2. QED
      BY <3>1 DEF NothingIsSkipped, NothingIsOmitted, Walking
  <2>9. QED
    BY <1>2, <2>4, <2>5, <2>6, <2>7, <2>8 DEF Next
<1>3. QED
  <2>1. Inv => NothingIsOmitted
    OBVIOUS
  <2>2. QED
    BY <1>1, <1>2, <2>1, ListInvHolds, PTL DEF Spec

=============================================================================
