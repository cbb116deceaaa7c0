----------------------------- MODULE TreesProofs -----------------------------
(***************************************************************************)
(* What Below returns, whatever the parent function is, the place of each  *)
(* member of a finite set that is ordered, and the least of some numbers.  *)
(***************************************************************************)
EXTENDS Trees, Integers, FiniteSetTheorems, WellFoundedInduction, TLAPS

(* Below is made of visible rows, d among them, and is closed below.       *)
LEMMA BelowIsClosed ==
    ASSUME NEW up, NEW d, NEW visible
    PROVE  /\ Below(up, d, visible) \subseteq visible
           /\ d \in visible => d \in Below(up, d, visible)
           /\ \A x \in visible :
                up[x] \in Below(up, d, visible) => x \in Below(up, d, visible)
<1>1. Below(up, d, visible) \subseteq visible
  BY DEF Below
<1>2. d \in visible => d \in Below(up, d, visible)
  BY DEF Below
<1>3. ASSUME NEW x \in visible, up[x] \in Below(up, d, visible)
      PROVE  x \in Below(up, d, visible)
  BY <1>3 DEF Below, ClosedBelow
<1>4. QED
  BY <1>1, <1>2, <1>3

(* Below is least: a row other than d is in it only if its parent is a     *)
(* visible row.                                                            *)
LEMMA BelowHasVisibleParents ==
    ASSUME NEW up, NEW d, NEW visible, d \in visible,
           NEW x \in Below(up, d, visible), x # d
    PROVE  up[x] \in visible
<1>1. SUFFICES ASSUME up[x] \notin visible
               PROVE  FALSE
  OBVIOUS
<1> DEFINE S == visible \ {x}
<1>2. S \in SUBSET visible /\ d \in S
  OBVIOUS
<1>3. ClosedBelow(up, S, visible)
  BY <1>1 DEF ClosedBelow
<1>4. x \in S
  BY <1>2, <1>3 DEF Below
<1>5. QED
  BY <1>4

(* Walking down from d, every directory is reached through its parent: one *)
(* other than d is below d only if its parent is.                          *)
LEMMA BelowIsReached ==
    ASSUME NEW up, NEW d, NEW visible, d \in visible,
           NEW x \in Below(up, d, visible), x # d
    PROVE  up[x] \in Below(up, d, visible)
<1>1. SUFFICES ASSUME up[x] \notin Below(up, d, visible)
               PROVE  FALSE
  OBVIOUS
<1> DEFINE S == Below(up, d, visible) \ {x}
<1>2. S \in SUBSET visible /\ d \in S
  BY BelowIsClosed
<1>3. ClosedBelow(up, S, visible)
  <2>1. SUFFICES ASSUME NEW y \in visible, up[y] \in S
                 PROVE  y \in S
    BY DEF ClosedBelow
  <2>2. y \in Below(up, d, visible)
    BY <2>1, BelowIsClosed
  <2>3. y # x
    BY <1>1, <2>1
  <2>4. QED
    BY <2>2, <2>3
<1>4. x \in S
  BY <1>2, <1>3 DEF Below
<1>5. QED
  BY <1>4

(* A walk down finds no less when more is visible, or when directories     *)
(* that were not visible change their parents.                             *)
LEMMA BelowGrows ==
    ASSUME NEW up, NEW up2, NEW d, NEW V, NEW W, V \subseteq W, d \in V,
           \A y \in V : up2[y] = up[y]
    PROVE  Below(up, d, V) \subseteq Below(up2, d, W)
<1> SUFFICES ASSUME NEW x \in Below(up, d, V),
                    NEW S \in SUBSET W, d \in S, ClosedBelow(up2, S, W)
             PROVE  x \in W /\ x \in S
  BY DEF Below
<1>1. x \in V
  BY DEF Below
<1>2. S \cap V \in SUBSET V /\ d \in S \cap V
  OBVIOUS
<1>3. ClosedBelow(up, S \cap V, V)
  BY DEF ClosedBelow
<1>4. x \in S \cap V
  BY <1>2, <1>3 DEF Below
<1>5. QED
  BY <1>1, <1>4

(* It finds the same of what was visible, when what becomes visible is     *)
(* nobody's parent of that.                                                *)
LEMMA BelowIsKept ==
    ASSUME NEW up, NEW up2, NEW d, NEW V, NEW W, V \subseteq W, d \in V,
           \A y \in V : up2[y] = up[y] /\ up2[y] \notin W \ V
    PROVE  Below(up2, d, W) \cap V = Below(up, d, V)
<1>1. Below(up, d, V) \subseteq Below(up2, d, W) /\ Below(up, d, V) \subseteq V
  BY BelowGrows, BelowIsClosed
<1>2. ASSUME NEW x \in Below(up2, d, W), x \in V
      PROVE  x \in Below(up, d, V)
  <2> SUFFICES ASSUME NEW S \in SUBSET V, d \in S, ClosedBelow(up, S, V)
               PROVE  x \in S
    BY <1>2 DEF Below
  <2> DEFINE T == S \cup (W \ V)
  <2>1. T \in SUBSET W /\ d \in T
    OBVIOUS
  <2>2. ClosedBelow(up2, T, W)
    <3> SUFFICES ASSUME NEW y \in W, up2[y] \in T
                 PROVE  y \in T
      BY DEF ClosedBelow
    <3>1. CASE y \in V
      <4>1. up2[y] = up[y] /\ up[y] \in S
        BY <3>1
      <4>2. QED
        BY <3>1, <4>1 DEF ClosedBelow
    <3>2. QED
      BY <3>1
  <2>3. x \in T
    BY <2>1, <2>2 DEF Below
  <2>4. QED
    BY <1>2, <2>3
<1>3. QED
  BY <1>1, <1>2

(* Where parents are older than their children, what is below d is younger *)
(* than d.                                                                 *)
LEMMA BelowIsYounger ==
    ASSUME NEW up, NEW age, NEW V, NEW d \in V,
           \A y \in V : age[y] \in Int,
           \A y \in V : up[y] \in V => age[up[y]] < age[y],
           NEW x \in Below(up, d, V), x # d
    PROVE  age[d] < age[x]
<1> DEFINE S == { y \in V : y = d \/ age[d] < age[y] }
<1>1. S \in SUBSET V /\ d \in S
  OBVIOUS
<1>2. ClosedBelow(up, S, V)
  <2> SUFFICES ASSUME NEW y \in V, up[y] \in S
               PROVE  y \in S
    BY DEF ClosedBelow
  <2>1. age[up[y]] < age[y] /\ (up[y] = d \/ age[d] < age[up[y]])
    OBVIOUS
  <2>2. age[d] \in Int /\ age[y] \in Int /\ age[up[y]] \in Int
    OBVIOUS
  <2>3. age[d] < age[y]
    BY <2>1, <2>2
  <2>4. QED
    BY <2>3
<1>3. x \in S
  BY <1>1, <1>2 DEF Below
<1>4. QED
  BY <1>3

(* There is one way down from x to d: whoever is on it, is on it also when *)
(* fewer are visible, as long as d is still reached.                       *)
LEMMA BelowBetween ==
    ASSUME NEW up, NEW V, NEW W, V \subseteq W, NEW x \in V, NEW a \in W, a # x,
           x \notin Below(up, a, W),
           NEW d \in Below(up, x, V), d \in Below(up, a, W)
    PROVE  a \in Below(up, x, V) /\ d \in Below(up, a, V)
<1> DEFINE S == { y \in Below(up, x, V) :
                    y \in Below(up, a, W) => a \in Below(up, x, V) /\ y \in Below(up, a, V) }
<1>1. S \in SUBSET V /\ x \in S
  BY BelowIsClosed
<1>2. ClosedBelow(up, S, V)
  <2> SUFFICES ASSUME NEW y \in V, up[y] \in S
               PROVE  y \in S
    BY DEF ClosedBelow
  <2>1. y \in Below(up, x, V)
    BY BelowIsClosed
  <2>2. ASSUME y \in Below(up, a, W)
        PROVE  a \in Below(up, x, V) /\ y \in Below(up, a, V)
    <3>1. CASE y = a
      BY <2>1, <3>1, BelowIsClosed
    <3>2. CASE y # a
      <4>1. up[y] \in Below(up, a, W)
        BY <2>2, <3>2, BelowIsReached
      <4>2. QED
        BY <4>1, BelowIsClosed
    <3>3. QED
      BY <3>1, <3>2
  <2>3. QED
    BY <2>1, <2>2
<1>3. d \in S
  BY <1>1, <1>2 DEF Below
<1>4. QED
  BY <1>3

----------------------------------------------------------------------------
(* Products.                                                               *)

LEMMA OnePageMore ==
    ASSUME NEW a \in Nat, NEW b \in Nat
    PROVE  a * (b - 1) + a = a * b
OBVIOUS

LEMMA NoLess ==
    ASSUME NEW a \in Nat \ {0}, NEW b \in Nat
    PROVE  a * b \in Nat /\ b <= a * b
OBVIOUS

----------------------------------------------------------------------------
(* A finite set that is strictly and totally ordered: the number of those  *)
(* before a member is the place of the member.                             *)
Rank(S, R) == [x \in S |-> Cardinality({ y \in S : <<y, x>> \in R })]

LEMMA EachHasItsPlace ==
    ASSUME NEW S, IsFiniteSet(S), NEW R,
           \A x \in S : <<x, x>> \notin R,
           \A x, y, z \in S : <<x, y>> \in R /\ <<y, z>> \in R => <<x, z>> \in R,
           \A x, y \in S : x = y \/ <<x, y>> \in R \/ <<y, x>> \in R,
           NEW rank, rank = Rank(S, R)
    PROVE  /\ \A x \in S : rank[x] \in 0 .. Cardinality(S) - 1
           /\ \A x, y \in S : <<x, y>> \in R => rank[x] < rank[y]
           /\ \A x, y \in S : rank[x] = rank[y] => x = y
           /\ \A i \in 0 .. Cardinality(S) - 1 : \E x \in S : rank[x] = i
<1>1. PICK n \in Nat : n = Cardinality(S)
  BY FS_CardinalityType
<1>r. rank = [x \in S |-> Cardinality({ y \in S : <<y, x>> \in R })]
  BY DEF Rank
<1>2. ASSUME NEW x \in S
      PROVE  rank[x] \in 0 .. n - 1
  <2>1. PICK O \in SUBSET S : O = { y \in S : <<y, x>> \in R }
    OBVIOUS
  <2>2. x \notin O
    BY <2>1
  <2>3. /\ Cardinality(O) \in Nat /\ Cardinality(O) <= n /\ Cardinality(O) # n
    BY <1>1, <2>2, FS_Subset, FS_CardinalityType
  <2>4. rank[x] = Cardinality(O)
    BY <1>r, <2>1
  <2>5. QED
    BY <2>3, <2>4
<1>3. ASSUME NEW x \in S, NEW z \in S, <<x, z>> \in R
      PROVE  rank[x] < rank[z]
  <2>1. PICK O \in SUBSET S, P \in SUBSET S :
            O = { y \in S : <<y, x>> \in R } /\ P = { y \in S : <<y, z>> \in R }
    OBVIOUS
  <2>2. O \subseteq P /\ x \in P \ O
    BY <1>3, <2>1
  <2>3. IsFiniteSet(P)
    BY FS_Subset
  <2>4. /\ Cardinality(O) \in Nat /\ Cardinality(P) \in Nat
        /\ Cardinality(O) <= Cardinality(P) /\ Cardinality(O) # Cardinality(P)
    BY <2>2, <2>3, FS_Subset, FS_CardinalityType
  <2>5. rank[x] = Cardinality(O) /\ rank[z] = Cardinality(P)
    BY <1>r, <2>1
  <2>6. QED
    BY <2>4, <2>5
<1>4. ASSUME NEW x \in S, NEW z \in S, rank[x] = rank[z]
      PROVE  x = z
  <2>1. rank[x] \in Int /\ ~(rank[x] < rank[z]) /\ ~(rank[z] < rank[x])
    BY <1>2, <1>4
  <2>2. <<x, z>> \notin R /\ <<z, x>> \notin R
    BY <1>3, <2>1
  <2>3. QED
    BY <2>2
<1>5. rank \in Injection(S, 0 .. n - 1)
  BY <1>r, <1>2, <1>4 DEF Injection, IsInjective
<1>6. IsFiniteSet(0 .. n - 1) /\ Cardinality(0 .. n - 1) = n
  <2>1. /\ 0 \in Int /\ n - 1 \in Int
        /\ n = IF 0 > n - 1 THEN 0 ELSE (n - 1) - 0 + 1
    OBVIOUS
  <2>2. QED
    BY <2>1, FS_Interval
<1>7. rank \in Surjection(S, 0 .. n - 1)
  BY <1>1, <1>5, <1>6, FS_Injection
<1>8. QED
  BY <1>1, <1>2, <1>3, <1>4, <1>7 DEF Surjection

(* A set of numbers that is not empty has a least member.                  *)
LEMMA LeastNumber ==
    ASSUME NEW T \in SUBSET Nat, T # {}
    PROVE  \E n \in T : \A k \in T : n <= k
<1>1. PICK R : R = OpToRel(<, Nat)
  OBVIOUS
<1>2. R = { p \in Nat \X Nat : p[1] < p[2] }
  BY <1>1, Zenon DEF OpToRel
<1>3. IsWellFoundedOn(R, Nat)
  BY <1>1, NatLessThanWellFounded, Zenon
<1>4. PICK n \in T : \A k \in T : <<k, n>> \notin R
  BY <1>3, WFMin
<1>5. \A k \in T : k < n => <<k, n>> \in R
  BY <1>2
<1>6. ASSUME NEW k \in T
      PROVE  n <= k
  <2>1. n \in Nat /\ k \in Nat /\ ~(k < n)
    BY <1>4, <1>5
  <2>2. QED
    BY <2>1
<1>7. QED
  BY <1>6

(* What a function makes of a finite set is finite.                        *)
LEMMA ImageIsFinite ==
    ASSUME NEW S, IsFiniteSet(S), NEW f
    PROVE  IsFiniteSet({ f[x] : x \in S })
<1>1. PICK g : g = [x \in S |-> f[x]]
  OBVIOUS
<1>2. g \in Surjection(S, { f[x] : x \in S })
  BY <1>1 DEF Surjection
<1>3. QED
  BY <1>2, FS_Surjection

=============================================================================
