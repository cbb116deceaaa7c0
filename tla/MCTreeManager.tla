---------------------------- MODULE MCTreeManager ----------------------------
(***************************************************************************)
(* Small instances of TreeManager: the seed rows and the symmetries.       *)
(***************************************************************************)
EXTENDS TreeManager, TLC

CONSTANTS d1, d2, d3, d4, n1, m1

SeedText == [name |-> n1, metadata |-> m1]

Rows(up) ==
    [parent |-> [d \in Dirs |-> IF d \in DOMAIN up THEN up[d].parent ELSE NoDir],
     born   |-> [d \in Dirs |-> IF d \in DOMAIN up THEN up[d].born ELSE 0],
     text   |-> SeedText,
     time   |-> Cardinality(DOMAIN up)]

(* A root with a child; a root with a child and a grandchild.             *)
RootAndChild ==
    Rows(d1 :> [parent |-> NoDir, born |-> 1] @@ d2 :> [parent |-> d1, born |-> 2])

Chain ==
    Rows(d1 :> [parent |-> NoDir, born |-> 1] @@ d2 :> [parent |-> d1, born |-> 2]
         @@ d3 :> [parent |-> d2, born |-> 3])

RequestSymmetry == Permutations(Requests)

=============================================================================
