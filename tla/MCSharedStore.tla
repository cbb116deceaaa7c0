---------------------------- MODULE MCSharedStore ----------------------------
(***************************************************************************)
(* Small instances of SharedStore: the tree at the start, and the symmetry *)
(* of the controllers.                                                     *)
(***************************************************************************)
EXTENDS SharedStore, TLC

CONSTANTS a, b, d

(* A root and the base below it.                                           *)
RootAndBase ==
    [parent |-> [x \in Dirs |-> IF x = b THEN a ELSE NoDir],
     born   |-> [x \in Dirs |-> CASE x = a -> 1 [] x = b -> 2 [] OTHER -> 0]]

ControllerSymmetry == Permutations(Controllers)

=============================================================================
