---------------------------- MODULE MCMemoryDriver ----------------------------
(***************************************************************************)
(* Small instances of MemoryDriver: the directories at the start and the   *)
(* symmetry of the requests.                                               *)
(***************************************************************************)
EXTENDS MemoryListings, TLC

CONSTANTS d1, d2, d3, d4, d5

(* A root, a child and two grandchildren.                                  *)
Family ==
    [parent |-> [d \in Dirs |-> CASE d = d2 -> d1 [] d \in {d3, d4} -> d2 [] OTHER -> NoDir],
     born   |-> [d \in Dirs |-> CASE d = d1 -> 1 [] d = d2 -> 2 [] d = d3 -> 3
                                   [] d = d4 -> 4 [] OTHER -> 0],
     time   |-> 4]

RequestSymmetry == Permutations(Requests)

=============================================================================
