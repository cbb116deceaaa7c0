---------------------------- MODULE DirectoryTree ----------------------------
(***************************************************************************)
(* The directory tree as its clients and watchers see it, without          *)
(* requests, statements, retries or crashes: a forest that grows one       *)
(* directory at a time and loses whole live subtrees at once.              *)
(***************************************************************************)
EXTENDS Naturals, Trees

CONSTANTS Dirs, NoDir, First   \* First: the forest at the start

VARIABLES
    up,        \* the parent of each directory
    planted,   \* the directories there have ever been
    felled     \* those that were deleted

forestVars == <<up, planted, felled>>

ForestTypeOK ==
    /\ up \in [Dirs -> Dirs \cup {NoDir}]
    /\ planted \subseteq Dirs
    /\ felled \subseteq planted

ForestInit ==
    /\ planted = { d \in Dirs : First.born[d] > 0 }
    /\ up = First.parent
    /\ felled = {}

Standing == planted \ felled

(* A directory appears, a root or below a directory there has ever been.   *)
Plant(d, p) ==
    /\ d \in Dirs \ planted
    /\ p \in planted \cup {NoDir}
    /\ planted' = planted \cup {d}
    /\ up' = [up EXCEPT ![d] = p]
    /\ UNCHANGED felled

(* A directory that is no root goes, with all that is live below it.       *)
Fell(d) ==
    /\ d \in Standing
    /\ up[d] # NoDir
    /\ felled' = felled \cup Below(up, d, Standing)
    /\ UNCHANGED <<up, planted>>

ForestNext ==
    \/ \E d \in Dirs, p \in Dirs \cup {NoDir} : Plant(d, p)
    \/ \E d \in Dirs : Fell(d)

(* What may be said of the tree: only what has happened.                   *)
Fact == [type : {"create", "update", "delete"}, dir : Dirs]

True(fact) == fact.dir \in IF fact.type = "delete" THEN felled ELSE planted

=============================================================================
