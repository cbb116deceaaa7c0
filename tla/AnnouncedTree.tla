---------------------------- MODULE AnnouncedTree ----------------------------
(***************************************************************************)
(* What the tree manager promises: a directory tree, and announcements     *)
(* about it that never say more than has happened.                         *)
(***************************************************************************)
EXTENDS DirectoryTree

VARIABLE told   \* what has been announced

treeVars == <<up, planted, felled, told>>

TreeInit == ForestInit /\ told = {}

Tell(fact) ==
    /\ True(fact)
    /\ told' = told \cup {fact}
    /\ UNCHANGED forestVars

TreeNext ==
    \/ ForestNext /\ UNCHANGED told
    \/ \E fact \in Fact : Tell(fact)

TreeSpec == TreeInit /\ [][TreeNext]_treeVars

=============================================================================
